----------------------------- MODULE Validation -----------------------------
(***************************************************************************)
(* shared/validation.py, and the two times a submission passes through it: *)
(* the request validates the fields as they were typed (flask_app strips   *)
(* them first), fingerprints and enqueues the normalized values, and the   *)
(* worker validates those once more before it saves them.                  *)
(*                                                                         *)
(* A name is a sequence of characters, of which only the kind matters.     *)
(***************************************************************************)
EXTENDS Integers, Sequences, SequencesExt, FiniteSets

CONSTANTS
    MIN_NAME_LENGTH,    \* 2 in the code
    MAX_NAME_LENGTH,    \* 50 in the code
    NameInputs,         \* what may be typed into the field first_name
    LastNameInputs,     \* ... and into last_name
    Emails,             \* e-mail fields, without white space around them
    BlankEmail,         \* the empty one
    LongEmails,         \* those longer than 254 characters
    DisposableEmails,   \* those whose domain, in lower case, is blocked
    Canonical           \* email_validator: address -> normalized address, for
                        \* those it accepts

Characters == {"letter", "space", "hyphen", "apostrophe", "other"}

ASSUME ValidationAssumption ==
    /\ MIN_NAME_LENGTH \in Nat \ {0}
    /\ MAX_NAME_LENGTH \in Nat
    /\ NameInputs \subseteq Seq(Characters)
    /\ LastNameInputs \subseteq Seq(Characters)
    /\ BlankEmail \notin DOMAIN Canonical
    /\ Canonical \in [DOMAIN Canonical -> DOMAIN Canonical]
    /\ \A e \in DOMAIN Canonical : Canonical[Canonical[e]] = Canonical[e]
    /\ \A e \in DOMAIN Canonical :
          /\ Canonical[e] \in LongEmails => e \in LongEmails
          /\ e \in DisposableEmails <=> Canonical[e] \in DisposableEmails

-----------------------------------------------------------------------------
\* Names.

\* The positions that hold no white space.
Inked(value) == {i \in DOMAIN value : value[i] # "space"}

\* value.strip(), at the left end and at both.
LeftStripped(value) ==
    IF Inked(value) = {} THEN << >>
    ELSE SubSeq(value, Min(Inked(value)), Len(value))

Stripped(value) == Reverse(LeftStripped(Reverse(LeftStripped(value))))

\* A bug to detect: only the ends are stripped.
CleanedAtEnds(value) == Stripped(value)

\* " ".join(value.strip().split()): of a run of spaces the first one stays.
Cleaned(value) ==
    LET stripped == Stripped(value)
        joined[n \in 0 .. Len(stripped)] ==
            IF n = 0 THEN << >>
            ELSE IF stripped[n] = "space" /\ Last(joined[n - 1]) = "space"
            THEN joined[n - 1]
            ELSE Append(joined[n - 1], stripped[n])
    IN  joined[Len(stripped)]

\* A bug to detect: the pattern may match from anywhere on.
MatchesSomewhere(name) ==
    /\ \E i \in DOMAIN name : name[i] = "letter"
    /\ \A i \in DOMAIN name : name[i] # "other"

\* NAME_PATTERN.
MatchesPattern(name) ==
    /\ name # << >>
    /\ Head(name) = "letter"
    /\ \A i \in DOMAIN name : name[i] # "other"

AreDouble(c, d) == c = d /\ c \in {"hyphen", "apostrophe"}

HasDoublePunctuation(name) ==
    \E i \in 1 .. Len(name) - 1 : AreDouble(name[i], name[i + 1])

\* A bug to detect: the length is measured before spaces are collapsed.
ValidRawLength(value) ==
    /\ Cleaned(value) # << >>
    /\ Len(value) >= MIN_NAME_LENGTH
    /\ Len(value) <= MAX_NAME_LENGTH
    /\ MatchesPattern(Cleaned(value))
    /\ ~HasDoublePunctuation(Cleaned(value))

\* validate_name raises no error; the value it returns is Cleaned.
ValidName(value) ==
    LET cleaned == Cleaned(value)
    IN  /\ cleaned # << >>
        /\ Len(cleaned) >= MIN_NAME_LENGTH
        /\ Len(cleaned) <= MAX_NAME_LENGTH
        /\ MatchesPattern(cleaned)
        /\ ~HasDoublePunctuation(cleaned)

-----------------------------------------------------------------------------
\* The whole form.

\* validate_email_address raises no error.
ValidEmail(email) ==
    /\ email # BlankEmail
    /\ email \notin LongEmails
    /\ email \in DOMAIN Canonical
    /\ email \notin DisposableEmails

\* validate_submission_payload raises no error.
ValidForm(form) ==
    /\ ~form.honeypot
    /\ ValidName(form.first_name)
    /\ ValidName(form.last_name)
    /\ ValidEmail(form.email)

Normalized(form) ==
    [honeypot |-> FALSE, first_name |-> Cleaned(form.first_name),
     last_name |-> Cleaned(form.last_name), email |-> Canonical[form.email]]

\* extract_sync_form_data of flask_app.
ExtractedByFlask(form) ==
    [form EXCEPT !.first_name = Stripped(@), !.last_name = Stripped(@)]

Forms == [honeypot : BOOLEAN, first_name : NameInputs,
          last_name : LastNameInputs, email : Emails]

-----------------------------------------------------------------------------
\* A submission on its way.

VARIABLES
    typed,      \* the fields as the client sent them
    payload,    \* the fields as they are handed on
    enqueued,   \* the fields that were fingerprinted and enqueued, once they
                \* were (history)
    stage       \* "posted", "refused", "enqueued", "saved" or "failed"

vars == <<typed, payload, enqueued, stage>>

Init ==
    /\ typed \in Forms
    /\ payload \in {typed, ExtractedByFlask(typed)}
    /\ enqueued = << >>
    /\ stage = "posted"

\* The service call of the request validates.
Request ==
    /\ stage = "posted"
    /\ \/ /\ ValidForm(payload)
          /\ payload' = Normalized(payload)
          /\ enqueued' = Normalized(payload)
          /\ stage' = "enqueued"
       \/ /\ ~ValidForm(payload)
          /\ stage' = "refused"
          /\ UNCHANGED <<payload, enqueued>>
    /\ UNCHANGED typed

\* The worker validates again; an error there ends the task as failed.
Worker ==
    LET valid == ValidForm(payload)
    IN  /\ stage = "enqueued"
        /\ payload' = IF valid THEN Normalized(payload) ELSE payload
        /\ stage' = IF valid THEN "saved" ELSE "failed"
        /\ UNCHANGED <<typed, enqueued>>

Finished == stage \in {"refused", "saved", "failed"} /\ UNCHANGED vars

Next == Request \/ Worker \/ Finished

Spec == Init /\ [][Next]_vars

-----------------------------------------------------------------------------
\* What a name is, said of the characters as they were typed: those that are
\* not white space, and one space for each gap between two of them.
Gaps(value) ==
    {i \in DOMAIN value :
        /\ value[i] = "space"
        /\ i - 1 \in Inked(value)
        /\ \E j \in Inked(value) : i < j}

Kept(value) == Inked(value) \cup Gaps(value)

\* How many of those there are up to position n.
KeptUpTo(value, n) == Cardinality({i \in Kept(value) : i <= n})

NameOf(value) ==
    [k \in 1 .. Cardinality(Kept(value)) |->
        value[CHOOSE i \in Kept(value) : KeptUpTo(value, i) = k]]

\* Between the bounds, letters, single spaces, hyphens and apostrophes only, a
\* letter first, and no two equal hyphens or apostrophes side by side.
IsName(value) ==
    LET inked == Inked(value)
    IN  /\ Cardinality(Kept(value)) \in MIN_NAME_LENGTH .. MAX_NAME_LENGTH
        /\ \A i \in inked :
              /\ value[i] # "other"
              /\ (\A j \in inked : i <= j) => value[i] = "letter"
              /\ i + 1 \in inked => ~AreDouble(value[i], value[i + 1])

\* A form is refused for its fields exactly if one of them does not meet this
\* description, however it was spaced and whichever application received it:
\* validate_submission_payload does not depend on what extract_sync_form_data
\* stripped before.
VerdictIsRight ==
    stage # "posted" =>
        (stage # "refused" <=>
            /\ ~typed.honeypot
            /\ IsName(typed.first_name)
            /\ IsName(typed.last_name)
            /\ typed.email \in DOMAIN Canonical
            /\ typed.email
                  \notin {BlankEmail} \cup LongEmails \cup DisposableEmails)

\* Two tries of one form that differ in their white space only get the same
\* fingerprint: the normalized fields depend on the words alone.
SpacingIsForgotten ==
    enqueued # << >> =>
        /\ enqueued.first_name = NameOf(typed.first_name)
        /\ enqueued.last_name = NameOf(typed.last_name)

\* What the request accepted the worker accepts too, and it saves exactly the
\* values that were fingerprinted: an accepted task does not fail, nor end in
\* conflict with an equal request, over its second validation.
WorkerAgrees ==
    /\ stage # "failed"
    /\ stage = "saved" => payload = enqueued

=============================================================================
