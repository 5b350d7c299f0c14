---------------------------- MODULE MCValidation ----------------------------
(***************************************************************************)
(* Validation for TLC: every first name of up to five characters, last     *)
(* names and e-mail addresses of each sort.  Capitals has a normalized     *)
(* form; longBlocked is over the length and of a blocked domain.           *)
(***************************************************************************)
EXTENDS Validation, TLC

CONSTANTS plain, capitals, blank, long, blocked, longBlocked, malformed

MCNameInputs == SeqOf(Characters, 5)

MCLastNameInputs ==
    {<< >>, <<"letter">>, <<"space", "letter", "letter">>,
     <<"letter", "space", "space", "letter">>,
     <<"letter", "apostrophe", "apostrophe">>}

MCEmails == {plain, capitals, blank, long, blocked, longBlocked, malformed}

MCCanonical ==
    plain :> plain @@ capitals :> plain @@ long :> long @@ blocked :> blocked

=============================================================================
