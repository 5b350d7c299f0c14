----------------------------- MODULE MCFormPages -----------------------------
(***************************************************************************)
(* FormPages for TLC: a browser with the asynchronous form, a kiosk at the *)
(* same address with the synchronous one, and a program at another address *)
(* that sends a key the pages may have issued as well.  The browser's      *)
(* requests carry a malformed header, so that its form keys have to be     *)
(* found behind it.                                                        *)
(***************************************************************************)
EXTENDS FormPages, TLC

CONSTANTS w1, s1, s2, s3, t1, t2, t3, k1, k2, malformed, pa, pb,
          browser, kiosk, program, here, there

MCTasks == {t1, t2, t3}

MCSync == {s1, s2, s3}

MCCallers == {w1} \cup MCSync

MCOrigins == MCTasks \cup MCSync

MCRawKeys == {k1, k2}

MCAddresses == {here, there}

MCKeys == MCTasks \cup ScopedKeys

MCRequestKeys == ScopedKeys \cup {NoKey}

MCPayloads == {pa, pb}

MCSubmissionIds == 1 .. 4

MCVisitors == {browser, kiosk, program}

MCAddress == browser :> here @@ kiosk :> here @@ program :> there

MCHeader == browser :> malformed @@ kiosk :> NoKey @@ program :> k1

MCPayload == browser :> pa @@ kiosk :> pb @@ program :> pb

MCSender == [r \in WebRequests |-> IF r \in Tasks THEN browser
                                   ELSE IF r = s1 THEN program ELSE kiosk]

Symmetry == Permutations(MCTasks) \cup Permutations({s2, s3})

=============================================================================
