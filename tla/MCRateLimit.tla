---------------------------- MODULE MCRateLimit ----------------------------
(***************************************************************************)
(* RateLimit for TLC: two processes, two requests in a window of two       *)
(* seconds.                                                                *)
(***************************************************************************)
EXTENDS RateLimit

CONSTANTS p1, p2

MCProcesses == {p1, p2}

=============================================================================
