---------------------------- MODULE MCRateLimiter ----------------------------
(***************************************************************************)
(* Small instances of RateLimiter: model values for callers and contacts,  *)
(* a limit they can reach together.                                       *)
(***************************************************************************)
EXTENDS RateLimiter, TLC

CONSTANTS c1, c2, p1, p2

TwoCallers == {c1, c2}
TwoPhones == {p1, p2}
=============================================================================
