------------------------------- MODULE MCDigest -------------------------------
(***************************************************************************)
(* Small instances of Digest: two turns, cron and the administrator, a     *)
(* clock of half seconds.                                                  *)
(***************************************************************************)
EXTENDS Digest, TLC

CONSTANTS t1, t2, cron, admin

TwoTurns == {t1, t2}
BothRunners == {cron, admin}
=============================================================================
