----------------------------- MODULE MCAdminChat -----------------------------
(***************************************************************************)
(* Small instances of AdminChat: two questions of one administrator.       *)
(***************************************************************************)
EXTENDS AdminChat, TLC

CONSTANTS q1, q2

TwoRequests == {q1, q2}
=============================================================================
