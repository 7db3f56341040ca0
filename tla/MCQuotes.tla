------------------------------- MODULE MCQuotes -------------------------------
(***************************************************************************)
(* Small instances of Quotes: two goroutines, one administrator, a quota   *)
(* of one or none, a catalogue of one table.                               *)
(***************************************************************************)
EXTENDS Quotes, TLC

CONSTANTS r1, r2, admin

TwoReaders == {r1, r2}
OneAdmin == {admin}
Quotas == {1, Unlimited}

\* The goroutines are interchangeable.
Symmetry == Permutations(TwoReaders)
=============================================================================
