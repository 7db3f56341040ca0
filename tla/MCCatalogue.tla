----------------------------- MODULE MCCatalogue -----------------------------
(***************************************************************************)
(* Catalogue for TLC.                                                      *)
(***************************************************************************)
EXTENDS Catalogue, TLC

\* Three breaks, whose prices fall; two of the same quantity.
Breaks ==
    [v \in Values |->
        CASE v = 0 -> {}
          [] v = 1 -> {[qty |-> 2, unit_price |-> 2], [qty |-> 4, unit_price |-> 1]}
          [] v = 2 -> {[qty |-> 3, unit_price |-> 1], [qty |-> 3, unit_price |-> 2]}]

Symmetry == Permutations(Requests)
=============================================================================
