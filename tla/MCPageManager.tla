---------------------------- MODULE MCPageManager ----------------------------
EXTENDS PageManager, FiniteSets, TLC

CONSTANTS a, h0

MCContents == {a}
MCHeaders == {h0}

(* Bound of the run with errors: no step is taken once two pages are lost. *)
MostNotLost == Cardinality(lost) <= 1
=============================================================================
