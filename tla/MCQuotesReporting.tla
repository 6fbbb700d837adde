-------------------------- MODULE MCQuotesReporting --------------------------
(* QuotesReporting on small instances. *)
EXTENDS QuotesReporting, TLC

CONSTANTS q1, q2

(* The quotes are alike; used where only safety properties are checked. *)
Symmetry == Permutations({q1, q2})
=============================================================================
