------------------------------- MODULE MCCalls -------------------------------
(* Bounds for Calls. *)
EXTENDS Calls

\* Two requests under way at once.
TwoRequests == Cardinality(reqs) <= 2
=============================================================================
