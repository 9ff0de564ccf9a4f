---------------------------- MODULE MCRequestPhase ----------------------------
(* RequestPhase for TLC: requests are interchangeable. *)
EXTENDS RequestPhase, TLC

Symmetry == Permutations(Requests)
===============================================================================
