----------------------------- MODULE MCCatchup -----------------------------
(* Instances of Catchup for TLC. *)
EXTENDS Catchup, TLC

CONSTANTS n1, n2

SymmetricNodes == Permutations({n1, n2})
=============================================================================
