---------------------------- MODULE MCRetryQueue ----------------------------
(* Instances of RetryQueue for TLC. *)
EXTENDS RetryQueue, TLC

CONSTANTS n1, n2

SymmetricNodes == Permutations({n1, n2})
=============================================================================
