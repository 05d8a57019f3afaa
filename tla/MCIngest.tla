------------------------------ MODULE MCIngest ------------------------------
(* Instances of Ingest for TLC. *)
EXTENDS Ingest, TLC

CONSTANTS p1, p2, m1, m2, s1, s2

FullSymmetry == Permutations({p1, p2}) \cup Permutations({m1, m2}) \cup Permutations({s1, s2})
=============================================================================
