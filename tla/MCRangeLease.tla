---------------------------- MODULE MCRangeLease ----------------------------
(* Two instances of RangeLease for TLC: a fleet with one floor (RangeLease   *)
(* itself) and a fleet with different floors whose operator resets rows      *)
(* (Operated).  They share no variable; a behaviour moves one of them,       *)
(* chosen at its start.                                                      *)
EXTENDS RangeLease, TLC

CONSTANTS n1, n2, w1, w2, w3, v1, v2, OperatedFloors, OperatedSizes

VARIABLES part, oRows, oNextRow, oBefore, oLife, oFloor, oPc, oLease, oCrawled

\* Two workers share n1, the third has n2 to itself.
MCNodeOf == (w1 :> n1) @@ (w2 :> n1) @@ (w3 :> n2)

\* Workers of one node are interchangeable.
SameNodeWorkers == Permutations({w1, w2})

\* Each of the operated fleet has a node to itself.
OperatedNodeOf == [v \in {v1, v2} |-> IF v = v1 THEN n1 ELSE n2]

Operated == INSTANCE RangeLease WITH
    Worker <- {v1, v2}, NodeOf <- OperatedNodeOf,
    Latest <- 3, Floors <- OperatedFloors, UniformFloors <- FALSE, Sizes <- OperatedSizes,
    rows <- oRows, nextRow <- oNextRow, before <- oBefore, life <- oLife,
    floor <- oFloor, pc <- oPc, lease <- oLease, crawled <- oCrawled

\* What RangeLease assumes of its constants, of Operated.
ASSUME OperatedAssumption ==
    /\ {n1, n2} \subseteq Node
    /\ OperatedFloors \subseteq Nat \ {0} /\ OperatedSizes \subseteq Nat \ {0}

operated == <<oRows, oNextRow, oBefore, oLife, oFloor, oPc, oLease, oCrawled>>

LeasesInit == part \in {"uniform", "operated"} /\ Init /\ Operated!Init

LeasesNext ==
    /\ UNCHANGED part
    /\ \/ part = "uniform" /\ Next /\ UNCHANGED operated
       \/ part = "operated" /\ (Operated!Next \/ Operated!OperatorNext) /\ UNCHANGED vars

LeasesSpec == LeasesInit /\ [][LeasesNext]_<<part, vars, operated>>
-----------------------------------------------------------------------------
\* With different floors and an operator's resets tokens repeat: what is left
\* of the fence is that two nodes are never both accepted on one row, and still
\* no id the frontier has passed is lost.
OperatedFence == Operated!NodeExclusive /\ Operated!NoLostIds
=============================================================================
