----------------------------- MODULE MCNodeLife -----------------------------
(* Instances of NodeLife for TLC. *)
EXTENDS NodeLife, TLC

CONSTANTS n1, n2, r1

\* Time passes, the center sweeps and is started again, processes go on.
LifeSpec ==
    /\ NodeLifeInit /\ [][NodeLifeNext]_nodeLife
    /\ WF_nodeLife(TimePasses) /\ WF_nodeLife(Sweep) /\ WF_nodeLife(Start(Control))
    /\ \A n \in Host : WF_nodeLife(ProcessStep(n)) /\ WF_nodeLife(Acquire(n))
=============================================================================
