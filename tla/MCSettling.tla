----------------------------- MODULE MCSettling -----------------------------
(* What is leased comes back, for TLC: retries of nodes that stay up         *)
(* (RetryQueue) and the leases of nodes that come and go (NodeLife).  The    *)
(* two share no variable, so a behaviour moves one of them, chosen at its    *)
(* start; each brings its own fairness.                                      *)
EXTENDS RetryQueue, TLC

CONSTANTS
    n1, n2, r1,
    Control, Leasable, HeartbeatEvery, NodeTimeout, MaxStops, Nobody

VARIABLES
    part,   \* the part that moves
    online, age, fleet, crawls, ending, asked, due, missed, holder, past, stops

Nodes == INSTANCE NodeLife WITH Host <- Node

ASSUME PartsAssumption == Nodes!NodeLifeAssumption

nodeVars == <<online, age, fleet, crawls, ending, asked, due, missed, holder, past, stops>>
allVars == <<part, vars, nodeVars>>

\* A step of one part.
InQueue(A) == part = "queue" /\ A /\ UNCHANGED <<part, nodeVars>>
InNodes(A) == part = "nodes" /\ A /\ UNCHANGED <<part, vars>>

SettlingInit == part \in {"queue", "nodes"} /\ Init /\ Nodes!NodeLifeInit

SettlingNext == InQueue(SteadyNext) \/ InNodes(Nodes!NodeLifeNext)

SettlingSpec ==
    /\ SettlingInit /\ [][SettlingNext]_allVars
    \* retries: the goroutine runs, statements answer, leases expire
    /\ \A n \in Node :
         /\ WF_allVars(InQueue(LeaseRetries(n))) /\ WF_allVars(InQueue(Start(n)))
         /\ WF_allVars(InQueue(SteadyTry(n))) /\ WF_allVars(InQueue(Settle(n) \/ Forget(n)))
    /\ \A p \in Posts : WF_allVars(InQueue(Expire(p))) /\ WF_allVars(InQueue(DelayOver(p)))
    \* nodes: time passes, the center sweeps and is started again when it ends
    /\ WF_allVars(InNodes(Nodes!TimePasses)) /\ WF_allVars(InNodes(Nodes!Sweep))
    /\ WF_allVars(InNodes(Nodes!Start(Control)))
    /\ \A n \in Node :
         WF_allVars(InNodes(Nodes!ProcessStep(n))) /\ WF_allVars(InNodes(Nodes!Acquire(n)))
-----------------------------------------------------------------------------
\* A node that sends its beats in time is never taken for dead, and one in its
\* loop holds nothing an earlier run of it was granted.
PunctualIsAlive == part = "nodes" => Nodes!NodeLifeTypeOK /\ Nodes!PunctualIsAlive

\* A lease of a run that is over comes back, however the run ended, and not
\* even its node has to start again; a leased retry is stored or out of
\* attempts in the end.
WorkComesBack == RetriesSettle /\ Nodes!LeftLeasesReturn
=============================================================================
