------------------------------- MODULE WebJobs -------------------------------
(***************************************************************************)
(* The console's jobs (cmd/saucedust/webops.go): rebuilding the index and  *)
(* re-embedding run one at a time, each in a goroutine of its own.         *)
(***************************************************************************)
EXTENDS Integers, FiniteSets

CONSTANT Jobs    \* names of jobs

JobsAssumption == "none" \notin Jobs

VARIABLES
    job,         \* webOps.running, "none" for the empty name
    atWork       \* goroutines of jobs

work == <<job, atWork>>

Idle_Always == TRUE
Idle == job = "none"

\* start: looked at and taken under one lock; the goroutine has a context of
\* its own, which no request and no shutdown ends.
StartJob(j) ==
    /\ Idle
    /\ job' = j /\ atWork' = atWork \cup {j}

JobEnds(j) ==
    /\ j \in atWork
    /\ atWork' = atWork \ {j} /\ job' = "none"

\* A job dies with its process, which a saved setting restarts, and nothing
\* remembers it.
ProcessEnds == job' = "none" /\ atWork' = {}

JobsInit == job = "none" /\ atWork = {}

JobsNext == ProcessEnds \/ \E j \in Jobs : StartJob(j) \/ JobEnds(j)

-----------------------------------------------------------------------------
\* A rebuild and a re-embedding never run at once, and no job that ended
\* keeps the next one out.
OneJob == Cardinality(atWork) <= 1 /\ (job = "none" <=> atWork = {})
=============================================================================
