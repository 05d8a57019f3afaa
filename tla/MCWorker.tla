------------------------------ MODULE MCWorker ------------------------------
(* What one worker node runs, for TLC: IndexBatch over its limiter           *)
(* (Indexer), the embedding worker it calls (Batcher), the choice of the     *)
(* network path its downloads take (NetPath), and what ends or halts its     *)
(* work: -limit (CrawlBudget) and a full index (Capacity).  The parts share  *)
(* no variable, so a behaviour moves one of them, chosen at its start.       *)
EXTENDS Indexer, Sequences, TLC

CONSTANTS
    p1, p2, p3, c1, c2, c3, r1, r2, direct, encrypted, proxy,
    Caller, Size, Preparers,
    Unready, Ech, None, Requester, MaxDisturbed, MaxRestarts,
    w1, w2, Crawler, MaxImages, MaxPosts, MaxRanges,
    Backfill, Other, MaxIndexed, BatchSize, Overshoot, Errors

VARIABLES
    part,   \* the part that moves
    caller, queue, inflight, jobs, task,
    open, chosen, probes, ech, req, lead, todo, refused, answered, disturbed, restarts,
    reserved, done, stopped, stage, size, share, result, handed, closed,
    stored, nodeCount, roomCount, doing, batchOf, basis, grudge, errors

Order == <<direct, encrypted, proxy>>

Embed == INSTANCE Batcher
Path == INSTANCE NetPath
Budget == INSTANCE CrawlBudget
Room == INSTANCE Capacity

ASSUME PartsAssumption ==
    /\ Embed!BatcherAssumption /\ Path!NetPathAssumption
    /\ Budget!CrawlBudgetAssumption /\ Room!CapacityAssumption

embed == <<caller, queue, inflight, jobs, task>>
path == <<open, chosen, probes, ech, req, lead, todo, refused, answered, disturbed, restarts>>
budget == <<reserved, done, stopped, stage, size, share, result, handed, closed>>
room == <<stored, nodeCount, roomCount, doing, batchOf, basis, grudge, errors>>
all == <<part, vars, embed, path, budget, room>>

\* A step of one part.
InIndex(A) == part = "index" /\ A /\ UNCHANGED <<part, embed, path, budget, room>>
InEmbed(A) == part = "embed" /\ A /\ UNCHANGED <<part, vars, path, budget, room>>
InPath(A) == part = "path" /\ A /\ UNCHANGED <<part, vars, embed, budget, room>>
InBudget(A) == part = "budget" /\ A /\ UNCHANGED <<part, vars, embed, path, room>>
InRoom(A) == part = "room" /\ A /\ UNCHANGED <<part, vars, embed, path, budget>>

WorkerInit ==
    /\ part \in {"index", "embed", "path", "budget", "room"}
    /\ part = "path" \/ (open = {} /\ answered = {})
    /\ part = "room" \/ stored = 0
    /\ Init /\ Embed!BatcherInit /\ Path!NetPathInit /\ Budget!BudgetInit /\ Room!CapacityInit

WorkerNext ==
    \/ InIndex(Next) \/ InEmbed(Embed!BatcherNext) \/ InPath(Path!NetPathNext)
    \/ InBudget(Budget!BudgetNext) \/ InRoom(Room!CapacityNext)

WorkerSpec ==
    /\ WorkerInit /\ [][WorkerNext]_all
    \* goroutines are scheduled, calls have timeouts, a mutex is handed on
    /\ WF_all(InIndex(IndexBatch)) /\ WF_all(InIndex(Resize /\ UNCHANGED indexer))
    /\ \A p \in Post : SF_all(InIndex(Goroutine(p)))
    \* the event loop runs what is ready, threads end
    /\ WF_all(InEmbed(Embed!Loop)) /\ \A c \in Caller : WF_all(InEmbed(Embed!Request(c)))
    \* requests go on
    /\ \A r \in Requester : WF_all(InPath(Path!DoStep(r)))
    \* calls answer, remembered counts age
    /\ \A w \in Crawler : WF_all(InBudget(Budget!ProcessRange(w)))
    /\ \A w \in Room!Sender : WF_all(InRoom(Room!Submission(w)))
    /\ WF_all(InRoom(Room!NodeCountAges)) /\ WF_all(InRoom(Room!RoomCountAges))
-----------------------------------------------------------------------------
\* Types: the limiter never stands outside its bounds, inflight never counts a
\* request that still prepares its image, and no path is preferred that cannot
\* be built.
PartsTypeOK == TypeOK /\ Embed!BatcherTypeOK /\ Path!NetPathTypeOK

\* However many workers take at once, no more than -limit is processed; a range
\* is closed only when each of its posts was dealt with, and the stop of the
\* limit leaves none behind as running.  The node's gate and the center's
\* refuse nothing the other let pass by the same count.
LimitsAreKept ==
    /\ part = "budget" =>
         Budget!BudgetTypeOK /\ Budget!LimitHolds /\ Budget!NoRangeHurtByLimit
    /\ part = "room" => Room!CapacityTypeOK /\ Room!GatesAgree

\* IndexBatch returns, whatever it is doing when its context ends, and every
\* request to the embedding worker is answered, also behind a batch that failed.
CallsReturn ==
    <>[](/\ part = "index" => main = "returned"
         /\ part = "embed" => \A c \in Caller : caller[c] = "answered")

\* The batcher's window is opened over requests that have their answer only.
WindowIsForTheAnswered == Embed!WindowIsForTheAnswered

\* When the network stops changing, the path tried first gets through.
SettlesOnAnOpenPath == <>[](part = "path" => Path!OpenIsPreferred)

\* A full counter stops the run; and refusals come to an end: a full index is
\* seen by the node, which rests.
LimitsEnd == Budget!FullStops /\ Room!RefusalsEnd
=============================================================================
