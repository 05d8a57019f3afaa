------------------------------ MODULE MCCrawl ------------------------------
(* What runs beside the leases of a crawl, for TLC: the catch-up of a fleet, *)
(* the retry queue, the pages a range is read in, the planning of ranges     *)
(* that are missing, the pace of requests, the network path they take and the     *)
(* agreement on models that lets a node crawl.  These parts share no         *)
(* variable, so a behaviour moves one of them, chosen at its start.          *)
EXTENDS Catchup, Sequences, TLC

CONSTANTS
    n1, n2, o1, o2, c1, c2, w1, central, r1, r2, direct, encrypted, proxy,
    Posts, Floor, Batch, MaxAttempts, Limit, None,
    MaxPost, PageSize,
    MaxId, Operator, Sizes, Limits,
    Caller, Interval, Burst, Pauses, Retries, MaxTime,
    Unready, Ech, Requester, MaxDisturbed, MaxRestarts,
    Id, VectorSizes, Weights, Worker, Central, MaxChanges, MaxStarts

\* A model as an operator adds it, as models.json lists it, and as an embedding
\* worker has it loaded.
Added(id, kind, size, in) ==
    [id |-> id, kind |-> kind, size |-> size, weights |-> "w", in |-> in, active |-> TRUE]
Listed(id, kind, size) == [id |-> id, kind |-> kind, size |-> size, weights |-> "w"]
Loaded(id, size, weights) == [id |-> id, size |-> size, weights |-> weights]

\* Names given again with another size, kind or collection, and a second kind.
Additions ==
    {Added("a", "copy", 2, "a"), Added("a", "copy", 2, "b"),
     Added("b", "copy", 1, "b"), Added("b", "semantic", 1, "a")}
Sync == {{Listed("a", "copy", 1), Listed("b", "semantic", 1)}}
Loads ==
    {{Loaded("a", 1, "w")}, {Loaded("a", 1, "v"), Loaded("b", 1, "w")},
     {Loaded("a", 2, "w"), Loaded("b", 1, "w")}}

VARIABLES
    part,   \* the part that moves
    items, up, leased, trying, saved, stopped, stored,
    posts, nameless, bounds, cursor, found, scanning,
    rows, seen, used,
    now, nextSlot, slot, spot, attempt, sent, quiet,
    open, chosen, probes, ech, req, lead, todo, refused, answered, disturbed, restarts,
    registry, loaded, snapshot, checking, opening, serving, collections,
    points, backups, syncing, synced, resized, changes, starts

Order == <<direct, encrypted, proxy>>

Queue == INSTANCE RetryQueue
Scan == INSTANCE PageScan
Plan == INSTANCE Coverage
Rate == INSTANCE RateLimiter
Path == INSTANCE NetPath
Registry == INSTANCE Models WITH Sizes <- VectorSizes

ASSUME PartsAssumption ==
    /\ Scan!PageScanAssumption /\ Plan!CoverageAssumption /\ Rate!RateLimiterAssumption
    /\ Path!NetPathAssumption /\ Registry!ModelsAssumption

\* What RetryQueue assumes of its constants.
ASSUME QueueAssumption ==
    /\ Posts \subseteq Nat /\ Floor \in Nat /\ Limit \in Nat
    /\ Batch \in Nat \ {0} /\ MaxAttempts \in Nat \ {0} /\ None \notin Node

queue == <<items, up, leased, trying, saved, stopped, stored>>
scan == <<posts, nameless, bounds, cursor, found, scanning>>
plan == <<rows, seen, used>>
rate == <<now, nextSlot, slot, spot, attempt, sent, quiet>>
path == <<open, chosen, probes, ech, req, lead, todo, refused, answered, disturbed, restarts>>
models == <<registry, loaded, snapshot, checking, opening, serving, collections,
                  points, backups, syncing, synced, resized, changes, starts>>

CrawlInit ==
    /\ part \in {"catchup", "queue", "scan", "plan", "rate", "path", "models"}
    /\ \/ part = "scan"
       \/ posts = {1} /\ nameless = {} /\ bounds = <<1, 1>>
    /\ part = "plan" \/ rows = {}
    /\ part = "path" \/ (open = {} /\ answered = {})
    /\ part = "models" \/ loaded = [n \in Worker \cup {Central} |-> {Loaded("a", 1, "w")}]
    /\ Init /\ Queue!Init /\ Scan!PageScanInit /\ Plan!CoverageInit /\ Rate!RateInit
    /\ Path!NetPathInit /\ Registry!ModelsInit

\* Catch-up and the retries never stop; scans, planners, callers of the rate
\* limiter and the bounded starts of nodes do.
CrawlNext ==
    /\ UNCHANGED part
    /\ \/ part = "catchup" /\ Next /\ UNCHANGED <<queue, scan, plan, rate, path, models>>
       \/ part = "queue" /\ Queue!Next /\ UNCHANGED <<vars, scan, plan, rate, path, models>>
       \/ part = "scan" /\ Scan!PageScanNext /\ UNCHANGED <<vars, queue, plan, rate, path, models>>
       \/ part = "plan" /\ Plan!CoverageNext /\ UNCHANGED <<vars, queue, scan, rate, path, models>>
       \/ part = "rate" /\ Rate!RateNext /\ UNCHANGED <<vars, queue, scan, plan, path, models>>
       \/ part = "path" /\ Path!NetPathNext /\ UNCHANGED <<vars, queue, scan, plan, rate, models>>
       \/ part = "models" /\ Registry!ModelsNext /\ UNCHANGED <<vars, queue, scan, plan, rate, path>>
       \/ /\ part \in {"scan", "plan", "rate", "models"}
          /\ UNCHANGED <<vars, queue, scan, plan, rate, path, models>>

CrawlSpec == CrawlInit /\ [][CrawlNext]_<<part, vars, queue, scan, plan, rate, path, models>>

SymmetricNodes == Permutations({n1, n2})
-----------------------------------------------------------------------------
\* Of all leases given out on a retry at most one is still accepted, though
\* neither the node nor the worker is in the fence of FinishRetry, and no late
\* outcome, reclaim or new failure puts a finished retry back.
RetriesAreFenced ==
    [](part = "queue" => Queue!TypeOK /\ Queue!Exclusive) /\ Queue!SucceededForGood

\* A range that PostsInRange read to its end is read completely and each post
\* once, whatever is published meanwhile; CoverageGaps finds exactly the holes
\* between the rows, a fill covers what its operator was shown, and fills with
\* one size leave the rows disjoint, at whatever times the gaps were read.
RangesAreComplete ==
    /\ [](part = "scan" => Scan!PageScanTypeOK /\ Scan!ScanIsComplete)
    /\ [](part = "plan" =>
            Plan!CoverageTypeOK /\ Plan!GapsAreHoles /\ Plan!OneSizeKeepsDisjoint)
    /\ Plan!FillCovers

\* No more requests leave in any stretch of time than the rate and the burst,
\* and no slot is given inside the pause Danbooru asked for.
Paced == part = "rate" => Rate!RateTypeOK /\ Rate!RateHolds /\ Rate!PenaltyHolds

\* "every path has failed" is said only when every path has, whatever other
\* requests remember meanwhile, and no path is preferred that has never carried
\* an answer, in this run or in the one its memory comes from.
PathsAreHonest ==
    part = "path" =>
        Path!NetPathTypeOK /\ Path!FailedMeansAllFailed /\ Path!ChosenHasAnswered

\* Vectors of two models never meet in a collection, a backed-up vector has the
\* size its model is registered with, and a finished sync leaves active what it
\* registered.
VectorsKeepToOneModel ==
    part = "models" =>
        /\ Registry!ModelsTypeOK /\ Registry!CollectionsKeepToOneModel
        /\ Registry!BackupsFit /\ Registry!SyncTakesEffect
=============================================================================
