----------------------------- MODULE RangeLease -----------------------------
(***************************************************************************)
(* Backfill ranges leased from PostgreSQL by the crawlers of several nodes *)
(* (internal/adapter/postgres/lease.go, nodes.go, ranges.go; the workers   *)
(* of internal/app/crawler.go; Register and shutdown of fleet.go).         *)
(*                                                                         *)
(* The id space below the first bootstrap's latest post is handed out      *)
(* downwards: a worker first reuses a failed or expired row, otherwise     *)
(* carves a new one.  A lease is (row id, attempts, node): attempts is the *)
(* fencing token every later statement about the row is conditioned on.   *)
(* One action is one transaction; SKIP LOCKED makes concurrent             *)
(* acquisitions pick different rows, which is their serial order here.     *)
(*                                                                         *)
(* Clocks: `stale` is leased_at < now() - 30 minutes, `ready` is           *)
(* ready_at <= now().  Both flip at any moment.                            *)
(***************************************************************************)
EXTENDS Integers, FiniteSets

CONSTANTS
    Node, Worker,   \* nodes, and the backfill goroutines of all of them
    NodeOf,         \* the node a worker runs on
    Latest,         \* latest post id of the first bootstrap
    Floors,         \* the backfill floors a node may be configured with
    UniformFloors,  \* TRUE: nodes up at the same time have the same floor
    Sizes,          \* range sizes the throughput tuning may ask for
    MaxAttempts,    \* maxAttempts, 5 in the code
    MaxRows,        \* bound on the rows the model creates
    None

ASSUME ConstantsAssumption ==
    /\ NodeOf \in [Worker -> Node]
    /\ Latest \in Nat \ {0}
    /\ Floors \subseteq Nat \ {0}
    /\ UniformFloors \in BOOLEAN
    /\ Sizes \subseteq Nat \ {0}
    /\ MaxAttempts \in Nat \ {0}
    /\ MaxRows \in Nat \ {0}
    /\ None \notin Node

VARIABLES
    rows,     \* crawl_ranges, by id; unused ids hold NoRow
    nextRow,  \* the id sequence of crawl_ranges
    before,   \* crawl_states.backfill_before_id
    life,     \* node -> "down", "starting" (registered once) or "up"
    floor,    \* node -> backfill floor of its running process, 0 when down
    pc,       \* worker -> where its goroutine is
    lease,    \* worker -> the domain.CrawlRange it holds
    crawled   \* ghost: ids some worker downloaded and indexed to the end

vars == <<rows, nextRow, before, life, floor, pc, lease, crawled>>

RowId == 1..MaxRows
Status == {"none", "running", "failed", "completed", "empty"}
Closed == {"completed", "empty"}
Row == [lower: Nat, upper: Nat, status: Status, attempts: Nat,
        node: Node \cup {None}, ready: BOOLEAN, stale: BOOLEAN]
NoRow == [lower |-> 0, upper |-> 0, status |-> "none", attempts |-> 0,
          node |-> None, ready |-> TRUE, stale |-> FALSE]
Lease == [row: 0..MaxRows, token: Nat, lower: Nat, upper: Nat]
NoLease == [row |-> 0, token |-> 0, lower |-> 0, upper |-> 0]

Used == {r \in RowId : rows[r].status # "none"}
Open == {r \in RowId : rows[r].status \in {"running", "failed"}}
Ids(r) == rows[r].lower .. rows[r].upper
LeasedIds(w) == lease[w].lower .. lease[w].upper
FloorOf(w) == floor[NodeOf[w]]

\* The worker still thinks it has a range to process.
Holds(w) == pc[w] \in {"splitting", "working"}

-----------------------------------------------------------------------------
(* What the SQL statements are conditioned on. *)

Fenced_NoToken(w) ==
    LET r == rows[lease[w].row] IN
    /\ r.status = "running"
    /\ r.node = NodeOf[w]

Fenced_NoNode(w) ==
    LET r == rows[lease[w].row] IN
    /\ r.status = "running"
    /\ r.attempts = lease[w].token

\* WHERE id = $1 AND attempts = $2 AND node_id = $3 AND status = 'running'
Fenced(w) ==
    LET r == rows[lease[w].row] IN
    /\ r.status = "running"
    /\ r.attempts = lease[w].token
    /\ r.node = NodeOf[w]

Candidate_NotExpired(r, f) ==
    /\ rows[r].attempts < MaxAttempts
    /\ rows[r].upper >= f
    /\ rows[r].status = "failed" /\ rows[r].ready

\* The rows a node with floor f may take over.
Candidate(r, f) ==
    /\ rows[r].attempts < MaxAttempts
    /\ rows[r].upper >= f
    /\ \/ rows[r].status = "failed" /\ rows[r].ready
       \/ rows[r].status = "running" /\ rows[r].stale

\* ORDER BY attempts, id
Precedes(r, q) ==
    \/ rows[r].attempts < rows[q].attempts
    \/ rows[r].attempts = rows[q].attempts /\ r <= q

-----------------------------------------------------------------------------
(* AcquireBackfillRange: reuse, split at the floor, or carve. *)

Drop(w) ==
    /\ pc' = [pc EXCEPT ![w] = "idle"]
    /\ lease' = [lease EXCEPT ![w] = NoLease]

\* The UPDATE ... RETURNING of reuseRange: every lease is a new attempt.
Leased(row, n) ==
    [row EXCEPT !.status = "running", !.attempts = @ + 1, !.node = n, !.stale = FALSE]

\* reuseRange found a row.  One that reaches below the floor has to be
\* split, in a transaction of its own.
Reuse(w) ==
    /\ pc[w] = "idle"
    /\ life[NodeOf[w]] # "down"
    /\ \E r \in RowId :
         /\ Candidate(r, FloorOf(w))
         /\ \A q \in RowId : Candidate(q, FloorOf(w)) => Precedes(r, q)
         /\ rows' = [rows EXCEPT ![r] = Leased(rows[r], NodeOf[w])]
         /\ lease' = [lease EXCEPT ![w] = [row |-> r, token |-> rows[r].attempts + 1,
                                           lower |-> rows[r].lower, upper |-> rows[r].upper]]
         /\ pc' = [pc EXCEPT ![w] = IF rows[r].lower < FloorOf(w) THEN "splitting" ELSE "working"]
    /\ UNCHANGED <<nextRow, before, life, floor, crawled>>

\* reuseRange found nothing; carveRange is the next transaction.
NothingToReuse(w) ==
    /\ pc[w] = "idle"
    /\ life[NodeOf[w]] # "down"
    /\ \A r \in RowId : ~Candidate(r, FloorOf(w))
    /\ pc' = [pc EXCEPT ![w] = "carving"]
    /\ UNCHANGED <<rows, nextRow, before, life, floor, lease, crawled>>

FailedRow(lo, up) == [NoRow EXCEPT !.lower = lo, !.upper = up, !.status = "failed"]

BelowFloor_Inclusive(w) == FailedRow(lease[w].lower, FloorOf(w))

\* The part of a leased range below the floor, as the row that keeps it.
BelowFloor(w) == FailedRow(lease[w].lower, FloorOf(w) - 1)

SameBounds(r, q) == r.lower = q.lower /\ r.upper = q.upper
Kept(w) == \E q \in Used : SameBounds(rows[q], BelowFloor(w))

KeepBelow_Drops(w) == rows

\* INSERT ... ON CONFLICT DO NOTHING
KeepBelow(w) == IF Kept(w) THEN rows ELSE [rows EXCEPT ![nextRow] = BelowFloor(w)]

RaiseLower_Not(row, f) == row

RaiseLower(row, f) == [row EXCEPT !.lower = f]

StillRunning(r) == rows[r].status = "running"

\* splitAtFloor: keep the part below the floor as a failed row, raise the
\* leased row's lower bound.  The UPDATE asks only for status 'running'; no
\* match, or another row with the new bounds, rolls both back (Abandon).
Split(w) ==
    LET r == lease[w].row
        raised == RaiseLower(rows[r], FloorOf(w))
    IN
    /\ pc[w] = "splitting"
    /\ StillRunning(r)
    /\ \A q \in Used \ {r} : ~SameBounds(rows[q], raised)
    /\ Kept(w) \/ nextRow <= MaxRows
    /\ rows' = [KeepBelow(w) EXCEPT ![r] = raised]
    /\ nextRow' = IF Kept(w) THEN nextRow ELSE nextRow + 1
    /\ lease' = [lease EXCEPT ![w].lower = FloorOf(w)]
    /\ pc' = [pc EXCEPT ![w] = "working"]
    /\ UNCHANGED <<before, life, floor, crawled>>

\* The lower bound of the range carved below upper.
CarveLower_Unclamped(upper, size, f) == IF upper >= size THEN upper - size + 1 ELSE 0

CarveLower(upper, size, f) == IF upper - size + 1 < f THEN f ELSE upper - size + 1

\* carveRange, under the row lock on crawl_states: insert [lower, upper] as
\* a running row with attempts 1 and move backfill_before_id down to it.
\* Rows all start at or above backfill_before_id, so the statement's
\* ON CONFLICT arm has nothing to meet.
Carve(w) ==
    /\ pc[w] = "carving"
    /\ before - 1 >= FloorOf(w)
    /\ nextRow <= MaxRows
    /\ \E size \in Sizes :
         LET upper == before - 1
             lower == CarveLower(upper, size, FloorOf(w))
         IN
         /\ rows' = [rows EXCEPT ![nextRow] =
                       [NoRow EXCEPT !.lower = lower, !.upper = upper, !.status = "running",
                                     !.attempts = 1, !.node = NodeOf[w]]]
         /\ before' = lower
         /\ lease' = [lease EXCEPT ![w] = [row |-> nextRow, token |-> 1,
                                           lower |-> lower, upper |-> upper]]
    /\ nextRow' = nextRow + 1
    /\ pc' = [pc EXCEPT ![w] = "working"]
    /\ UNCHANGED <<life, floor, crawled>>

\* backfill_before_id has reached the floor: ErrNoWork, sleep, ask again.
NoWork(w) ==
    /\ pc[w] = "carving"
    /\ before - 1 < FloorOf(w)
    /\ Drop(w)
    /\ UNCHANGED <<rows, nextRow, before, life, floor, crawled>>

-----------------------------------------------------------------------------
(* processRange: the ways a lease ends. *)

Reported(row, s) ==
    [row EXCEPT !.status = s, !.node = None, !.ready = (s # "failed"), !.stale = FALSE]

GivenBack(row) ==
    [row EXCEPT !.status = "failed", !.attempts = IF @ > 0 THEN @ - 1 ELSE 0,
                !.node = None, !.ready = TRUE, !.stale = FALSE]

\* The row of w's lease becomes new, provided w's fence holds.
WhenFenced(w, new) ==
    IF Fenced(w) THEN [rows EXCEPT ![lease[w].row] = new] ELSE rows

\* finish -> FinishRange: the outcome is written only under the lease's
\* token; a range reclaimed meanwhile drops the result.  Completed and empty
\* mean that every id of the leased interval was dealt with.
Finish(w, s) ==
    /\ pc[w] = "working"
    /\ rows' = WhenFenced(w, Reported(rows[lease[w].row], s))
    /\ crawled' = IF s \in Closed THEN crawled \cup LeasedIds(w) ELSE crawled
    /\ Drop(w)
    /\ UNCHANGED <<nextRow, before, life, floor>>

\* releaseRange: give the row back together with its attempt.  After a full
\* index the worker first rests for fullBackoff, its renewal goroutine alive.
Release(w, next) ==
    /\ pc[w] = "working"
    /\ rows' = WhenFenced(w, GivenBack(rows[lease[w].row]))
    /\ pc' = [pc EXCEPT ![w] = next]
    /\ lease' = [lease EXCEPT ![w] = IF next = "idle" THEN NoLease ELSE @]
    /\ UNCHANGED <<nextRow, before, life, floor, crawled>>

Wake(w) ==
    /\ pc[w] = "resting"
    /\ Drop(w)
    /\ UNCHANGED <<rows, nextRow, before, life, floor, crawled>>

\* renewWhileWorking: leased_at = now() under the same condition; a conflict
\* ends the renewals, not the work.
Renew(w) ==
    /\ pc[w] \in {"working", "resting"}
    /\ Fenced(w)
    /\ rows[lease[w].row].stale
    /\ rows' = [rows EXCEPT ![lease[w].row] = [@ EXCEPT !.stale = FALSE]]
    /\ UNCHANGED <<nextRow, before, life, floor, pc, lease, crawled>>

\* The worker lets go without a word to the database: the split's conflict,
\* a failed statement (logged only), or finish with its context done.
Abandon(w) ==
    /\ pc[w] # "idle"
    /\ Drop(w)
    /\ UNCHANGED <<rows, nextRow, before, life, floor, crawled>>

-----------------------------------------------------------------------------
(* Nodes: start, the second registration, crash, orderly stop, sweep. *)

TakenBack(row) == [row EXCEPT !.status = "failed", !.node = None, !.stale = FALSE]

Reclaimed_AnyStatus(n) ==
    [r \in RowId |-> IF rows[r].status \in Closed \/ rows[r].node = n
                     THEN TakenBack(rows[r]) ELSE rows[r]]

\* reclaim: running rows of the node become failed.  Neither attempts nor
\* ready_at is touched.
Reclaimed(n) ==
    [r \in RowId |-> IF rows[r].status = "running" /\ rows[r].node = n
                     THEN TakenBack(rows[r]) ELSE rows[r]]

StopWorkers(n) ==
    /\ pc' = [w \in Worker |-> IF NodeOf[w] = n THEN "idle" ELSE pc[w]]
    /\ lease' = [w \in Worker |-> IF NodeOf[w] = n THEN NoLease ELSE lease[w]]

\* The process starts: cmdControl/cmdWorker call Register before anything runs.
Start(n) ==
    /\ life[n] = "down"
    /\ \E f \in Floors :
         /\ UniformFloors => \A m \in Node : life[m] # "down" => floor[m] = f
         /\ floor' = [floor EXCEPT ![n] = f]
    /\ life' = [life EXCEPT ![n] = "starting"]
    /\ rows' = Reclaimed(n)
    /\ UNCHANGED <<nextRow, before, pc, lease, crawled>>

\* Fleet.Run registers once more, beside a crawler that already runs.
Reregister(n) ==
    /\ life[n] = "starting"
    /\ life' = [life EXCEPT ![n] = "up"]
    /\ rows' = Reclaimed(n)
    /\ UNCHANGED <<nextRow, before, floor, pc, lease, crawled>>

Crash(n) ==
    /\ life[n] # "down"
    /\ life' = [life EXCEPT ![n] = "down"]
    /\ floor' = [floor EXCEPT ![n] = 0]
    /\ StopWorkers(n)
    /\ UNCHANGED <<rows, nextRow, before, crawled>>

\* Fleet.shutdown, after the workers let go (Release and Abandon are theirs).
Shutdown(n) ==
    /\ life[n] # "down"
    /\ life' = [life EXCEPT ![n] = "down"]
    /\ floor' = [floor EXCEPT ![n] = 0]
    /\ rows' = Reclaimed(n)
    /\ StopWorkers(n)
    /\ UNCHANGED <<nextRow, before, crawled>>

\* The control node's sweep.  A node counts as dead when its heartbeats are
\* late, whether it still works or not.
Sweep(n) ==
    /\ rows' = Reclaimed(n)
    /\ rows' # rows
    /\ UNCHANGED <<nextRow, before, life, floor, pc, lease, crawled>>

Expire(r) ==
    /\ rows[r].status = "running" /\ ~rows[r].stale
    /\ rows' = [rows EXCEPT ![r] = [@ EXCEPT !.stale = TRUE]]
    /\ UNCHANGED <<nextRow, before, life, floor, pc, lease, crawled>>

BackoffOver(r) ==
    /\ rows[r].status = "failed" /\ ~rows[r].ready
    /\ rows' = [rows EXCEPT ![r] = [@ EXCEPT !.ready = TRUE]]
    /\ UNCHANGED <<nextRow, before, life, floor, pc, lease, crawled>>

-----------------------------------------------------------------------------
(* The operator's commands (saucedust ranges, the console). *)

\* ResetRange: one row, whatever its status.
ResetRange(r) ==
    /\ rows[r].status # "none"
    /\ rows' = [rows EXCEPT ![r] = [TakenBack(rows[r]) EXCEPT !.attempts = 0]]
    /\ UNCHANGED <<nextRow, before, life, floor, pc, lease, crawled>>

ResetExhaustedRanges ==
    /\ \E r \in RowId : rows[r].status = "failed" /\ rows[r].attempts >= MaxAttempts
    /\ rows' = [r \in RowId |->
                  IF rows[r].status = "failed" /\ rows[r].attempts >= MaxAttempts
                  THEN [rows[r] EXCEPT !.attempts = 0] ELSE rows[r]]
    /\ UNCHANGED <<nextRow, before, life, floor, pc, lease, crawled>>

RetryFailedRanges ==
    /\ \E r \in RowId : rows[r].status = "failed"
    /\ rows' = [r \in RowId |->
                  IF rows[r].status = "failed"
                  THEN [rows[r] EXCEPT !.attempts = 0, !.ready = TRUE] ELSE rows[r]]
    /\ UNCHANGED <<nextRow, before, life, floor, pc, lease, crawled>>

-----------------------------------------------------------------------------
Init ==
    /\ rows = [r \in RowId |-> NoRow]
    /\ nextRow = 1
    /\ before = Latest
    /\ life = [n \in Node |-> "down"]
    /\ floor = [n \in Node |-> 0]
    /\ pc = [w \in Worker |-> "idle"]
    /\ lease = [w \in Worker |-> NoLease]
    /\ crawled = {}

Acquire(w) == Reuse(w) \/ NothingToReuse(w) \/ Split(w) \/ Carve(w) \/ NoWork(w)
Report(w) == \/ \E s \in Closed \cup {"failed"} : Finish(w, s)
             \/ Wake(w)
GiveBack(w) == \E next \in {"idle", "resting"} : Release(w, next)

WorkerNext(w) == Acquire(w) \/ Report(w) \/ GiveBack(w) \/ Renew(w) \/ Abandon(w)
NodeNext(n) == Start(n) \/ Reregister(n) \/ Crash(n) \/ Shutdown(n) \/ Sweep(n)
ClockNext == \E r \in RowId : Expire(r) \/ BackoffOver(r)
OperatorNext == \/ \E r \in RowId : ResetRange(r)
                \/ ResetExhaustedRanges
                \/ RetryFailedRanges

Next == \/ \E w \in Worker : WorkerNext(w)
        \/ \E n \in Node : NodeNext(n)
        \/ ClockNext

Spec == Init /\ [][Next]_vars

\* With an operator at the console.
OperatedSpec == Init /\ [][Next \/ OperatorNext]_vars

\* A fleet that stays up, whose clocks and workers move.  Work on a range
\* ends (every call has a timeout); it may also end in a logged error.
SteadyNext ==
    \/ \E w \in Worker : Acquire(w) \/ Report(w) \/ Renew(w) \/ Abandon(w)
    \/ \E n \in Node : Start(n) \/ Reregister(n)
    \/ ClockNext

SteadySpec ==
    /\ Init /\ [][SteadyNext]_vars
    /\ \A w \in Worker : WF_vars(Acquire(w)) /\ WF_vars(Report(w) \/ Abandon(w))
    /\ \A n \in Node : WF_vars(Start(n) \/ Reregister(n))
    /\ \A r \in RowId : WF_vars(Expire(r)) /\ WF_vars(BackoffOver(r))

-----------------------------------------------------------------------------
\* Types.  What could go wrong: a row or a lease outside 1 .. Latest - 1
\* (carveRange's clamp at the floor, splitAtFloor's new bounds).
TypeOK ==
    /\ rows \in [RowId -> Row]
    /\ nextRow \in 1..MaxRows + 1
    /\ before \in 1..Latest
    /\ life \in [Node -> {"down", "starting", "up"}]
    /\ floor \in [Node -> Floors \cup {0}]
    /\ pc \in [Worker -> {"idle", "carving", "splitting", "working", "resting"}]
    /\ lease \in [Worker -> Lease]
    /\ crawled \in SUBSET (1..Latest - 1)

\* At most one worker's report on a row can be accepted, however often the
\* row was reclaimed, released and leased again (the fencing of FinishRange,
\* ReleaseRange and RenewRange).
Exclusive ==
    \A v, w \in Worker :
        v # w /\ Holds(v) /\ Holds(w) /\ lease[v].row = lease[w].row
            => ~(Fenced(v) /\ Fenced(w))

\* With operators resetting attempts to 0 tokens repeat; the node id in the
\* fence still keeps two nodes from both being accepted.
NodeExclusive ==
    \A v, w \in Worker :
        NodeOf[v] # NodeOf[w] /\ Holds(v) /\ Holds(w) /\ lease[v].row = lease[w].row
            => ~(Fenced(v) /\ Fenced(w))

\* Every id the frontier has passed was crawled or is still in a row some
\* worker can be given: no crash, reclaim, split or stale report loses ids.
NoLostIds ==
    \A i \in before .. Latest - 1 :
        i \in crawled \/ \E r \in Open : i \in Ids(r)

\* A row is only closed over ids somebody crawled: what the coverage report
\* and the operator read from the table is what happened.  (Nodes of one
\* floor: with different floors a late split can widen another's row.)
ClosedMeansCrawled ==
    \A r \in RowId : rows[r].status \in Closed => Ids(r) \subseteq crawled

\* Ranges never overlap, so no id is fetched by two rows' leases.
RowsDisjoint ==
    \A r, q \in Used : r # q => Ids(r) \cap Ids(q) = {}

\* What the table says of the ids is true: none is lost, none is in two rows,
\* and none is in a closed row that nobody crawled.
IdsAreAccountedFor == NoLostIds /\ RowsDisjoint /\ ClosedMeansCrawled

\* Without an operator a closed row is never reopened, shrunk or reassigned,
\* in particular not by a late report, reclaim or split.
ClosedForGood ==
    [][\A r \in RowId : rows[r].status \in Closed => rows'[r] = rows[r]]_vars

\* A row no attempt is left for, and no worker works on.
OutOfAttempts(r) ==
    /\ rows[r].attempts >= MaxAttempts
    /\ \A w \in Worker : ~(Holds(w) /\ lease[w].row = r /\ Fenced(w))

AboveFloor(r) == \E n \in Node : life[n] # "down" /\ rows[r].upper >= floor[n]

\* In a fleet that stays up, every open range above the floor ends up closed
\* or out of attempts: nothing is stuck behind a lease, a backoff or a split.
RangesSettle ==
    \A r \in RowId :
        r \in Open /\ AboveFloor(r)
            ~> r \notin Open \/ ~AboveFloor(r) \/ OutOfAttempts(r)

-----------------------------------------------------------------------------
Owed == UNION {Ids(r) : r \in Open}
Ledger == INSTANCE CrawlLedger WITH frontier <- before, owed <- Owed, done <- crawled

\* What the table promises its readers: leases, splits, reclaims and late
\* reports come down to handing out ids once and owing them until crawled.
KeepsLedger == Ledger!Spec
=============================================================================
