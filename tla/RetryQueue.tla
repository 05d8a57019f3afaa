----------------------------- MODULE RetryQueue -----------------------------
(***************************************************************************)
(* Posts that failed, queued for another try: crawl_post_retries, one      *)
(* runRetry goroutine per node, reclaims by start, shutdown and sweep, the *)
(* operator's resets, and the -limit budget a try has to draw from         *)
(* (internal/adapter/postgres/lease.go, nodes.go, ranges.go and            *)
(* internal/app/crawler.go).                                               *)
(*                                                                         *)
(* A lease is (post, attempts): unlike a range's, the fence does not ask   *)
(* for the node.  `stale` and `ready` are the clock comparisons, as in     *)
(* RangeLease.                                                             *)
(***************************************************************************)
EXTENDS Integers, FiniteSets

CONSTANTS
    Node,
    Posts,        \* post ids
    Floor,        \* backfill floor: older posts are not retried
    Batch,        \* RetryBatch
    MaxAttempts,
    Limit,        \* MaxImages of each process, 0 for none
    None

ASSUME RetryAssumption ==
    /\ Posts \subseteq Nat
    /\ Floor \in Nat
    /\ Batch \in Nat \ {0}
    /\ MaxAttempts \in Nat \ {0}
    /\ Limit \in Nat
    /\ None \notin Node

VARIABLES
    items,    \* post -> its row of crawl_post_retries
    up,       \* the nodes whose process runs
    leased,   \* node -> leases of the batch not yet tried
    trying,   \* node -> the lease being tried and how the try came out
    saved,    \* node -> Crawler.saved: images this run has reserved
    stopped,  \* nodes whose crawler context is cancelled (limit reached)
    stored    \* ghost: posts an ingest has accepted

vars == <<items, up, leased, trying, saved, stopped, stored>>

Status == {"none", "pending", "running", "succeeded"}
Item == [status: Status, attempts: 0..MaxAttempts, node: Node \cup {None},
         ready: BOOLEAN, stale: BOOLEAN]
NoItem == [status |-> "none", attempts |-> 0, node |-> None, ready |-> TRUE, stale |-> FALSE]
Lease == [post: Posts, token: 1..MaxAttempts]
Outcome == {"stored", "trimmed", "full", "failed"}

-----------------------------------------------------------------------------
(* EnqueueRetries: a crawl of post p failed. *)

Pended_Always(item) == [item EXCEPT !.status = "pending", !.ready = FALSE]

\* ON CONFLICT ... WHERE status <> 'succeeded'.  A running row goes back to
\* pending, its attempts and node stay.
Pended(item) ==
    IF item.status = "succeeded" THEN item
    ELSE [item EXCEPT !.status = "pending", !.ready = FALSE, !.stale = FALSE]

Enqueue(p) ==
    /\ items' = [items EXCEPT ![p] = Pended(@)]
    /\ UNCHANGED <<up, leased, trying, saved, stopped, stored>>

-----------------------------------------------------------------------------
(* runRetry: lease a batch, try its items one after the other. *)

Due_Expired(p) ==
    /\ items[p].attempts < MaxAttempts
    /\ p >= Floor
    /\ items[p].status = "pending" /\ items[p].ready

Due_NoLimit(p) ==
    /\ p >= Floor
    /\ \/ items[p].status = "pending" /\ items[p].ready
       \/ items[p].status = "running" /\ items[p].stale

Due(p) ==
    /\ items[p].attempts < MaxAttempts
    /\ p >= Floor
    /\ \/ items[p].status = "pending" /\ items[p].ready
       \/ items[p].status = "running" /\ items[p].stale

LeasedItem(item, n) ==
    [item EXCEPT !.status = "running", !.attempts = @ + 1, !.node = n, !.stale = FALSE]

\* LeaseRetries: up to Batch due items, the longest due first (any, here).
LeaseRetries(n) ==
    /\ n \in up \ stopped
    /\ leased[n] = {} /\ trying[n] = None
    /\ \E S \in SUBSET {p \in Posts : Due(p)} :
         /\ S # {}
         /\ \/ Cardinality(S) = Batch
            \/ Cardinality(S) < Batch /\ S = {p \in Posts : Due(p)}
         /\ items' = [p \in Posts |-> IF p \in S THEN LeasedItem(items[p], n) ELSE items[p]]
         /\ leased' = [leased EXCEPT ![n] =
                         {[post |-> p, token |-> LeasedItem(items[p], n).attempts] : p \in S}]
    /\ UNCHANGED <<up, trying, saved, stopped, stored>>

\* reserve(1): FALSE trims the only post of the try away.
HasRoom(n) == Limit = 0 \/ saved[n] < Limit

\* PostByID and index: the post is stored, refused by a full index, fails,
\* or is trimmed because other workers reserved the rest of the limit.
\* A try that fails may have reserved or not (PostByID comes first).
\* noteLimitReached cancels as soon as a try used the limit up.
TryAs(n, out) ==
    /\ n \in up
    /\ trying[n] = None
    /\ out = "trimmed" => ~HasRoom(n)
    /\ out \in {"stored", "full"} => HasRoom(n) /\ n \notin stopped
    /\ \E l \in leased[n] :
         /\ leased' = [leased EXCEPT ![n] = @ \ {l}]
         /\ trying' = [trying EXCEPT ![n] = [lease |-> l, out |-> out]]
         /\ stored' = IF out = "stored" THEN stored \cup {l.post} ELSE stored
    /\ \/ /\ Limit > 0 /\ out # "trimmed" /\ HasRoom(n) /\ n \notin stopped
          /\ saved' = [saved EXCEPT ![n] = @ + 1]
          /\ stopped' = IF saved'[n] >= Limit THEN stopped \cup {n} ELSE stopped
       \/ /\ Limit = 0 \/ out \in {"trimmed", "failed"}
          /\ UNCHANGED <<saved, stopped>>
    /\ UNCHANGED <<items, up>>

Try(n) == \E out \in Outcome : TryAs(n, out)

Fenced_ByPost(l) == items[l.post].status = "running"

\* WHERE id = $1 AND attempts = $2 AND status = 'running'
Fenced(l) == items[l.post].status = "running" /\ items[l.post].attempts = l.token

Succeeded(item) == [item EXCEPT !.status = "succeeded", !.node = None, !.stale = FALSE]

\* RescheduleRetry and ReleaseRetry; a release gives the attempt back.
Rescheduled(item) ==
    [item EXCEPT !.status = "pending", !.node = None, !.ready = FALSE, !.stale = FALSE]
Released(item) ==
    [item EXCEPT !.status = "pending", !.node = None, !.ready = TRUE, !.stale = FALSE,
                 !.attempts = IF @ > 0 THEN @ - 1 ELSE 0]

Settled_FailedToo(item, out) ==
    CASE out \in {"stored", "trimmed", "failed"} -> Succeeded(item)
      [] out = "full" -> Released(item)

\* retryOne's switch: whatever is neither an error nor a failure succeeds,
\* a trimmed try included.
Settled(item, out) ==
    CASE out \in {"stored", "trimmed"} -> Succeeded(item)
      [] out = "full" -> Released(item)
      [] out = "failed" -> Rescheduled(item)

\* The outcome is written under the token.  After a cancel only releases are.
Settle(n) ==
    /\ n \in up
    /\ trying[n] # None
    /\ n \in stopped => trying[n].out = "full"
    /\ LET l == trying[n].lease IN
         items' = IF Fenced(l) THEN [items EXCEPT ![l.post] = Settled(@, trying[n].out)]
                  ELSE items
    /\ trying' = [trying EXCEPT ![n] = None]
    /\ UNCHANGED <<up, leased, saved, stopped, stored>>

\* The statement fails or the context is done: logged, the row stays running.
Forget(n) ==
    /\ trying[n] # None
    /\ trying' = [trying EXCEPT ![n] = None]
    /\ UNCHANGED <<items, up, leased, saved, stopped, stored>>

\* Catch-up and backfill reserve from the same counter ...
OthersReserve(n) ==
    /\ n \in up \ stopped
    /\ \E k \in saved[n] + 1 .. Limit : saved' = [saved EXCEPT ![n] = k]
    /\ UNCHANGED <<items, up, leased, trying, stopped, stored>>

\* ... and the cancel comes when the batch that took the last one is done.
LimitReached(n) ==
    /\ n \in up \ stopped
    /\ Limit > 0 /\ saved[n] >= Limit
    /\ stopped' = stopped \cup {n}
    /\ UNCHANGED <<items, up, leased, trying, saved, stored>>

-----------------------------------------------------------------------------
(* Nodes and clocks. *)

Reclaimed(n) ==
    [p \in Posts |-> IF items[p].status = "running" /\ items[p].node = n
                     THEN [items[p] EXCEPT !.status = "pending", !.node = None, !.stale = FALSE]
                     ELSE items[p]]

Cleared(n) ==
    /\ leased' = [leased EXCEPT ![n] = {}]
    /\ trying' = [trying EXCEPT ![n] = None]
    /\ saved' = [saved EXCEPT ![n] = 0]
    /\ stopped' = stopped \ {n}

Start(n) ==
    /\ n \notin up
    /\ up' = up \cup {n}
    /\ items' = Reclaimed(n)
    /\ UNCHANGED <<leased, trying, saved, stopped, stored>>

Crash(n) ==
    /\ n \in up
    /\ up' = up \ {n}
    /\ Cleared(n)
    /\ UNCHANGED <<items, stored>>

Shutdown(n) ==
    /\ n \in up
    /\ up' = up \ {n}
    /\ items' = Reclaimed(n)
    /\ Cleared(n)
    /\ UNCHANGED stored

Sweep(n) ==
    /\ items' = Reclaimed(n)
    /\ items' # items
    /\ UNCHANGED <<up, leased, trying, saved, stopped, stored>>

Expire(p) ==
    /\ items[p].status = "running" /\ ~items[p].stale
    /\ items' = [items EXCEPT ![p] = [@ EXCEPT !.stale = TRUE]]
    /\ UNCHANGED <<up, leased, trying, saved, stopped, stored>>

DelayOver(p) ==
    /\ items[p].status = "pending" /\ ~items[p].ready
    /\ items' = [items EXCEPT ![p] = [@ EXCEPT !.ready = TRUE]]
    /\ UNCHANGED <<up, leased, trying, saved, stopped, stored>>

-----------------------------------------------------------------------------
(* The operator.  Nothing ever writes the status 'dead' these ask for. *)

\* ResetRetryQueue: WHERE status = 'dead' OR attempts >= maxAttempts
ResetRetryQueue ==
    /\ \E p \in Posts : items[p].attempts >= MaxAttempts
    /\ items' = [p \in Posts |->
                   IF items[p].attempts >= MaxAttempts
                   THEN [items[p] EXCEPT !.status = "pending", !.attempts = 0, !.node = None,
                                         !.ready = TRUE, !.stale = FALSE]
                   ELSE items[p]]
    /\ UNCHANGED <<up, leased, trying, saved, stopped, stored>>

\* RetryPendingQueue: pending rows are due at once, exhausted ones afresh.
RetryPendingQueue ==
    /\ \E p \in Posts : items[p].status = "pending"
    /\ items' = [p \in Posts |->
                   IF items[p].status = "pending"
                   THEN [items[p] EXCEPT !.ready = TRUE, !.node = None,
                                         !.attempts = IF @ >= MaxAttempts THEN 0 ELSE @]
                   ELSE items[p]]
    /\ UNCHANGED <<up, leased, trying, saved, stopped, stored>>

-----------------------------------------------------------------------------
Init ==
    /\ items = [p \in Posts |-> NoItem]
    /\ up = {}
    /\ leased = [n \in Node |-> {}]
    /\ trying = [n \in Node |-> None]
    /\ saved = [n \in Node |-> 0]
    /\ stopped = {}
    /\ stored = {}

RetryNext(n) == LeaseRetries(n) \/ Try(n) \/ Settle(n) \/ Forget(n)
NodeNext(n) == Start(n) \/ Crash(n) \/ Shutdown(n) \/ Sweep(n)
LimitNext(n) == OthersReserve(n) \/ LimitReached(n)
PostNext(p) == Enqueue(p) \/ Expire(p) \/ DelayOver(p)

Next == \/ \E n \in Node : RetryNext(n) \/ NodeNext(n) \/ LimitNext(n)
        \/ \E p \in Posts : PostNext(p)

Spec == Init /\ [][Next]_vars

\* Nodes that stay up, an index that never fills (a full one gives every
\* lease back for as long as it is full), posts that fail once in a crawl
\* whatever happens to them afterwards.  Tries end: each call has a timeout.
\* The operator may interfere at any time, or never.
FirstFailure(p) == items[p].status = "none" /\ Enqueue(p)

SteadyTry(n) == \E out \in {"stored", "failed"} : TryAs(n, out)

SteadyNext ==
    \/ \E n \in Node : LeaseRetries(n) \/ SteadyTry(n) \/ Settle(n) \/ Forget(n) \/ Start(n)
    \/ \E p \in Posts : FirstFailure(p) \/ Expire(p) \/ DelayOver(p)
    \/ ResetRetryQueue \/ RetryPendingQueue

SteadySpec ==
    /\ Init /\ [][SteadyNext]_vars
    /\ \A n \in Node : /\ WF_vars(LeaseRetries(n)) /\ WF_vars(Start(n))
                       /\ WF_vars(SteadyTry(n)) /\ WF_vars(Settle(n) \/ Forget(n))
    /\ \A p \in Posts : WF_vars(Expire(p)) /\ WF_vars(DelayOver(p))

-----------------------------------------------------------------------------
\* Types.  What could go wrong: attempts beyond MaxAttempts (LeaseRetries),
\* a counter beyond the limit (reserve), a stopped context of no process.
TypeOK ==
    /\ items \in [Posts -> Item]
    /\ up \subseteq Node
    /\ leased \in [Node -> SUBSET Lease]
    /\ trying \in [Node -> [lease: Lease, out: Outcome] \cup {None}]
    /\ saved \in [Node -> 0..Limit]
    /\ stopped \subseteq up
    /\ stored \subseteq Posts

Leases(n) == leased[n] \cup (IF trying[n] = None THEN {} ELSE {trying[n].lease})

\* The token alone keeps results apart: of all leases given out on a post at
\* most one is still accepted, though a batch's last items wait long past
\* their expiry and neither the node nor the worker is in the fence.
Exclusive ==
    \A m, n \in Node : \A k \in Leases(m), l \in Leases(n) :
        k.post = l.post /\ Fenced(k) /\ Fenced(l) => m = n /\ k = l

\* A retry is only closed when the post is in the index: the queue is the
\* last place that remembers a post whose range is already closed.
SucceededMeansStored ==
    \A p \in Posts : items[p].status = "succeeded" => p \in stored

\* A success is final: no late outcome of another lease, no reclaim and no
\* new failure of the same post puts it back into the queue.
SucceededForGood ==
    [][\A p \in Posts : items[p].status = "succeeded" => items'[p] = items[p]]_vars

\* Every queued post is in the end stored or out of attempts, even when the
\* node that leased it forgets it and though it waits behind a batch.
RetriesSettle ==
    \A p \in Posts :
        items[p].status = "pending" /\ p >= Floor
            ~> items[p].status = "succeeded" \/ items[p].attempts >= MaxAttempts
=============================================================================
