-------------------------- MODULE RetryQueueProofs --------------------------
(***************************************************************************)
(* Proofs about RetryQueue, for any nodes, posts, batches, attempts and    *)
(* limits.                                                                 *)
(*                                                                         *)
(* The fence of FinishRetry compares the lease's token with the row's      *)
(* attempts, which EnqueueRetries leaves alone and ReleaseRetry lowers.    *)
(* What carries Exclusive is that no lease is ahead of its row and that no *)
(* two leases on a post have one token; within one node, that the lease    *)
(* being tried has left the batch.                                         *)
(***************************************************************************)
EXTENDS RetryQueue, TLAPS

-----------------------------------------------------------------------------
(* What the statements do to a row. *)

\* NoItem is an item no lease was given out on.
LEMMA NoItemType == NoItem \in Item /\ NoItem.attempts = 0 /\ NoItem.status = "none"
  BY RetryAssumption DEF NoItem, Item, Status

\* Queueing a post again keeps its attempts, and a success.
LEMMA PendedItem ==
  ASSUME NEW item \in Item
  PROVE  /\ Pended(item) \in Item
         /\ Pended(item).attempts = item.attempts
         /\ item.status = "succeeded" => Pended(item) = item
         /\ Pended(item).status = "succeeded" => item.status = "succeeded"
  BY DEF Pended, Item, Status

\* Leasing gives the next token.
LEMMA LeasedItemFacts ==
  ASSUME NEW item \in Item, NEW n \in Node, item.attempts < MaxAttempts
  PROVE  /\ LeasedItem(item, n) \in Item
         /\ LeasedItem(item, n).attempts = item.attempts + 1
         /\ item.attempts + 1 \in 1..MaxAttempts
         /\ LeasedItem(item, n).status = "running"
<1> DEFINE k == item.attempts + 1
<1>1. k \in 1..MaxAttempts /\ k \in 0..MaxAttempts
  BY RetryAssumption DEF Item
<1>2. LeasedItem(item, n) = [item EXCEPT !.status = "running", !.attempts = k, !.node = n,
                                         !.stale = FALSE]
  BY Zenon DEF LeasedItem
<1> HIDE DEF k
<1>3. /\ LeasedItem(item, n) \in Item
      /\ LeasedItem(item, n).attempts = k
      /\ LeasedItem(item, n).status = "running"
  BY <1>1, <1>2 DEF Item, Status
<1> QED
  BY <1>1, <1>3 DEF k

\* An outcome keeps the attempts, but for a release, which lowers them.
LEMMA SettledItem ==
  ASSUME NEW item \in Item, NEW out \in Outcome
  PROVE  /\ Settled(item, out) \in Item
         /\ Settled(item, out).attempts
              = IF out = "full" /\ item.attempts > 0 THEN item.attempts - 1 ELSE item.attempts
         /\ Settled(item, out).status = "succeeded" <=> out \in {"stored", "trimmed"}
<1> DEFINE k == IF item.attempts > 0 THEN item.attempts - 1 ELSE 0
<1>1. k \in 0..MaxAttempts /\ (item.attempts > 0 \/ k = item.attempts)
  BY RetryAssumption DEF Item
<1>2. CASE out \in {"stored", "trimmed"}
  BY <1>2 DEF Settled, Succeeded, Item, Status
<1>3. CASE out = "failed"
  BY <1>3 DEF Settled, Rescheduled, Item, Status
<1>4. CASE out = "full"
  <2>1. Settled(item, out) = [item EXCEPT !.status = "pending", !.node = None, !.ready = TRUE,
                                          !.stale = FALSE, !.attempts = k]
    BY <1>4, Zenon DEF Settled, Released
  <2> HIDE DEF k
  <2>2. /\ Settled(item, out) \in Item
        /\ Settled(item, out).attempts = k
        /\ Settled(item, out).status = "pending"
    BY <1>1, <2>1 DEF Item, Status
  <2> QED
    BY <1>1, <1>4, <2>2 DEF k
<1> QED
  BY <1>2, <1>3, <1>4 DEF Outcome

\* A reclaimed row, and a row whose clock flag moves, keep their attempts.
LEMMA FlaggedItem ==
  ASSUME NEW item \in Item, NEW b \in BOOLEAN,
         NEW new \in {[item EXCEPT !.stale = b], [item EXCEPT !.ready = b],
                      [item EXCEPT !.status = "pending", !.node = None, !.stale = FALSE]}
  PROVE  /\ new \in Item
         /\ new.attempts = item.attempts
         /\ new.status = "succeeded" => item.status = "succeeded"
  BY DEF Item, Status

LEMMA ReclaimedItems ==
  ASSUME TypeOK, NEW n \in Node
  PROVE  /\ Reclaimed(n) \in [Posts -> Item]
         /\ \A p \in Posts : /\ Reclaimed(n)[p].attempts = items[p].attempts
                             /\ items[p].status = "succeeded" => Reclaimed(n)[p] = items[p]
                             /\ Reclaimed(n)[p].status = "succeeded" => items[p].status = "succeeded"
<1>1. ASSUME NEW p \in Posts
      PROVE  /\ Reclaimed(n)[p] \in Item
             /\ Reclaimed(n)[p].attempts = items[p].attempts
             /\ items[p].status = "succeeded" => Reclaimed(n)[p] = items[p]
             /\ Reclaimed(n)[p].status = "succeeded" => items[p].status = "succeeded"
  <2>1. items[p] \in Item
    BY DEF TypeOK
  <2>2. CASE items[p].status = "running" /\ items[p].node = n
    <3>1. Reclaimed(n)[p] = [items[p] EXCEPT !.status = "pending", !.node = None, !.stale = FALSE]
      BY <2>2 DEF Reclaimed
    <3> QED
      BY <2>1, <2>2, <3>1, FlaggedItem
  <2>3. CASE ~(items[p].status = "running" /\ items[p].node = n)
    BY <2>1, <2>3 DEF Reclaimed
  <2> QED
    BY <2>2, <2>3
<1>2. Reclaimed(n) = [p \in Posts |-> Reclaimed(n)[p]]
  BY DEF Reclaimed
<1> QED
  BY <1>1, <1>2

-----------------------------------------------------------------------------
(* Types, which an operator's resets keep too. *)

QueueNext == Next \/ ResetRetryQueue \/ RetryPendingQueue

OperatedSpec == Init /\ [][QueueNext]_vars

\* EnqueueRetries, and the clock.
LEMMA PostItems ==
  ASSUME TypeOK, NEW p \in Posts, PostNext(p)
  PROVE  /\ items' \in [Posts -> Item]
         /\ \A q \in Posts : items'[q].attempts = items[q].attempts
         /\ \A q \in Posts : items[q].status = "succeeded" => items'[q] = items[q]
         /\ \A q \in Posts : items'[q].status = "succeeded" => items[q].status = "succeeded"
<1>1. PICK new \in Item : /\ new.attempts = items[p].attempts
                          /\ items[p].status = "succeeded" => new = items[p]
                          /\ new.status = "succeeded" => items[p].status = "succeeded"
                          /\ items' = [items EXCEPT ![p] = new]
  <2>1. items[p] \in Item
    BY DEF TypeOK
  <2>2. CASE Enqueue(p)
    BY <2>1, <2>2, PendedItem DEF Enqueue
  <2>3. CASE Expire(p)
    <3>1. items' = [items EXCEPT ![p] = [items[p] EXCEPT !.stale = TRUE]]
          /\ items[p].status # "succeeded"
      BY <2>3 DEF Expire
    <3> QED
      BY <2>1, <3>1, FlaggedItem
  <2>4. CASE DelayOver(p)
    <3>1. items' = [items EXCEPT ![p] = [items[p] EXCEPT !.ready = TRUE]]
          /\ items[p].status # "succeeded"
      BY <2>4 DEF DelayOver
    <3> QED
      BY <2>1, <3>1, FlaggedItem
  <2> QED
    BY <2>2, <2>3, <2>4 DEF PostNext
<1> QED
  BY <1>1 DEF TypeOK

\* An outcome is written under the token, or not at all.
LEMMA SettledItems ==
  ASSUME TypeOK, NEW n \in Node, Settle(n)
  PROVE  LET l == trying[n].lease
             out == trying[n].out
         IN
         /\ l \in Lease /\ out \in Outcome
         /\ items' \in [Posts -> Item]
         /\ \A p \in Posts \ {l.post} : items'[p] = items[p]
         /\ \/ items' = items
            \/ /\ Fenced(l)
               /\ items'[l.post] = Settled(items[l.post], out)
<1> DEFINE l == trying[n].lease
           out == trying[n].out
<1>1. l \in Lease /\ out \in Outcome /\ l.post \in Posts /\ items[l.post] \in Item
  BY DEF Settle, TypeOK, Lease
<1>2. CASE Fenced(l)
  <2>1. items' = [items EXCEPT ![l.post] = Settled(items[l.post], out)]
    BY <1>2 DEF Settle
  <2> QED
    BY <1>1, <1>2, <2>1, SettledItem DEF TypeOK
<1>3. CASE ~Fenced(l)
  BY <1>1, <1>3 DEF Settle, TypeOK
<1> QED
  BY <1>2, <1>3

\* LeaseRetries: each new token is above all that were given out on its post.
LEMMA NewLeases ==
  ASSUME TypeOK, NEW n \in Node, LeaseRetries(n)
  PROVE  \E S \in SUBSET Posts :
           /\ items' \in [Posts -> Item]
           /\ \A p \in S : /\ items[p].status # "succeeded" /\ items'[p].status = "running"
                           /\ items'[p].attempts = items[p].attempts + 1
           /\ \A p \in Posts \ S : items'[p] = items[p]
           /\ leased' \in [Node -> SUBSET Lease]
           /\ \A l \in leased'[n] : l.post \in S /\ l.token = items[l.post].attempts + 1
           /\ \A m \in Node \ {n} : leased'[m] = leased[m]
<1>1. PICK S \in SUBSET {p \in Posts : Due(p)} :
        /\ items' = [p \in Posts |-> IF p \in S THEN LeasedItem(items[p], n) ELSE items[p]]
        /\ leased' = [leased EXCEPT ![n] =
                        {[post |-> p, token |-> LeasedItem(items[p], n).attempts] : p \in S}]
  BY DEF LeaseRetries
<1> DEFINE new == {[post |-> p, token |-> LeasedItem(items[p], n).attempts] : p \in S}
<1>2. S \subseteq Posts /\ \A p \in S : items[p].attempts < MaxAttempts /\ items[p].status # "succeeded"
  BY DEF Due
<1>3. \A p \in Posts : items[p] \in Item
  BY DEF TypeOK
<1>4. \A p \in S : /\ LeasedItem(items[p], n) \in Item
                   /\ LeasedItem(items[p], n).attempts = items[p].attempts + 1
                   /\ items[p].attempts + 1 \in 1..MaxAttempts
                   /\ LeasedItem(items[p], n).status = "running"
  BY <1>2, <1>3, LeasedItemFacts
<1>5. new \subseteq Lease /\ \A l \in new : l.post \in S /\ l.token = items[l.post].attempts + 1
  BY <1>2, <1>4 DEF Lease
<1>6. items' \in [Posts -> Item]
  BY <1>1, <1>3, <1>4
<1>7. \A p \in S : items'[p].attempts = items[p].attempts + 1 /\ items'[p].status = "running"
  BY <1>1, <1>2, <1>4
<1>8. \A p \in Posts \ S : items'[p] = items[p]
  BY <1>1
<1> HIDE DEF new
<1>9. leased' = [leased EXCEPT ![n] = new]
  BY <1>1 DEF new
<1>10. /\ leased' \in [Node -> SUBSET Lease] /\ leased'[n] = new
       /\ \A m \in Node \ {n} : leased'[m] = leased[m]
  BY <1>5, <1>9 DEF TypeOK
<1>11. S \in SUBSET Posts
  BY <1>2
<1> QED
  BY <1>2, <1>5, <1>6, <1>7, <1>8, <1>10, <1>11

\* A try takes a lease out of the batch and never reserves beyond the limit.
LEMMA TryType ==
  ASSUME TypeOK, NEW n \in Node, NEW out \in Outcome, TryAs(n, out)
  PROVE  TypeOK'
<1>1. PICK l \in leased[n] :
         /\ leased' = [leased EXCEPT ![n] = @ \ {l}]
         /\ trying' = [trying EXCEPT ![n] = [lease |-> l, out |-> out]]
         /\ stored' = IF out = "stored" THEN stored \cup {l.post} ELSE stored
  BY DEF TryAs
<1>2. n \in up /\ UNCHANGED <<items, up>>
  BY DEF TryAs
<1>3. l \in Lease /\ l.post \in Posts
  BY <1>1 DEF TypeOK, Lease
<1>4. saved' \in [Node -> 0..Limit] /\ stopped' \subseteq up
  <2>1. CASE UNCHANGED <<saved, stopped>>
    BY <2>1 DEF TypeOK
  <2>2. CASE /\ Limit > 0 /\ HasRoom(n)
             /\ saved' = [saved EXCEPT ![n] = @ + 1]
             /\ stopped' = IF saved'[n] >= Limit THEN stopped \cup {n} ELSE stopped
    <3>1. saved[n] + 1 \in 0..Limit
      BY <2>2, RetryAssumption DEF HasRoom, TypeOK
    <3> QED
      BY <1>2, <2>2, <3>1 DEF TypeOK
  <2> QED
    BY <2>1, <2>2 DEF TryAs
<1>5. trying' \in [Node -> [lease: Lease, out: Outcome] \cup {None}]
  BY <1>1, <1>3 DEF TypeOK
<1> QED
  BY <1>1, <1>2, <1>3, <1>4, <1>5 DEF TypeOK

LEMMA LimitType ==
  ASSUME TypeOK, NEW n \in Node, LimitNext(n)
  PROVE  TypeOK'
<1>1. CASE OthersReserve(n)
  <2>1. PICK k \in saved[n] + 1 .. Limit : saved' = [saved EXCEPT ![n] = k]
    BY <1>1 DEF OthersReserve
  <2>2. k \in 0..Limit
    BY RetryAssumption DEF TypeOK
  <2> QED
    BY <1>1, <2>1, <2>2 DEF OthersReserve, TypeOK
<1>2. CASE LimitReached(n)
  BY <1>2 DEF LimitReached, TypeOK
<1> QED
  BY <1>1, <1>2 DEF LimitNext

LEMMA NodeType ==
  ASSUME TypeOK, NEW n \in Node, NodeNext(n)
  PROVE  TypeOK'
<1>1. items' \in [Posts -> Item]
  BY ReclaimedItems DEF NodeNext, Start, Crash, Shutdown, Sweep, TypeOK
<1>2. CASE Start(n) \/ Sweep(n)
  BY <1>1, <1>2 DEF Start, Sweep, TypeOK
<1>3. CASE Crash(n) \/ Shutdown(n)
  <2>1. Cleared(n) /\ up' = up \ {n} /\ UNCHANGED stored
    BY <1>3 DEF Crash, Shutdown
  <2>2. 0 \in 0..Limit
    BY RetryAssumption
  <2> QED
    BY <1>1, <2>1, <2>2 DEF Cleared, TypeOK
<1> QED
  BY <1>2, <1>3 DEF NodeNext

\* The operator's resets set attempts to 0 at most.
LEMMA OperatorItems ==
  ASSUME TypeOK, ResetRetryQueue \/ RetryPendingQueue
  PROVE  /\ items' \in [Posts -> Item]
         /\ \A p \in Posts : items'[p].status = "succeeded" => items[p].status = "succeeded"
         /\ UNCHANGED <<up, leased, trying, saved, stopped, stored>>
<1>1. CASE ResetRetryQueue
  <2>1. \A p \in Posts : items[p] \in Item
    BY DEF TypeOK
  <2>2. ASSUME NEW item \in Item
        PROVE  LET new == [item EXCEPT !.status = "pending", !.attempts = 0, !.node = None,
                                       !.ready = TRUE, !.stale = FALSE]
               IN  new \in Item /\ new.status = "pending"
    <3>1. 0 \in 0..MaxAttempts
      BY RetryAssumption
    <3> QED
      BY <3>1 DEF Item, Status
  <2> QED
    BY <1>1, <2>1, <2>2 DEF ResetRetryQueue
<1>2. CASE RetryPendingQueue
  <2>1. \A p \in Posts : items[p] \in Item
    BY DEF TypeOK
  <2>2. ASSUME NEW item \in Item
        PROVE  LET new == [item EXCEPT !.ready = TRUE, !.node = None,
                                       !.attempts = IF @ >= MaxAttempts THEN 0 ELSE @]
               IN  new \in Item /\ new.status = item.status
    <3> DEFINE k == IF item.attempts >= MaxAttempts THEN 0 ELSE item.attempts
    <3>1. k \in 0..MaxAttempts
      BY RetryAssumption DEF Item
    <3>2. [item EXCEPT !.ready = TRUE, !.node = None,
                       !.attempts = IF @ >= MaxAttempts THEN 0 ELSE @]
            = [item EXCEPT !.ready = TRUE, !.node = None, !.attempts = k]
      BY Zenon
    <3> HIDE DEF k
    <3>3. /\ [item EXCEPT !.ready = TRUE, !.node = None, !.attempts = k] \in Item
          /\ [item EXCEPT !.ready = TRUE, !.node = None, !.attempts = k].status = item.status
      BY <3>1 DEF Item
    <3> QED
      BY <3>2, <3>3, Zenon
  <2> QED
    BY <1>2, <2>1, <2>2 DEF RetryPendingQueue
<1>3. UNCHANGED <<up, leased, trying, saved, stopped, stored>>
  BY DEF ResetRetryQueue, RetryPendingQueue
<1> QED
  BY <1>1, <1>2, <1>3

LEMMA TypeStep ==
  ASSUME TypeOK, [QueueNext]_vars
  PROVE  TypeOK'
<1>1. ASSUME NEW n \in Node, RetryNext(n)
      PROVE  TypeOK'
  <2>1. CASE LeaseRetries(n)
    BY <2>1, NewLeases DEF LeaseRetries, TypeOK
  <2>2. CASE Try(n)
    BY <2>2, TryType DEF Try
  <2>3. CASE Settle(n)
    BY <2>3, SettledItems DEF Settle, TypeOK
  <2>4. CASE Forget(n)
    BY <2>4 DEF Forget, TypeOK
  <2> QED
    BY <1>1, <2>1, <2>2, <2>3, <2>4 DEF RetryNext
<1>2. ASSUME NEW p \in Posts, PostNext(p)
      PROVE  TypeOK'
  BY <1>2, PostItems DEF PostNext, Enqueue, Expire, DelayOver, TypeOK
<1>3. CASE ResetRetryQueue \/ RetryPendingQueue
  BY <1>3, OperatorItems DEF TypeOK
<1>4. CASE UNCHANGED vars
  BY <1>4 DEF vars, TypeOK
<1> QED
  BY <1>1, <1>2, <1>3, <1>4, NodeType, LimitType DEF QueueNext, Next

LEMMA InitTypeOK == Init => TypeOK
  BY NoItemType, RetryAssumption DEF Init, TypeOK

-----------------------------------------------------------------------------
(* The fence.  Most steps give out no lease and lower no attempts. *)

\* No lease is ahead of the attempts of its row.
NoLeaseAhead ==
    \A n \in Node : \A l \in Leases(n) : l.token <= items[l.post].attempts

\* A token on a post was given out once.
TokensOnce ==
    \A m, n \in Node : \A k \in Leases(m), l \in Leases(n) :
        k.post = l.post /\ k.token = l.token => m = n

\* The lease being tried is no longer in the batch.
TriedLeftBatch ==
    \A n \in Node : trying[n] # None => trying[n].lease \notin leased[n]

IInv == TypeOK /\ NoLeaseAhead /\ TokensOnce /\ TriedLeftBatch

\* A step that raises no token and gives out no lease keeps the fence.
LEMMA CalmStepKeepsIInv ==
  ASSUME IInv, TypeOK',
         \A p \in Posts : items'[p].attempts = items[p].attempts,
         \A n \in Node : Leases(n)' \subseteq Leases(n),
         TriedLeftBatch'
  PROVE  IInv'
<1>1. \A n \in Node : \A l \in Leases(n) : l.post \in Posts
  BY DEF IInv, TypeOK, Leases, Lease
<1>2. NoLeaseAhead'
  BY <1>1 DEF IInv, NoLeaseAhead
<1>3. TokensOnce'
  BY DEF IInv, TokensOnce
<1> QED
  BY <1>2, <1>3 DEF IInv

\* In particular one that moves no lease.
LEMMA LeasesStay ==
  ASSUME IInv, TypeOK', UNCHANGED <<leased, trying>>,
         \A p \in Posts : items'[p].attempts = items[p].attempts
  PROVE  IInv'
<1>1. \A n \in Node : Leases(n)' = Leases(n)
  BY DEF Leases
<1>2. TriedLeftBatch'
  BY DEF IInv, TriedLeftBatch
<1> QED
  BY <1>1, <1>2, CalmStepKeepsIInv

\* LeaseRetries: each new token is above all that were given out on its post.
LEMMA LeaseStep ==
  ASSUME IInv, TypeOK', NEW n \in Node, LeaseRetries(n)
  PROVE  IInv'
<1>1. PICK S \in SUBSET Posts :
        /\ \A p \in S : items'[p].attempts = items[p].attempts + 1
        /\ \A p \in Posts \ S : items'[p] = items[p]
        /\ \A l \in leased'[n] : l.post \in S /\ l.token = items[l.post].attempts + 1
        /\ \A m \in Node \ {n} : leased'[m] = leased[m]
  BY NewLeases DEF IInv
<1>2. leased[n] = {} /\ trying[n] = None /\ UNCHANGED trying
  BY DEF LeaseRetries
<1>3. \A p \in Posts : items[p].attempts \in Nat
  BY DEF IInv, TypeOK, Item
<1>4. /\ Leases(n)' = leased'[n]
      /\ \A m \in Node \ {n} : Leases(m)' = Leases(m)
  BY <1>1, <1>2 DEF Leases
<1>5. \A m \in Node : \A l \in Leases(m) :
        l.post \in Posts /\ l.token \in Nat /\ l.token <= items[l.post].attempts
  BY DEF IInv, TypeOK, Leases, Lease, NoLeaseAhead
<1>6. NoLeaseAhead'
  <2> SUFFICES ASSUME NEW m \in Node, NEW l \in Leases(m)'
               PROVE  l.token <= items'[l.post].attempts
    BY DEF NoLeaseAhead
  <2>1. CASE m = n
    BY <1>1, <1>3, <1>4, <2>1
  <2>2. CASE m # n
    BY <1>1, <1>3, <1>4, <1>5, <2>2
  <2> QED
    BY <2>1, <2>2
<1>7. TokensOnce'
  <2> SUFFICES ASSUME NEW m \in Node, NEW o \in Node, NEW k \in Leases(m)', NEW l \in Leases(o)',
                      k.post = l.post, k.token = l.token, m # o
               PROVE  FALSE
    BY DEF TokensOnce
  <2>1. CASE m = n
    BY <1>1, <1>3, <1>4, <1>5, <2>1
  <2>2. CASE o = n
    BY <1>1, <1>3, <1>4, <1>5, <2>2
  <2>3. CASE m # n /\ o # n
    BY <1>4, <2>3 DEF IInv, TokensOnce
  <2> QED
    BY <2>1, <2>2, <2>3
<1>8. TriedLeftBatch'
  BY <1>1, <1>2 DEF IInv, TriedLeftBatch
<1> QED
  BY <1>6, <1>7, <1>8 DEF IInv

\* A try takes one lease out of the batch and keeps it.
LEMMA TryStep ==
  ASSUME IInv, TypeOK', NEW n \in Node, NEW out \in Outcome, TryAs(n, out)
  PROVE  IInv'
<1>1. PICK l \in leased[n] :
         /\ leased' = [leased EXCEPT ![n] = @ \ {l}]
         /\ trying' = [trying EXCEPT ![n] = [lease |-> l, out |-> out]]
  BY DEF TryAs
<1>2. trying[n] = None /\ UNCHANGED items
  BY DEF TryAs
<1>3. TriedLeftBatch'
  BY <1>1, <1>2 DEF IInv, TypeOK, TriedLeftBatch
<1>4. \A m \in Node : Leases(m)' \subseteq Leases(m)
  BY <1>1 DEF IInv, TypeOK, Leases
<1> QED
  BY <1>2, <1>3, <1>4, CalmStepKeepsIInv

\* A settled or forgotten try ends its lease; a release leaves every other
\* lease on the post behind.
LEMMA SettleStep ==
  ASSUME IInv, TypeOK', NEW n \in Node, Settle(n) \/ Forget(n)
  PROVE  IInv'
<1> DEFINE l == trying[n].lease
           out == trying[n].out
<1>1. /\ trying[n] # None /\ trying' = [trying EXCEPT ![n] = None]
      /\ UNCHANGED <<up, leased, saved, stopped, stored>>
  BY DEF Settle, Forget
<1>2. l \in Lease /\ l.post \in Posts /\ l.token \in Nat /\ out \in Outcome
      /\ items[l.post] \in Item /\ items[l.post].attempts \in Nat
  BY <1>1 DEF IInv, TypeOK, Lease, Item
<1>3. /\ Leases(n)' = leased[n] /\ l \in Leases(n) /\ l \notin leased[n]
      /\ leased[n] \subseteq Leases(n)
      /\ \A m \in Node \ {n} : Leases(m)' = Leases(m)
  BY <1>1 DEF IInv, TypeOK, Leases, TriedLeftBatch
<1>4. /\ \A p \in Posts \ {l.post} : items'[p] = items[p]
      /\ \/ items'[l.post].attempts = items[l.post].attempts
         \/ /\ items[l.post].attempts = l.token
            /\ items'[l.post].attempts = items[l.post].attempts - 1
  <2>1. CASE Settle(n)
    BY <1>2, <2>1, SettledItems, SettledItem DEF IInv, Fenced
  <2>2. CASE Forget(n)
    BY <2>2 DEF Forget
  <2> QED
    BY <2>1, <2>2
<1>5. \A m \in Node : \A k \in Leases(m)' :
        /\ k \in Leases(m) /\ k.post \in Posts /\ k.token \in Nat
        /\ k.token <= items[k.post].attempts
        /\ k.post = l.post => k.token # l.token
  <2> SUFFICES ASSUME NEW m \in Node, NEW k \in Leases(m)'
               PROVE  /\ k \in Leases(m) /\ k.post \in Posts /\ k.token \in Nat
                      /\ k.token <= items[k.post].attempts
                      /\ k.post = l.post => k.token # l.token
    OBVIOUS
  <2>1. k \in Leases(m) /\ k \in Lease
    BY <1>3 DEF IInv, TypeOK, Leases
  <2>2. k.post \in Posts /\ k.token \in Nat /\ k.token <= items[k.post].attempts
    BY <2>1 DEF Lease, IInv, NoLeaseAhead
  <2>3. CASE m # n
    BY <1>3, <2>1, <2>2, <2>3 DEF IInv, TokensOnce
  <2>4. CASE m = n
    <3>1. k # l
      BY <1>3, <2>4
    <3>2. ~(k.post = l.post /\ k.token = l.token)
      BY <1>2, <2>1, <3>1 DEF Lease
    <3> QED
      BY <2>1, <2>2, <3>2
  <2> QED
    BY <2>3, <2>4
<1>6. NoLeaseAhead'
  <2> SUFFICES ASSUME NEW m \in Node, NEW k \in Leases(m)'
               PROVE  k.token <= items'[k.post].attempts
    BY DEF NoLeaseAhead
  <2> QED
    BY <1>2, <1>4, <1>5
<1>7. TokensOnce'
  BY <1>5 DEF IInv, TokensOnce
<1>8. TriedLeftBatch'
  BY <1>1 DEF IInv, TypeOK, TriedLeftBatch
<1> QED
  BY <1>6, <1>7, <1>8 DEF IInv

\* Nodes that stop drop their leases; reclaims keep the attempts of every row.
LEMMA NodeStep ==
  ASSUME IInv, TypeOK', NEW n \in Node, NodeNext(n)
  PROVE  IInv'
<1>1. \A p \in Posts : items'[p].attempts = items[p].attempts
  BY ReclaimedItems DEF NodeNext, Start, Crash, Shutdown, Sweep, IInv
<1>2. CASE Start(n) \/ Sweep(n)
  BY <1>1, <1>2, LeasesStay DEF Start, Sweep
<1>3. CASE Crash(n) \/ Shutdown(n)
  <2>1. TriedLeftBatch' /\ \A m \in Node : Leases(m)' \subseteq Leases(m)
    BY <1>3 DEF Crash, Shutdown, Cleared, IInv, TypeOK, TriedLeftBatch, Leases
  <2> QED
    BY <1>1, <2>1, CalmStepKeepsIInv
<1> QED
  BY <1>2, <1>3 DEF NodeNext

LEMMA InitIInv == Init => IInv
<1> SUFFICES ASSUME Init PROVE IInv
  OBVIOUS
<1>1. \A n \in Node : Leases(n) = {} /\ trying[n] = None
  BY DEF Init, Leases
<1> QED
  BY <1>1, InitTypeOK DEF IInv, NoLeaseAhead, TokensOnce, TriedLeftBatch

LEMMA NextIInv == IInv /\ [Next]_vars => IInv'
<1> SUFFICES ASSUME IInv, [Next]_vars PROVE IInv'
  OBVIOUS
<1>1. TypeOK'
  BY TypeStep DEF IInv, QueueNext
<1>2. ASSUME NEW n \in Node, RetryNext(n) \/ NodeNext(n)
      PROVE  IInv'
  BY <1>1, <1>2, LeaseStep, TryStep, SettleStep, NodeStep DEF RetryNext, Try
<1>3. ASSUME NEW n \in Node, LimitNext(n)
      PROVE  IInv'
  BY <1>1, <1>3, LeasesStay DEF LimitNext, OthersReserve, LimitReached
<1>4. ASSUME NEW p \in Posts, PostNext(p)
      PROVE  IInv'
  <2>1. \A q \in Posts : items'[q].attempts = items[q].attempts
    BY <1>4, PostItems DEF IInv
  <2> QED
    BY <1>1, <1>4, <2>1, LeasesStay DEF PostNext, Enqueue, Expire, DelayOver
<1>5. CASE UNCHANGED vars
  BY <1>1, <1>5, LeasesStay DEF vars
<1> QED
  BY <1>2, <1>3, <1>4, <1>5 DEF Next

\* The inductive invariant, in every behaviour without an operator's resets.
THEOREM IInvHolds == Spec => []IInv
  BY InitIInv, NextIInv, PTL DEF Spec

\* No row is leased beyond its attempts and no process reserves beyond the
\* limit (LeaseRetries, reserve), whatever the operator resets.
THEOREM TypeCorrect == OperatedSpec => []TypeOK
  BY InitTypeOK, TypeStep, PTL DEF OperatedSpec

\* Of all leases given out on a post at most one is still accepted by
\* FinishRetry, RescheduleRetry and ReleaseRetry, though their fence asks
\* neither for the node nor for the worker.
THEOREM RetriesAreExclusive == Spec => []Exclusive
<1>1. IInv => Exclusive
  <2> SUFFICES ASSUME IInv, NEW m \in Node, NEW n \in Node, NEW k \in Leases(m), NEW l \in Leases(n),
                      k.post = l.post, Fenced(k), Fenced(l)
               PROVE  m = n /\ k = l
    BY DEF Exclusive
  <2>1. k \in Lease /\ l \in Lease
    BY DEF IInv, TypeOK, Leases
  <2>2. k.token = l.token
    BY DEF Fenced
  <2> QED
    BY <2>1, <2>2 DEF IInv, TokensOnce, Lease
<1> QED
  BY <1>1, IInvHolds, PTL
-----------------------------------------------------------------------------
(* Success. *)

\* A success is final: no late outcome of another lease, no reclaim and no
\* new failure of the same post puts it back into the queue.
THEOREM SuccessIsFinal == Spec => SucceededForGood
<1>1. ASSUME TypeOK, [Next]_vars, NEW p \in Posts, items[p].status = "succeeded"
      PROVE  items'[p] = items[p]
  <2>1. ASSUME NEW n \in Node, LeaseRetries(n)
        PROVE  items'[p] = items[p]
    BY <1>1, <2>1, NewLeases
  <2>2. ASSUME NEW n \in Node, Settle(n)
        PROVE  items'[p] = items[p]
    BY <1>1, <2>2, SettledItems DEF Fenced
  <2>3. ASSUME NEW n \in Node, NodeNext(n)
        PROVE  items'[p] = items[p]
    BY <1>1, <2>3, ReclaimedItems DEF NodeNext, Start, Crash, Shutdown, Sweep
  <2>4. ASSUME NEW q \in Posts, PostNext(q)
        PROVE  items'[p] = items[p]
    BY <1>1, <2>4, PostItems
  <2>5. ASSUME NEW n \in Node, Try(n) \/ Forget(n) \/ LimitNext(n)
        PROVE  items'[p] = items[p]
    BY <2>5 DEF Try, TryAs, Forget, LimitNext, OthersReserve, LimitReached
  <2> QED
    BY <1>1, <2>1, <2>2, <2>3, <2>4, <2>5 DEF Next, RetryNext, vars
<1>2. TypeOK /\ [Next]_vars
        => [\A p \in Posts : items[p].status = "succeeded" => items'[p] = items[p]]_vars
  BY <1>1
<1>3. Spec => OperatedSpec
  <2>1. [Next]_vars => [QueueNext]_vars
    BY DEF QueueNext
  <2> QED
    BY <2>1, PTL DEF Spec, OperatedSpec
<1> QED
  BY <1>2, <1>3, TypeCorrect, PTL DEF Spec, SucceededForGood

\* Without a limit no try is trimmed, and what a try calls stored is.
TriesAreTrue ==
    \A n \in Node : trying[n] # None =>
        /\ trying[n].out # "trimmed"
        /\ trying[n].out = "stored" => trying[n].lease.post \in stored

StoredInv == TypeOK /\ TriesAreTrue /\ SucceededMeansStored

\* Without a limit a row is closed only over a post that an ingest accepted.
LEMMA StoredStep ==
  ASSUME Limit = 0, StoredInv, [QueueNext]_vars
  PROVE  StoredInv'
<1>1. TypeOK'
  BY TypeStep DEF StoredInv
<1>2. ASSUME UNCHANGED <<trying, stored>>,
             \A p \in Posts : items'[p].status = "succeeded" => items[p].status = "succeeded"
      PROVE  StoredInv'
  BY <1>1, <1>2 DEF StoredInv, TriesAreTrue, SucceededMeansStored
<1>3. ASSUME NEW n \in Node, LeaseRetries(n)
      PROVE  StoredInv'
  <2>1. \A p \in Posts : items'[p].status = "succeeded" => items[p].status = "succeeded"
    BY <1>3, NewLeases DEF StoredInv
  <2> QED
    BY <1>2, <1>3, <2>1 DEF LeaseRetries
<1>4. ASSUME NEW n \in Node, NEW out \in Outcome, TryAs(n, out)
      PROVE  StoredInv'
  <2>1. PICK l \in leased[n] :
           /\ trying' = [trying EXCEPT ![n] = [lease |-> l, out |-> out]]
           /\ stored' = IF out = "stored" THEN stored \cup {l.post} ELSE stored
    BY <1>4 DEF TryAs
  <2>2. out # "trimmed" /\ UNCHANGED items /\ stored \subseteq stored'
    BY <1>4, <2>1 DEF TryAs, HasRoom
  <2>3. TriesAreTrue'
    BY <2>1, <2>2 DEF StoredInv, TypeOK, TriesAreTrue
  <2> QED
    BY <1>1, <2>2, <2>3 DEF StoredInv, SucceededMeansStored
<1>5. ASSUME NEW n \in Node, Settle(n)
      PROVE  StoredInv'
  <2>1. trying[n] # None /\ trying' = [trying EXCEPT ![n] = None] /\ UNCHANGED stored
    BY <1>5 DEF Settle
  <2>2. SucceededMeansStored'
    <3> SUFFICES ASSUME NEW p \in Posts, items'[p].status = "succeeded"
                 PROVE  p \in stored
      BY <2>1 DEF SucceededMeansStored
    <3>1. CASE items'[p] = items[p]
      BY <3>1 DEF StoredInv, SucceededMeansStored
    <3>2. CASE items'[p] # items[p]
      <4>1. /\ p = trying[n].lease.post /\ trying[n].out \in Outcome /\ items[p] \in Item
            /\ items'[p] = Settled(items[p], trying[n].out)
        BY <1>5, <3>2, SettledItems DEF StoredInv, TypeOK
      <4>2. trying[n].out \in {"stored", "trimmed"}
        BY <4>1, SettledItem
      <4> QED
        BY <2>1, <4>1, <4>2 DEF StoredInv, TriesAreTrue
    <3> QED
      BY <3>1, <3>2
  <2>3. TriesAreTrue'
    BY <2>1 DEF StoredInv, TypeOK, TriesAreTrue
  <2> QED
    BY <1>1, <2>2, <2>3 DEF StoredInv
<1>6. ASSUME NEW n \in Node, Forget(n)
      PROVE  StoredInv'
  BY <1>1, <1>6 DEF Forget, StoredInv, TypeOK, TriesAreTrue, SucceededMeansStored
<1>7. ASSUME NEW n \in Node, LimitNext(n)
      PROVE  StoredInv'
  BY <1>2, <1>7 DEF LimitNext, OthersReserve, LimitReached
<1>8. ASSUME NEW n \in Node, NodeNext(n)
      PROVE  StoredInv'
  <2>1. UNCHANGED stored
        /\ \A p \in Posts : items'[p].status = "succeeded" => items[p].status = "succeeded"
    BY <1>8, ReclaimedItems DEF NodeNext, Start, Crash, Shutdown, Sweep, StoredInv
  <2>2. UNCHANGED trying \/ trying' = [trying EXCEPT ![n] = None]
    BY <1>8 DEF NodeNext, Start, Crash, Shutdown, Sweep, Cleared
  <2> QED
    BY <1>1, <2>1, <2>2 DEF StoredInv, TypeOK, TriesAreTrue, SucceededMeansStored
<1>9. ASSUME NEW p \in Posts, PostNext(p)
      PROVE  StoredInv'
  <2>1. \A q \in Posts : items'[q].status = "succeeded" => items[q].status = "succeeded"
    BY <1>9, PostItems DEF StoredInv
  <2> QED
    BY <1>2, <1>9, <2>1 DEF PostNext, Enqueue, Expire, DelayOver
<1>10. CASE ResetRetryQueue \/ RetryPendingQueue
  BY <1>2, <1>10, OperatorItems DEF StoredInv
<1>11. CASE UNCHANGED vars
  BY <1>2, <1>11 DEF vars
<1> QED
  BY <1>3, <1>4, <1>5, <1>6, <1>7, <1>8, <1>9, <1>10, <1>11
  DEF QueueNext, Next, RetryNext, Try

LEMMA InitStoredInv == Init => StoredInv
<1> SUFFICES ASSUME Init PROVE StoredInv
  OBVIOUS
<1>1. TriesAreTrue /\ SucceededMeansStored
  BY NoItemType DEF Init, TriesAreTrue, SucceededMeansStored
<1> QED
  BY <1>1, InitTypeOK DEF StoredInv

\* Without -limit a retry is only closed when its post is in the index, late
\* outcomes, crashes, full indexes and the operator's resets included.  (With
\* one it is not: the run retry_limit shows a trimmed try that succeeds.)
THEOREM SuccessMeansStored ==
  ASSUME Limit = 0
  PROVE  OperatedSpec => []SucceededMeansStored
<1>1. StoredInv => SucceededMeansStored
  BY DEF StoredInv
<1>2. StoredInv /\ [QueueNext]_vars => StoredInv'
  BY StoredStep
<1> QED
  BY <1>1, <1>2, InitStoredInv, PTL DEF OperatedSpec

\* The same of the nodes that stay up, whose fairness changes nothing of it.
THEOREM SteadySuccessMeansStored ==
  ASSUME Limit = 0
  PROVE  SteadySpec => []SucceededMeansStored
<1>1. [SteadyNext]_vars => [QueueNext]_vars
  BY DEF SteadyNext, SteadyTry, FirstFailure, QueueNext, Next, RetryNext, Try, NodeNext, PostNext,
         Outcome
<1>2. SteadySpec => OperatedSpec
  BY <1>1, PTL DEF SteadySpec, OperatedSpec
<1> QED
  BY <1>2, SuccessMeansStored, PTL
=============================================================================
