------------------------------ MODULE Capacity ------------------------------
(***************************************************************************)
(* The limit on indexed images (MaxIndexed): each node asks before it      *)
(* takes work (internal/app/crawler_capacity.go) and the central node asks *)
(* before it stores a batch (ingest_capacity.go), both from a count they   *)
(* remember for a while.  Work is a backfill range, a page of catch-up or  *)
(* a retry; only a refused backfill worker forgets its node's count.       *)
(***************************************************************************)
EXTENDS Integers

CONSTANTS
    Backfill, Other,   \* workers of one node: backfill, and catch-up or retries
    MaxIndexed,
    BatchSize,         \* the indexer's SubmitBatch
    Overshoot,         \* bound on the images stored beyond the limit
    Errors             \* bound on counts that fail

CapacityAssumption ==
    /\ MaxIndexed \in Nat \ {0} /\ BatchSize \in Nat \ {0}
    /\ Overshoot \in Nat /\ Errors \in Nat

VARIABLES
    stored,      \* rows of images
    nodeCount,   \* what the node remembers, Unknown when too old or forgotten
    roomCount,   \* what the central node remembers
    doing,       \* worker -> where it is
    batchOf,     \* worker -> images of the batch it submits
    basis,       \* worker -> the count it took the work by, Unknown without one
    grudge,      \* a worker was refused although nothing had been stored since
    errors

capacity == <<stored, nodeCount, roomCount, doing, batchOf, basis, grudge, errors>>

Sender == Backfill \cup Other
Unknown == -1

-----------------------------------------------------------------------------
Headroom_One == 1

\* submitHeadroom: the gate leaves room for what a submission brings.
Headroom == BatchSize

\* indexedCount: the remembered count, or a new one; Unknown is a failed query.
Counted(remembered) == IF remembered = Unknown THEN {stored} ELSE {remembered}
MayFail(remembered) == remembered = Unknown /\ errors < Errors

\* atCapacity said no: without a count the work is taken.
TakeWork(w) ==
    /\ doing[w] = "idle"
    /\ \/ \E count \in Counted(nodeCount) :
            /\ count + Headroom <= MaxIndexed
            /\ nodeCount' = count
            /\ basis' = [basis EXCEPT ![w] = count]
            /\ UNCHANGED errors
       \/ /\ MayFail(nodeCount)
          /\ errors' = errors + 1
          /\ basis' = [basis EXCEPT ![w] = Unknown]
          /\ UNCHANGED nodeCount
    /\ \E n \in 1 .. BatchSize : batchOf' = [batchOf EXCEPT ![w] = n]
    /\ doing' = [doing EXCEPT ![w] = "submitting"]
    /\ UNCHANGED <<stored, roomCount, grudge>>

\* atCapacity said yes: the worker looks again later.
Rest(w) ==
    /\ doing[w] = "idle"
    /\ \E count \in Counted(nodeCount) : count + Headroom > MaxIndexed /\ nodeCount' = count
    /\ nodeCount' # nodeCount
    /\ UNCHANGED <<stored, roomCount, doing, batchOf, basis, grudge, errors>>

Idle(w) ==
    /\ doing' = [doing EXCEPT ![w] = "idle"]
    /\ batchOf' = [batchOf EXCEPT ![w] = 1]
    /\ basis' = [basis EXCEPT ![w] = Unknown]

\* checkRoom counts the batch in.
Fits(count, n) == count + n <= MaxIndexed

Admit(w) ==
    /\ doing[w] = "submitting"
    /\ stored < MaxIndexed + Overshoot
    /\ \/ \E count \in Counted(roomCount) :
            /\ Fits(count, batchOf[w])
            /\ roomCount' = count
            /\ UNCHANGED errors
       \/ MayFail(roomCount) /\ errors' = errors + 1 /\ UNCHANGED roomCount
    /\ doing' = [doing EXCEPT ![w] = "storing"]
    /\ UNCHANGED <<stored, nodeCount, batchOf, basis, grudge>>

\* UpsertImages: images of the batch that are not rows yet.
Store(w) ==
    /\ doing[w] = "storing"
    /\ \E n \in 0 .. batchOf[w] : stored' = stored + n
    /\ Idle(w)
    /\ UNCHANGED <<nodeCount, roomCount, grudge, errors>>

\* ErrIndexFull.
Refuse(w) ==
    /\ doing[w] = "submitting"
    /\ \E count \in Counted(roomCount) : ~Fits(count, batchOf[w]) /\ roomCount' = count
    /\ nodeCount' = IF w \in Backfill THEN Unknown ELSE nodeCount
    /\ grudge' = (grudge \/ basis[w] = stored)
    /\ Idle(w)
    /\ UNCHANGED <<stored, errors>>

\* 30 seconds, 5 seconds.
NodeCountAges ==
    /\ nodeCount # Unknown /\ nodeCount' = Unknown
    /\ UNCHANGED <<stored, roomCount, doing, batchOf, basis, grudge, errors>>

RoomCountAges ==
    /\ roomCount # Unknown /\ roomCount' = Unknown
    /\ UNCHANGED <<stored, nodeCount, doing, batchOf, basis, grudge, errors>>

-----------------------------------------------------------------------------
CapacityInit ==
    /\ stored \in 0 .. MaxIndexed /\ errors = 0
    /\ nodeCount = Unknown /\ roomCount = Unknown
    /\ doing = [w \in Sender |-> "idle"]
    /\ batchOf = [w \in Sender |-> 1] /\ basis = [w \in Sender |-> Unknown]
    /\ grudge = FALSE

Submission(w) == Admit(w) \/ Store(w) \/ Refuse(w)

CapacityNext ==
    \/ \E w \in Sender : TakeWork(w) \/ Rest(w) \/ Submission(w)
    \/ NodeCountAges \/ RoomCountAges

-----------------------------------------------------------------------------
CapacityTypeOK ==
    /\ stored \in Nat /\ errors \in 0 .. Errors
    /\ nodeCount \in {Unknown} \cup Nat /\ roomCount \in {Unknown} \cup Nat
    /\ doing \in [Sender -> {"idle", "submitting", "storing"}]
    /\ batchOf \in [Sender -> 1 .. BatchSize] /\ grudge \in BOOLEAN

\* The two gates agree: work is refused only if something was stored since
\* the count it was taken by, never from the same count (the comment in
\* atCapacity: ranges would be downloaded and thrown away over and over).
GatesAgree == ~grudge

\* Refusals come to an end: a full index is seen by the node, which rests.
RefusalsEnd == <>[][\A w \in Sender : ~Refuse(w)]_capacity
=============================================================================
