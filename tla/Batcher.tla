------------------------------- MODULE Batcher -------------------------------
(***************************************************************************)
(* The embedding worker's two branches (python/worker: embed of api.py and *)
(* Batcher of service.py): requests prepare their image in a few threads   *)
(* and queue it; one task collects batches and runs the inference.  All of *)
(* it is one event loop: what lies between two awaits is one step, and a   *)
(* future that is resolved wakes its request only at a later step.         *)
(***************************************************************************)
EXTENDS Integers, Sequences, FiniteSets

CONSTANTS
    Caller,     \* requests to /embed
    Size,       \* batch_size
    Preparers   \* prepare_slots()

BatcherAssumption == Size \in Nat \ {0} /\ Preparers \in Nat \ {0}

VARIABLES
    caller,     \* request -> how far it is
    queue,
    inflight,   \* requests inside submit()
    jobs,       \* what the task has in hand
    task        \* the task: "get", "window" (waiting for more), "run", "dead"

batcher == <<caller, queue, inflight, jobs, task>>

At(s) == {c \in Caller : caller[c] = s}

-----------------------------------------------------------------------------
(* embed *)

Prepare(c) ==
    /\ caller[c] = "new"
    /\ Cardinality(At("preparing")) < Preparers
    /\ caller' = [caller EXCEPT ![c] = "preparing"]
    /\ UNCHANGED <<queue, inflight, jobs, task>>

\* An ImageError is answered with 400 ...
Refuse(c) ==
    /\ caller[c] = "preparing"
    /\ caller' = [caller EXCEPT ![c] = "answered"]
    /\ UNCHANGED <<queue, inflight, jobs, task>>

\* ... and submit counts the request and queues it without a pause: the
\* queue has no limit, put never waits.
Submit(c) ==
    /\ caller[c] = "preparing"
    /\ inflight' = inflight + 1
    /\ queue' = Append(queue, c)
    /\ caller' = [caller EXCEPT ![c] = "queued"]
    /\ UNCHANGED <<jobs, task>>

\* The request wakes up with its vectors or an exception, and only now
\* stops counting.
Answer(c) ==
    /\ caller[c] = "resolved"
    /\ inflight' = inflight - 1
    /\ caller' = [caller EXCEPT ![c] = "answered"]
    /\ UNCHANGED <<queue, jobs, task>>

-----------------------------------------------------------------------------
(* _collect and _loop *)

Atmost(a, b) == IF a < b THEN a ELSE b

MoreToCome_OrSame(taken) == inflight >= Len(taken)
MoreToCome(taken) == inflight > Len(taken)

\* What the task does with the jobs in hand: waits for more, or runs them.
Onward(taken) == IF Len(taken) < Size /\ MoreToCome(taken) THEN "window" ELSE "run"

TakeBatch_All == jobs' = queue /\ queue' = <<>> /\ task' = Onward(jobs')

\* The first job, and what is queued behind it while the batch has room.
TakeBatch ==
    LET n == Atmost(Size, Len(queue)) IN
    /\ jobs' = SubSeq(queue, 1, n)
    /\ queue' = SubSeq(queue, n + 1, Len(queue))
    /\ task' = Onward(jobs')

Collect ==
    /\ task = "get" /\ queue # <<>>
    /\ TakeBatch
    /\ UNCHANGED <<caller, inflight>>

\* One more job within the window.
CollectMore ==
    /\ task = "window" /\ queue # <<>>
    /\ jobs' = Append(jobs, Head(queue))
    /\ queue' = Tail(queue)
    /\ task' = Onward(jobs')
    /\ UNCHANGED <<caller, inflight>>

WindowEnds ==
    /\ task = "window"
    /\ task' = "run"
    /\ UNCHANGED <<caller, queue, inflight, jobs>>

Taken == {jobs[i] : i \in 1 .. Len(jobs)}

Resolved == [c \in Caller |-> IF c \in Taken THEN "resolved" ELSE caller[c]]

\* _deliver resolves the futures of the batch, and the next batch is taken
\* at once if anything is queued: get() gives way to others only when it
\* has to wait.
Infer ==
    /\ task = "run"
    /\ caller' = Resolved
    /\ IF queue = <<>> THEN jobs' = <<>> /\ task' = "get" /\ UNCHANGED queue
       ELSE TakeBatch
    /\ UNCHANGED inflight

InferFails_Raise ==
    /\ task = "run"
    /\ caller' = Resolved /\ jobs' = <<>> /\ task' = "dead"
    /\ UNCHANGED <<queue, inflight>>

\* The inference raises: _fail, and the loop goes on in the same way.
InferFails == Infer

-----------------------------------------------------------------------------
BatcherInit ==
    /\ caller = [c \in Caller |-> "new"]
    /\ queue = <<>> /\ inflight = 0 /\ jobs = <<>> /\ task = "get"

Request(c) == Prepare(c) \/ Refuse(c) \/ Submit(c) \/ Answer(c)

Loop == Collect \/ CollectMore \/ WindowEnds \/ Infer \/ InferFails

BatcherNext == (\E c \in Caller : Request(c)) \/ Loop

\* The event loop runs every task that is ready, threads end.
BatcherSpec ==
    /\ BatcherInit /\ [][BatcherNext]_batcher
    /\ WF_batcher(Loop) /\ \A c \in Caller : WF_batcher(Request(c))

-----------------------------------------------------------------------------
\* Types; inflight is what is queued, in hand, or resolved and not awake:
\* never a request that still prepares its image.
BatcherTypeOK ==
    /\ caller \in [Caller -> {"new", "preparing", "queued", "resolved", "answered"}]
    /\ task \in {"get", "window", "run", "dead"}
    /\ Len(jobs) <= Size /\ (task = "get" => jobs = <<>>)
    /\ inflight = Len(queue) + Len(jobs) + Cardinality(At("resolved"))

\* The window is opened only over a request that has its answer already and
\* has not woken up yet: whoever is still on the way to the queue, whom the
\* window is meant for (service.py:99), is not in inflight.
WindowIsForTheAnswered ==
    [][task # "window" /\ task' = "window" => At("resolved")' # {}]_batcher
=============================================================================
