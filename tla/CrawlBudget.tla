----------------------------- MODULE CrawlBudget -----------------------------
(***************************************************************************)
(* -limit (Crawler.MaxImages, internal/app/crawler.go): the backfill       *)
(* workers of one run take shares of one counter, the first to see it full *)
(* cancels the context of all, and each settles its range by how far it    *)
(* got.  A post is one of a number, a range is the number of its posts.    *)
(***************************************************************************)
EXTENDS Integers, FiniteSetsExt

CONSTANTS
    Crawler,      \* backfill workers
    MaxImages,
    MaxPosts,     \* bound on the posts of a range
    MaxRanges     \* bound on the ranges handed out

CrawlBudgetAssumption ==
    /\ IsFiniteSet(Crawler)
    /\ MaxImages \in Nat \ {0} /\ MaxPosts \in Nat \ {0} /\ MaxRanges \in Nat

VARIABLES
    reserved,   \* Crawler.saved: posts it was decided to process
    done,       \* posts that were processed
    stopped,    \* limitDone: the context of the run is cancelled
    stage,      \* worker -> where processRange is
    size,       \* worker -> posts of its range
    share,      \* worker -> what reserve gave it
    result,     \* worker -> how the work on the range ended
    handed,     \* ranges handed out
    closed      \* <<result, all its posts dealt with>> of every range that
                \* was reported, "abandoned" if neither reported nor given back

budget == <<reserved, done, stopped, stage, size, share, result, handed, closed>>

Results == {"none", "completed", "failed", "empty", "error", "cut"}

-----------------------------------------------------------------------------
\* AcquireBackfillRange and PostsInRange; an empty range is reported at once.
Acquire(w) ==
    /\ stage[w] = "idle" /\ ~stopped /\ handed < MaxRanges
    /\ handed' = handed + 1
    /\ \/ \E n \in 1 .. MaxPosts :
            /\ size' = [size EXCEPT ![w] = n]
            /\ stage' = [stage EXCEPT ![w] = "fetched"]
            /\ UNCHANGED result
       \/ \E r \in {"empty", "error"} :
            /\ size' = [size EXCEPT ![w] = 0]
            /\ result' = [result EXCEPT ![w] = r]
            /\ stage' = [stage EXCEPT ![w] = "settling"]
    /\ UNCHANGED <<reserved, done, stopped, share, closed>>

Take_Whole(want) == MaxImages - reserved
Take_AllOrNothing(want) == IF reserved < MaxImages THEN want ELSE 0

\* What reserve takes from the counter in one exchange.
Take(want) == IF want <= MaxImages - reserved THEN want ELSE MaxImages - reserved

Cut(w) == share'[w] < size[w]

Reserve(w) ==
    /\ stage[w] = "fetched"
    /\ share' = [share EXCEPT ![w] = Take(size[w])]
    /\ reserved' = reserved + share'[w]
    /\ result' = [result EXCEPT ![w] = IF Cut(w) THEN "cut" ELSE "none"]
    /\ stage' = [stage EXCEPT ![w] = IF share'[w] = 0 THEN "settling" ELSE "indexing"]
    /\ UNCHANGED <<done, stopped, size, handed, closed>>

\* Whether the range was cut goes before what IndexBatch says of it.
Verdict(w) == IF result[w] = "cut" THEN {"cut"} ELSE {"completed", "failed", "error"}

\* IndexBatch: every post of the share is dealt with, or the context ends
\* and it returns with some of them.
IndexBatch(w) ==
    /\ stage[w] = "indexing"
    /\ \/ /\ done' = done + share[w]
          /\ \E r \in Verdict(w) : result' = [result EXCEPT ![w] = r]
          /\ UNCHANGED share
       \/ /\ stopped
          /\ \E n \in 0 .. share[w] - 1 :
               /\ share' = [share EXCEPT ![w] = n]
               /\ done' = done + n
          /\ result' = [result EXCEPT ![w] = IF @ = "cut" THEN "cut" ELSE "error"]
    /\ stage' = [stage EXCEPT ![w] = "noting"]
    /\ UNCHANGED <<reserved, stopped, size, handed, closed>>

Full_Processed == done > MaxImages
Full == reserved >= MaxImages

\* noteLimitReached, after the worker's own share only.
Note(w) ==
    /\ stage[w] = "noting"
    /\ stopped' = (stopped \/ Full)
    /\ stage' = [stage EXCEPT ![w] = "settling"]
    /\ UNCHANGED <<reserved, done, size, share, result, handed, closed>>

\* selfStopped: nothing remains of the limit.
SelfStopped_Never == FALSE
SelfStopped == reserved >= MaxImages

\* finishOrRelease: a range that was cut, or that ended while the limit was
\* reached, is given back; finish says nothing once the context is over.
Settle(w) ==
    /\ stage[w] = "settling"
    /\ closed' = IF result[w] = "cut" \/ SelfStopped THEN closed
                 ELSE closed \cup {<<IF stopped THEN "abandoned" ELSE result[w], share[w] = size[w]>>}
    /\ stage' = [stage EXCEPT ![w] = IF stopped THEN "out" ELSE "idle"]
    /\ size' = [size EXCEPT ![w] = 0]
    /\ share' = [share EXCEPT ![w] = 0]
    /\ result' = [result EXCEPT ![w] = "none"]
    /\ UNCHANGED <<reserved, done, stopped, handed>>

Leave(w) ==
    /\ stage[w] = "idle" /\ stopped
    /\ stage' = [stage EXCEPT ![w] = "out"]
    /\ UNCHANGED <<reserved, done, stopped, size, share, result, handed, closed>>

-----------------------------------------------------------------------------
BudgetInit ==
    /\ reserved = 0 /\ done = 0 /\ stopped = FALSE /\ handed = 0 /\ closed = {}
    /\ stage = [w \in Crawler |-> "idle"]
    /\ size = [w \in Crawler |-> 0] /\ share = [w \in Crawler |-> 0]
    /\ result = [w \in Crawler |-> "none"]

ProcessRange(w) == Reserve(w) \/ IndexBatch(w) \/ Note(w) \/ Settle(w) \/ Leave(w)

BudgetNext == \E w \in Crawler : Acquire(w) \/ ProcessRange(w)

-----------------------------------------------------------------------------
BudgetTypeOK ==
    /\ reserved \in Nat /\ done \in Nat /\ handed \in 0 .. MaxRanges
    /\ stage \in [Crawler -> {"idle", "fetched", "indexing", "noting", "settling", "out"}]
    /\ size \in [Crawler -> 0 .. MaxPosts] /\ share \in [Crawler -> 0 .. MaxPosts]
    /\ result \in [Crawler -> Results]

\* However many workers take at once, no more than the limit is processed:
\* the counter is what was processed plus what is in hand, and the part of a
\* share that a cancelled worker left is lost to everybody.
LimitHolds ==
    /\ reserved <= MaxImages
    /\ done + MapThenSumSet(LAMBDA w : IF stage[w] = "indexing" THEN share[w] ELSE 0, Crawler)
         <= reserved

\* A range is reported as completed or empty only when each of its posts was
\* dealt with, and the stop of the limit leaves none behind as running.
NoRangeHurtByLimit ==
    \A c \in closed : (c[1] \in {"completed", "empty"} => c[2]) /\ c[1] # "abandoned"

\* A full counter stops the run; neither is ever taken back.
FullStops == <>[](reserved = MaxImages => stopped)

\* "-limit means: process this many and stop" (crawler.go:484-485).
LimitIsProcessed == (\A w \in Crawler : stage[w] = "out") => done = MaxImages
=============================================================================
