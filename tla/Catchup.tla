------------------------------ MODULE Catchup ------------------------------
(***************************************************************************)
(* New posts, above the backfill: every node's runCatchup goroutine reads  *)
(* the shared high watermark, fetches the posts after it, indexes them,    *)
(* queues the failures and moves the watermark                             *)
(* (internal/app/crawler.go; InitCatchupState, HighWatermark,              *)
(* AdvanceWatermark and EnqueueRetries of internal/adapter/postgres/       *)
(* lease.go; PostsAfter of internal/adapter/danbooru/danbooru.go).         *)
(*                                                                         *)
(* Nothing is leased: nodes see the same posts, and only the order of one  *)
(* node's steps and the GREATEST of the UPDATE keep the watermark honest.  *)
(***************************************************************************)
EXTENDS Integers, FiniteSetsExt

CONSTANTS
    Node,
    Oldest,   \* newest post when the model starts
    Newest,   \* bound on the posts published
    Page,     \* posts asked for at once, 200 in the code
    Limited   \* TRUE: processes run with -limit

ASSUME CatchupAssumption ==
    /\ Oldest \in Nat \ {0}
    /\ Newest \in Nat /\ Oldest <= Newest
    /\ Page \in Nat \ {0}
    /\ Limited \in BOOLEAN

VARIABLES
    latest,     \* Danbooru's newest post
    watermark,  \* crawl_states.high_watermark_id, 0 without the row
    before,     \* crawl_states.backfill_before_id, 0 without the row
    pc,         \* node -> where its crawler is
    mark,       \* node -> the id bootstrap or catchupOnce has read
    page,       \* node -> the posts catchupOnce has fetched
    failed,     \* node -> report.Failed
    trimmed,    \* node -> -limit cut the page
    kept,       \* ghost: posts indexed, or skipped for good
    queued,     \* ghost: posts that went into crawl_post_retries
    dropped,    \* ghost: failures whose EnqueueRetries failed
    jumped,     \* ghost: posts a bootstrap moved the watermark over
    cut         \* ghost: posts the limit cut off a page

vars == <<latest, watermark, before, pc, mark, page, failed, trimmed,
          kept, queued, dropped, jumped, cut>>
row == <<watermark, before>>
ghosts == <<kept, queued, dropped, jumped, cut>>

\* GREATEST(COALESCE(high_watermark_id, 0), id)
Raised(old, id) == IF old >= id THEN old ELSE id

-----------------------------------------------------------------------------
Publish ==
    /\ latest < Newest
    /\ latest' = latest + 1
    /\ UNCHANGED <<row, pc, mark, page, failed, trimmed, ghosts>>

\* bootstrap, at every start of a crawler: read the newest post ...
LatestPostID(n) ==
    /\ pc[n] = "down"
    /\ pc' = [pc EXCEPT ![n] = "booting"]
    /\ mark' = [mark EXCEPT ![n] = latest]
    /\ UNCHANGED <<latest, row, page, failed, trimmed, ghosts>>

\* ... and write it: COALESCE keeps backfill_before_id, GREATEST raises the
\* watermark, over posts no node has seen too.
InitCatchupState(n) ==
    /\ pc[n] = "booting"
    /\ before' = IF before = 0 THEN mark[n] ELSE before
    /\ watermark' = Raised(watermark, mark[n])
    /\ jumped' = IF before = 0 THEN jumped ELSE jumped \cup watermark + 1 .. mark[n]
    /\ pc' = [pc EXCEPT ![n] = "polling"]
    /\ UNCHANGED <<latest, mark, page, failed, trimmed, kept, queued, dropped, cut>>

\* Crash, shutdown, the limit's cancel: catchupOnce writes nothing any more.
Stop(n) ==
    /\ pc[n] # "down"
    /\ pc' = [pc EXCEPT ![n] = "down"]
    /\ mark' = [mark EXCEPT ![n] = 0]
    /\ page' = [page EXCEPT ![n] = {}]
    /\ failed' = [failed EXCEPT ![n] = {}]
    /\ trimmed' = [trimmed EXCEPT ![n] = FALSE]
    /\ UNCHANGED <<latest, row, ghosts>>

-----------------------------------------------------------------------------
(* catchupOnce, one action per call. *)

\* Back to the ticker.
Poll(n) ==
    /\ pc' = [pc EXCEPT ![n] = "polling"]
    /\ mark' = [mark EXCEPT ![n] = 0]
    /\ page' = [page EXCEPT ![n] = {}]
    /\ failed' = [failed EXCEPT ![n] = {}]
    /\ trimmed' = [trimmed EXCEPT ![n] = FALSE]

HighWatermark(n) ==
    /\ pc[n] = "polling"
    /\ pc' = [pc EXCEPT ![n] = "fetching"]
    /\ mark' = [mark EXCEPT ![n] = watermark]
    /\ UNCHANGED <<latest, row, page, failed, trimmed, ghosts>>

\* order:id_asc id:>id, at most Page posts
After(id) == {i \in 1 .. latest : i > id /\ i <= id + Page}

PostsAfter(n) ==
    /\ pc[n] = "fetching"
    /\ After(mark[n]) # {}
    /\ page' = [page EXCEPT ![n] = After(mark[n])]
    /\ pc' = [pc EXCEPT ![n] = "indexing"]
    /\ UNCHANGED <<latest, row, mark, failed, trimmed, ghosts>>

\* A request or a statement failed, or there was nothing new.
GiveUp(n) ==
    /\ pc[n] \in {"fetching", "advancing"}
    /\ Poll(n)
    /\ UNCHANGED <<latest, row, ghosts>>

\* The oldest k posts of a page: what reserve(len(posts)) leaves of it.
Taken(P, k) == {i \in P : Cardinality({j \in P : j < i}) < k}

\* index: the posts the limit leaves are indexed, some of them fail.
Index(n) ==
    /\ pc[n] = "indexing"
    /\ \E k \in 0 .. Cardinality(page[n]) :
         /\ Limited \/ k = Cardinality(page[n])
         /\ \E F \in SUBSET Taken(page[n], k) :
              /\ kept' = kept \cup (Taken(page[n], k) \ F)
              /\ failed' = [failed EXCEPT ![n] = F]
         /\ cut' = cut \cup (page[n] \ Taken(page[n], k))
         /\ trimmed' = [trimmed EXCEPT ![n] = k < Cardinality(page[n])]
    /\ pc' = [pc EXCEPT ![n] = "queueing"]
    /\ UNCHANGED <<latest, row, mark, page, queued, dropped, jumped>>

\* index returned an error: part of the page is in, the report is dropped.
IndexFails(n) ==
    /\ pc[n] = "indexing"
    /\ \E S \in SUBSET page[n] : kept' = kept \cup S
    /\ Poll(n)
    /\ UNCHANGED <<latest, row, queued, dropped, jumped, cut>>

MayAdvance_Trimmed(n) == TRUE
MayAdvance_NoFailures(n) == ~trimmed[n] /\ failed[n] = {}

MayAdvance(n) == ~trimmed[n]

Queued(n) == queued \cup failed[n]

\* enqueueFailures; a page the limit has cut ends here.
EnqueueRetries(n) ==
    /\ pc[n] = "queueing"
    /\ queued' = Queued(n)
    /\ IF MayAdvance(n)
       THEN pc' = [pc EXCEPT ![n] = "advancing"] /\ UNCHANGED <<mark, page, failed, trimmed>>
       ELSE Poll(n)
    /\ UNCHANGED <<latest, row, kept, dropped, jumped, cut>>

\* The statement fails: a warning, and the watermark moves all the same.
EnqueueFails(n) ==
    /\ pc[n] = "queueing"
    /\ failed[n] # {}
    /\ dropped' = dropped \cup failed[n]
    /\ IF MayAdvance(n)
       THEN pc' = [pc EXCEPT ![n] = "advancing"] /\ UNCHANGED <<mark, page, failed, trimmed>>
       ELSE Poll(n)
    /\ UNCHANGED <<latest, row, kept, queued, jumped, cut>>

Advanced(n) == Raised(watermark, Max(page[n]))

AdvanceWatermark(n) ==
    /\ pc[n] = "advancing"
    /\ watermark' = Advanced(n)
    /\ Poll(n)
    /\ UNCHANGED <<latest, before, ghosts>>

-----------------------------------------------------------------------------
Init ==
    /\ latest = Oldest
    /\ watermark = 0 /\ before = 0
    /\ pc = [n \in Node |-> "down"]
    /\ mark = [n \in Node |-> 0]
    /\ page = [n \in Node |-> {}]
    /\ failed = [n \in Node |-> {}]
    /\ trimmed = [n \in Node |-> FALSE]
    /\ kept = {} /\ queued = {} /\ dropped = {} /\ jumped = {} /\ cut = {}

Boot(n) == LatestPostID(n) \/ InitCatchupState(n)

Proceed(n) ==
    \/ HighWatermark(n)
    \/ PostsAfter(n)
    \/ Index(n)
    \/ EnqueueRetries(n)
    \/ AdvanceWatermark(n)

Fail(n) == GiveUp(n) \/ IndexFails(n) \/ EnqueueFails(n)

Next ==
    \/ Publish
    \/ \E n \in Node : Boot(n) \/ Proceed(n) \/ Fail(n) \/ Stop(n)

Spec == Init /\ [][Next]_vars

\* Processes that stay up and calls that answer.
NothingNew(n) == pc[n] = "fetching" /\ After(mark[n]) = {} /\ GiveUp(n)

SteadyNext == Publish \/ \E n \in Node : Boot(n) \/ Proceed(n) \/ NothingNew(n)

SteadySpec ==
    /\ Init /\ [][SteadyNext]_vars
    /\ \A n \in Node : WF_vars(Boot(n)) /\ WF_vars(Proceed(n) \/ NothingNew(n))

-----------------------------------------------------------------------------
\* Types.  What could go wrong: a watermark beyond the newest post, or below
\* the id the backfill begins at (InitCatchupState, AdvanceWatermark).
TypeOK ==
    LET Ids == 0 .. Newest IN
    /\ latest \in Ids /\ watermark \in 0 .. latest /\ before \in 0 .. watermark
    /\ pc \in [Node -> {"down", "booting", "polling", "fetching", "indexing",
                        "queueing", "advancing"}]
    /\ mark \in [Node -> Ids]
    /\ page \in [Node -> SUBSET Ids]
    /\ failed \in [Node -> SUBSET Ids]
    /\ trimmed \in [Node -> BOOLEAN]
    /\ kept \subseteq Ids /\ queued \subseteq Ids
    /\ dropped \subseteq Ids /\ jumped \subseteq Ids /\ cut \subseteq Ids

\* The posts between where the backfill began and the watermark: no crawler
\* fetches them again.
Passed == before + 1 .. watermark

\* Every post the watermark has passed is indexed or queued for a retry,
\* except those a bootstrap jumped over and those the queue refused.  It
\* takes failed posts queued before the UPDATE, a cut page that does not
\* count, and no node moving the watermark past what it has seen itself.
NoOtherGaps == Passed \subseteq kept \cup queued \cup dropped \cup jumped

\* "A cut page must not raise the watermark: what it left out would not be
\* looked at again" (crawler.go:215): the posts the limit cut off stay above
\* the watermark until somebody has indexed or queued them, across the stop
\* that follows the cut and the next start.  The queue takes everything here.
CutPostsStayAhead == dropped = {} => cut \cap Passed \subseteq kept \cup queued

\* Every new post is passed sooner or later, whatever else is published.
CatchesUp == \A i \in Oldest .. Newest : latest >= i ~> watermark >= i
=============================================================================
