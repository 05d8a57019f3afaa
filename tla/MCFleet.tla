------------------------------ MODULE MCFleet ------------------------------
(* The work of a fleet that stays up, for TLC: ranges are settled            *)
(* (RangeLease) and new posts are passed (Catchup).  The two share no        *)
(* variable, so a behaviour moves one of them, chosen at its start; each     *)
(* brings its own fairness.                                                  *)
EXTENDS Integers, TLC

CONSTANTS
    n1, n2, w1, w2,
    Node, Worker, Latest, Floors, UniformFloors, Sizes, MaxAttempts, MaxRows, None,
    Oldest, Newest, Page, Limited

\* One worker per node.
NodeOf == (w1 :> n1) @@ (w2 :> n2)

VARIABLES
    part,   \* the part that moves
    rows, nextRow, rangesBefore, life, floor, rangesPc, lease, crawled,
    latest, watermark, before, pc, mark, page, failed, trimmed, kept, queued,
    dropped, jumped, cut

Ranges == INSTANCE RangeLease WITH before <- rangesBefore, pc <- rangesPc
Posted == INSTANCE Catchup

ranges == <<rows, nextRow, rangesBefore, life, floor, rangesPc, lease, crawled>>
posted == <<latest, watermark, before, pc, mark, page, failed, trimmed, kept, queued,
                  dropped, jumped, cut>>
all == <<part, ranges, posted>>

\* A step of one part.
InRanges(A) == part = "ranges" /\ A /\ UNCHANGED <<part, posted>>
InPosted(A) == part = "posted" /\ A /\ UNCHANGED <<part, ranges>>

FleetInit ==
    /\ part \in {"ranges", "posted"}
    /\ Ranges!Init /\ Posted!Init

FleetNext == InRanges(Ranges!SteadyNext) \/ InPosted(Posted!SteadyNext)

FleetSpec ==
    /\ FleetInit /\ [][FleetNext]_all
    \* ranges: workers are scheduled, calls have timeouts, leases expire
    /\ \A w \in Worker :
         /\ WF_all(InRanges(Ranges!Acquire(w)))
         /\ WF_all(InRanges(Ranges!Report(w) \/ Ranges!Abandon(w)))
    /\ \A n \in Node : WF_all(InRanges(Ranges!Start(n) \/ Ranges!Reregister(n)))
    /\ \A r \in Ranges!RowId :
         WF_all(InRanges(Ranges!Expire(r))) /\ WF_all(InRanges(Ranges!BackoffOver(r)))
    \* catch-up: the ticker polls, calls answer
    /\ \A n \in Node :
         /\ WF_all(InPosted(Posted!Boot(n)))
         /\ WF_all(InPosted(Posted!Proceed(n) \/ Posted!NothingNew(n)))
-----------------------------------------------------------------------------
\* Every range above the floor ends up closed or out of attempts.
RangesSettle == Ranges!RangesSettle

\* The watermark passes every new post, whatever else is published.
CatchesUp ==
    \A i \in Oldest .. Newest : part = "posted" /\ latest >= i ~> watermark >= i
=============================================================================
