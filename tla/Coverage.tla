------------------------------ MODULE Coverage ------------------------------
(***************************************************************************)
(* Holes between the rows of crawl_ranges: CoverageGaps finds them, and    *)
(* `ranges fill` or the console's fill makes rows for them with            *)
(* PlanGapRanges (internal/adapter/postgres/ranges.go).  The two are       *)
(* separate statements, several operators may be at it, and each chooses   *)
(* a size for the rows.  A row or a gap is the pair of its lowest and      *)
(* highest id.                                                             *)
(***************************************************************************)
EXTENDS Integers, FiniteSets

CONSTANTS
    MaxId,      \* ids are 1 .. MaxId
    Operator,
    Sizes,      \* -range-size, the configured size
    Limits      \* -limit of the commands, 20, 100 or 1000 in the code

CoverageAssumption ==
    MaxId \in Nat /\ Sizes \subseteq Nat \ {0} /\ Limits \subseteq Nat \ {0}

VARIABLES
    rows,      \* the ranges of the table
    seen,      \* operator -> the gaps it has read
    used       \* sizes rows were planned with

coverage == <<rows, seen, used>>

Span == {i \in (1 .. MaxId) \X (1 .. MaxId) : i[1] <= i[2]}
Ids(i) == i[1] .. i[2]
Covered(rs) == UNION {Ids(r) : r \in rs}
Disjoint(rs) == \A r, q \in rs : r # q => Ids(r) \cap Ids(q) = {}

-----------------------------------------------------------------------------
(* The query: each row beside the one before it, from the top. *)

Before(q, r) == q[2] > r[2] \/ (q[2] = r[2] /\ q[1] > r[1])

Lag(r, q) ==
    /\ q \in rows /\ Before(q, r)
    /\ \A s \in rows : Before(s, r) => s = q \/ Before(s, q)

GapBelow_Touching(q, r) == q[1] >= r[2] + 1

GapBelow(q, r) == q[1] > r[2] + 1

Gaps == {<<n[2][2] + 1, n[1][1] - 1>> :
            n \in {pair \in rows \X rows : Lag(pair[2], pair[1]) /\ GapBelow(pair[1], pair[2])}}

\* ORDER BY gap_from DESC LIMIT n.
Top(gaps, n) == {g \in gaps : Cardinality({h \in gaps : h[1] > g[1]}) < n}

CoverageGaps(o) ==
    /\ seen[o] = {}
    /\ \E n \in Limits : seen' = [seen EXCEPT ![o] = Top(Gaps, n)]
    /\ seen'[o] # {}
    /\ UNCHANGED <<rows, used>>

-----------------------------------------------------------------------------
(* The plan: from the top of a gap down, the last row cut at its foot. *)

Foot_Unclamped(gap, upper, size) == IF upper - size < 0 THEN 1 ELSE upper - size + 1

Foot(gap, upper, size) ==
    IF upper - size + 1 < gap[1] THEN gap[1] ELSE upper - size + 1

Uppers_NotLast(gap, size) ==
    {u \in gap[1] + 1 .. gap[2] : (gap[2] - u) % size = 0}

Uppers(gap, size) == {u \in gap[1] .. gap[2] : (gap[2] - u) % size = 0}

Planned(gap, size) == {<<Foot(gap, u, size), u>> : u \in Uppers(gap, size)}

\* One transaction; rows of the very same bounds are left alone.
PlanGapRanges(o) ==
    /\ seen[o] # {}
    /\ \E size \in Sizes :
         /\ rows' = rows \cup UNION {Planned(gap, size) : gap \in seen[o]}
         /\ used' = used \cup {size}
    /\ seen' = [seen EXCEPT ![o] = {}]

-----------------------------------------------------------------------------
CoverageInit ==
    /\ rows \in {rs \in SUBSET Span : Disjoint(rs)}
    /\ seen = [o \in Operator |-> {}] /\ used = {}

CoverageNext == \E o \in Operator : CoverageGaps(o) \/ PlanGapRanges(o)

-----------------------------------------------------------------------------
CoverageTypeOK ==
    rows \subseteq Span /\ seen \in [Operator -> SUBSET Span] /\ used \subseteq Sizes

\* The holes the query is for: the longest runs of ids that no row has, with
\* rows above and below.
Holes ==
    {h \in Span :
        /\ Ids(h) \cap Covered(rows) = {}
        /\ h[1] - 1 \in Covered(rows) /\ h[2] + 1 \in Covered(rows)}

\* Over disjoint rows the walk over neighbours finds exactly the holes.
GapsAreHoles == Disjoint(rows) => Gaps = Holes

\* A fill covers what its operator was shown, whatever was planned between.
FillCovers ==
    [][\A o \in Operator : seen[o] # {} /\ seen'[o] = {} => Covered(seen[o]) \subseteq Covered(rows')]_coverage

\* Operators that use one size never make two rows for an id, even when they
\* fill the same gaps at the same time.
OneSizeKeepsDisjoint == Cardinality(used) <= 1 => Disjoint(rows)

\* "Does nothing where it overlaps a range that is there already"
\* (ranges.go:184-185).
FillNeverOverlaps == Disjoint(rows)
=============================================================================
