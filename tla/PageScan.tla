------------------------------ MODULE PageScan ------------------------------
(***************************************************************************)
(* PostsInRange (internal/adapter/danbooru/danbooru.go): a range is read   *)
(* page by page from its top, each page asking for ids below the lowest    *)
(* one of the page before, while posts go on being published.  Entries     *)
(* without an id are left out by fetch, after the site counted them.       *)
(***************************************************************************)
EXTENDS Integers, FiniteSets, FiniteSetsExt

CONSTANTS
    MaxPost,     \* bound on post ids
    PageSize     \* 200 in the code

PageScanAssumption == MaxPost \in Nat \ {0} /\ PageSize \in Nat \ {0}

VARIABLES
    posts,       \* ids on the site
    nameless,    \* those whose entries come without an id
    bounds,      \* <<lowerID, upperID>> of the range
    cursor,
    found,       \* ids read, and how often
    scanning     \* "page", "done" or "failed"

pagescan == <<posts, nameless, bounds, cursor, found, scanning>>

Wanted == bounds[1] .. bounds[2]

-----------------------------------------------------------------------------
\* The site: newest first, at most a page.
Matching == {p \in posts : bounds[1] <= p /\ p < cursor}
Listed == {p \in Matching : Cardinality({q \in Matching : q > p}) < PageSize}

Fetched == Listed \ nameless

\* The scan is over at the foot of the range, or with a page that is short.
LastPage(ids) == Min(ids) <= bounds[1] \/ Cardinality(ids) < PageSize

NextCursor_Skips(ids) == Min(ids) - 1
NextCursor(ids) == Min(ids)

FetchPage ==
    /\ scanning = "page"
    /\ cursor > bounds[1]
    /\ found' = [p \in 1 .. MaxPost |-> IF p \in Fetched THEN found[p] + 1 ELSE found[p]]
    /\ IF Fetched = {} THEN scanning' = "done" /\ UNCHANGED cursor
       ELSE /\ scanning' = IF LastPage(Fetched) THEN "done" ELSE "page"
            /\ cursor' = NextCursor(Fetched)
    /\ UNCHANGED <<posts, nameless, bounds>>

ScanEnds ==
    /\ scanning = "page" /\ cursor <= bounds[1]
    /\ scanning' = "done"
    /\ UNCHANGED <<posts, nameless, bounds, cursor, found>>

\* All attempts of a page failed: processRange reports the range as failed.
ScanFails ==
    /\ scanning = "page"
    /\ scanning' = "failed"
    /\ UNCHANGED <<posts, nameless, bounds, cursor, found>>

Publish ==
    /\ scanning = "page"
    /\ Max(posts) < MaxPost
    /\ posts' = posts \cup {Max(posts) + 1}
    /\ UNCHANGED <<nameless, bounds, cursor, found, scanning>>

-----------------------------------------------------------------------------
PageScanInit ==
    /\ posts \in (SUBSET (1 .. MaxPost)) \ {{}} /\ nameless \in SUBSET posts
    /\ bounds \in {b \in (1 .. MaxPost) \X (1 .. MaxPost) : b[1] <= b[2] /\ b[2] <= Max(posts)}
    /\ cursor = bounds[2] + 1
    /\ found = [p \in 1 .. MaxPost |-> 0] /\ scanning = "page"

PageScanNext == FetchPage \/ ScanEnds \/ ScanFails \/ Publish

-----------------------------------------------------------------------------
PageScanTypeOK ==
    /\ posts \subseteq 1 .. MaxPost /\ nameless \subseteq posts
    /\ cursor \in 1 .. MaxPost + 1 /\ found \in [1 .. MaxPost -> Nat]
    /\ scanning \in {"page", "done", "failed"}

\* A range that was read to its end is read completely and each post once,
\* whatever is published meanwhile: the range will be closed for good.
ScanIsComplete ==
    /\ \A p \in 1 .. MaxPost : found[p] <= IF p \in Wanted THEN 1 ELSE 0
    /\ scanning = "done" /\ nameless = {} => \A p \in posts \cap Wanted : found[p] = 1

=============================================================================
