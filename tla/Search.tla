------------------------------- MODULE Search -------------------------------
(***************************************************************************)
(* A search (internal/app/search.go) over the flat index (candidates and   *)
(* rescore of internal/adapter/flatindex, scan.go) while images are stored *)
(* and appended, as the central node answers it.                           *)
(*                                                                         *)
(* A vector is a number and its score is how near it is to the query's;    *)
(* its code keeps half of it, as the code in the file keeps the signs.     *)
(* The slots are scanned by several goroutines, each keeping the nearest   *)
(* of its part; sorting them is unstable, so equals are dropped at random. *)
(***************************************************************************)
EXTENDS Integers, FiniteSets, Sequences

CONSTANTS
    Submissions,   \* what nodes submit: [id, vec, hash]
    QueryVec, OlderVec,   \* what the embedding worker makes of the picture, now and with older weights
    QueryHash, Threshold,
    Want, Candidates, Limit,   \* slots scanned for, matches asked for, hits answered
    Scanners,      \* goroutines of a scan
    MaxSlots, MaxSearches,
    Gone

NoHash == -1

SearchAssumption ==   \* the worker hashes every picture it embeds
    /\ IsFiniteSet(Submissions)
    /\ \A s \in Submissions : s.id \in Nat /\ s.vec \in Nat /\ s.hash \in Nat \cup {NoHash}
    /\ {QueryVec, OlderVec, QueryHash, Threshold, MaxSlots, MaxSearches} \subseteq Nat
    /\ {Limit, Candidates, Want, Scanners} \subseteq Nat \ {0}
    /\ Limit <= Candidates /\ Candidates <= Want
    /\ Gone \notin Int

VARIABLES
    vectors,       \* image_vectors, by image
    hashes,        \* images.phash, by image
    slots,         \* the index: [id, code]
    pending,       \* a point backed up and not yet appended
    cache,         \* query_cache's row for the picture, or Gone
    step,
    query,         \* [vec, hash] of the search
    found, upTo,   \* slots the scan came up with, out of how many
    matches,       \* [id, score], best first
    hits,          \* [id, score, distance, exact], best first
    searches,
    changed        \* ghost: images stored or deleted since the search began

files == <<vectors, hashes, slots, pending>>
searching == <<step, query, found, upTo, matches, hits, searches>>
search == <<files, cache, searching, changed>>

Images == {s.id : s \in Submissions}
Distance(a, b) == IF a < b THEN b - a ELSE a - b
Code(v) == v \div 2
NoQuery == [vec |-> 0, hash |-> NoHash]

-----------------------------------------------------------------------------
(* Beside the search. *)

\* Submit, up to the backup; also of an image that is there already.  One at
\* a time is enough for what a search can meet.
Store(s) ==
    /\ pending = {} /\ Len(slots) < MaxSlots
    /\ vectors' = [vectors EXCEPT ![s.id] = s.vec]
    /\ hashes' = [hashes EXCEPT ![s.id] = s.hash]
    /\ pending' = pending \cup {[id |-> s.id, code |-> Code(s.vec)]}
    /\ changed' = changed \cup {s.id}
    /\ UNCHANGED <<slots, cache, searching>>

\* An older slot of the image stays where it is.
AppendPoint(p) ==
    /\ p \in pending
    /\ pending' = pending \ {p}
    /\ slots' = Append(slots, p)
    /\ UNCHANGED <<vectors, hashes, cache, searching, changed>>

\* Somebody deletes an image; the index does not know.
Delete(i) ==
    /\ vectors[i] # Gone /\ \A p \in pending : p.id # i
    /\ vectors' = [vectors EXCEPT ![i] = Gone]
    /\ hashes' = [hashes EXCEPT ![i] = Gone]
    /\ changed' = changed \cup {i}
    /\ UNCHANGED <<slots, pending, cache, searching>>

-----------------------------------------------------------------------------
(* queryVector *)

Usable_Any(c) == TRUE
\* A row from before hashes were kept is computed again.
Usable(c) == c.hash # NoHash

\* The cache may fail; then the picture is embedded.
CachedQuery ==
    /\ step \in {"idle", "answered"} /\ searches < MaxSearches
    /\ searches' = searches + 1 /\ changed' = {}
    /\ \/ cache # Gone /\ Usable(cache) /\ query' = cache /\ step' = "scan"
       \/ query' = NoQuery /\ step' = "embed"
    /\ hits' = << >> /\ upTo' = 0
    /\ UNCHANGED <<files, cache, found, matches>>

EmbedQuery ==
    /\ step = "embed"
    /\ \/ query' = [vec |-> QueryVec, hash |-> QueryHash] /\ step' = "save"
       \/ UNCHANGED query /\ step' = "idle"
    /\ UNCHANGED <<files, cache, found, upTo, matches, hits, searches, changed>>

\* ON CONFLICT DO UPDATE SET phash: the vector of an older row stays.
Entry == IF cache = Gone THEN query ELSE [cache EXCEPT !.hash = query.hash]

SaveQuery ==
    /\ step = "save"
    /\ cache' \in {cache, Entry}
    /\ step' = "scan"
    /\ UNCHANGED <<files, query, found, upTo, matches, hits, searches, changed>>

-----------------------------------------------------------------------------
(* The index. *)

Far(s) == Distance(slots[s].code, Code(query.vec))
Farthest(set) == {s \in set : \A t \in set : Far(t) <= Far(s)}

\* Part g of the slots, all of one length but the last.
Part(g) == LET per == (Len(slots) + Scanners - 1) \div Scanners
           IN {s \in 1 .. Len(slots) : (g - 1) * per < s /\ s <= g * per}

Kept_Less(best, s) ==
    IF Cardinality(best) < Want - 1 THEN {best \cup {s}}
    ELSE {(best \cup {s}) \ {f} : f \in Farthest(best \cup {s})}
\* One slot more; beyond Want one of the farthest goes.
Kept(best, s) ==
    IF Cardinality(best) < Want THEN {best \cup {s}}
    ELSE {(best \cup {s}) \ {f} : f \in Farthest(best \cup {s})}

\* What scanRange can return for a part.
ScanRange(part) ==
    LET kept[s \in 0 .. Len(slots)] ==
            IF s = 0 THEN {{}}
            ELSE IF s \notin part THEN kept[s - 1]
            ELSE UNION {Kept(best, s) : best \in kept[s - 1]}
    IN kept[Len(slots)]

\* The parts together: by distance, then by slot.
Nearest(all) ==
    {s \in all : Cardinality({t \in all : Far(t) < Far(s) \/ (Far(t) = Far(s) /\ t < s)}) < Want}

Scan ==
    /\ step = "scan"
    /\ LET ranges == [g \in 1 .. Scanners |-> ScanRange(Part(g))] IN
       \E all \in SUBSET (1 .. Len(slots)) :
         /\ \A g \in 1 .. Scanners : all \cap Part(g) \in ranges[g]
         /\ found' = Nearest(all)
    /\ upTo' = Len(slots)
    /\ step' = "rescore"
    /\ UNCHANGED <<files, cache, query, matches, hits, searches, changed>>

Ids == {slots[s].id : s \in found}

\* A set sorted and cut: its first n, each by the number of those before it.
First(set, order, n) ==
    [k \in 1 .. (IF n < Cardinality(set) THEN n ELSE Cardinality(set)) |->
        CHOOSE x \in set : Cardinality({y \in set : <<y, x>> \in order}) = k - 1]

Scored == {[id |-> i, score |-> 0 - Distance(vectors[i], query.vec)] : i \in {j \in Ids : vectors[j] # Gone}}
HigherScore(a, b) == a.score > b.score \/ (a.score = b.score /\ a.id < b.id)

\* VectorsByIDs and rescore: the stored vectors, whatever the slot was for.
Rescore ==
    /\ step = "rescore"
    /\ matches' = First(Scored, {q \in Scored \X Scored : HigherScore(q[1], q[2])}, Candidates)
    /\ step' = "rank" /\ found' = {}
    /\ UNCHANGED <<files, cache, query, upTo, hits, searches, changed>>

-----------------------------------------------------------------------------
(* ImagesByIDs, HammingDistance and rerank. *)

Hit(m) ==
    LET h == hashes[m.id]
        d == IF NoHash \in {h, query.hash} THEN -1 ELSE Distance(h, query.hash)
    IN [id |-> m.id, score |-> m.score, distance |-> d, exact |-> d \in 0 .. Threshold]

Place(h) == CHOOSE k \in DOMAIN matches : matches[k].id = h.id

Better(a, b) ==
    IF a.exact # b.exact THEN a.exact
    ELSE IF a.exact /\ a.distance # b.distance THEN a.distance < b.distance
    ELSE a.score > b.score \/ (a.score = b.score /\ Place(a) < Place(b))

Ranked_CutFirst ==
    LET all == {Hit(matches[k]) : k \in {j \in DOMAIN matches : j <= Limit /\ hashes[matches[j].id] # Gone}}
    IN First(all, {q \in all \X all : Better(q[1], q[2])}, Limit)
\* Ranked first, cut afterwards.
Ranked ==
    LET all == {Hit(matches[k]) : k \in {j \in DOMAIN matches : hashes[matches[j].id] # Gone}}
    IN First(all, {q \in all \X all : Better(q[1], q[2])}, Limit)

Rank ==
    /\ step = "rank"
    /\ hits' = Ranked
    /\ step' = "answered" /\ matches' = << >>
    /\ UNCHANGED <<files, cache, query, found, upTo, searches, changed>>

ExactMatch == Len(hits) > 0 /\ hits[1].exact

SearchFails ==
    /\ step \in {"scan", "rescore", "rank"}
    /\ step' = "idle" /\ found' = {} /\ matches' = << >>
    /\ UNCHANGED <<files, cache, query, upTo, hits, searches, changed>>

-----------------------------------------------------------------------------
SearchInit ==
    /\ vectors = [i \in Images |-> Gone] /\ hashes = [i \in Images |-> Gone]
    /\ slots = << >> /\ pending = {}
    /\ query = NoQuery
    /\ cache \in {Gone} \cup [vec : {QueryVec, OlderVec}, hash : {NoHash, QueryHash}]
    /\ step = "idle" /\ found = {} /\ upTo = 0 /\ matches = << >> /\ hits = << >>
    /\ searches = 0 /\ changed = {}

\* Bound: nothing more is stored after the last search.
Over == searches = MaxSearches /\ step \in {"idle", "answered"}

SearchNext ==
    \/ /\ ~Over
       /\ \/ \E s \in Submissions : Store(s)
          \/ \E p \in pending : AppendPoint(p)
          \/ \E i \in Images : Delete(i)
    \/ CachedQuery \/ EmbedQuery \/ SaveQuery \/ Scan \/ Rescore \/ Rank \/ SearchFails

-----------------------------------------------------------------------------
Under == {"scan", "rescore", "rank", "answered"}

SearchTypeOK ==
    /\ DOMAIN vectors = Images /\ DOMAIN hashes = Images
    /\ Len(slots) + Cardinality(pending) <= MaxSlots
    /\ step \in Under \cup {"idle", "embed", "save"}
    /\ found \subseteq 1 .. upTo /\ upTo <= Len(slots)
    /\ Len(matches) <= Candidates /\ Len(hits) <= Limit

\* The scan returns as many slots as asked for, if there are, and none of
\* the others is nearer, however the slots fall to the goroutines.
NothingNearerIsMissed ==
    step = "rescore" =>
        /\ Cardinality(found) = (IF upTo < Want THEN upTo ELSE Want)
        /\ \A s \in found, t \in 1 .. upTo : Far(t) < Far(s) => t \in found

\* A second search of a picture is ranked by its hash like the first: "the
\* first time it says it is the same picture and the second time it does
\* not know" (images.go:462-464) does not happen; and with the vector the
\* worker makes, unless the row is older than its weights.
SecondIsLikeTheFirst ==
    step \in Under =>
        /\ query.hash = QueryHash
        /\ query.vec = QueryVec \/ (cache # Gone /\ cache.vec = OlderVec)

\* The original is found: an image with nearly the same hash, one of whose
\* slots is among the nearest, and than which not too many images score
\* higher, comes first, though others are nearer by their vector.
Original(i) ==
    /\ vectors[i] # Gone /\ hashes[i] # NoHash /\ Distance(hashes[i], query.hash) <= Threshold
    /\ \E s \in 1 .. upTo :
         /\ slots[s].id = i
         /\ Cardinality({t \in 1 .. upTo : Far(t) <= Far(s)}) <= Want
    /\ Cardinality({j \in Images : \/ j \in changed \/ j = i
                                   \/ vectors[j] # Gone /\ Distance(vectors[j], query.vec) <= Distance(vectors[i], query.vec)})
         <= Candidates

OriginalIsFound ==
    step = "answered" /\ (\E i \in Images \ changed : Original(i)) => ExactMatch
=============================================================================
