------------------------------ MODULE MCImages ------------------------------
(* The way of an image into the stores and back out of them, for TLC: the    *)
(* submission with its rebuild (Ingest), a node's repeated requests for one  *)
(* (HttpIngest), the files of the flat index (FlatIndex) and a search        *)
(* (Search).  Each part has the stores in the detail it needs and they share *)
(* no variable, so a behaviour moves one of them, chosen at its start.       *)
EXTENDS Ingest, Sequences, TLC

CONSTANTS
    p1, p2, m1, m2, s1, s2, n1, n2, a, b, control, reembed, doctor,
    Node, Calls, Retries, Nobody,
    Image, Writer, Reader, MaxSlots, MaxBatch,
    QueryVec, OlderVec, QueryHash, Threshold, Want, Candidates, Limit,
    Scanners, SearchedSlots, MaxSearches, Gone

\* An image submitted twice, the second time with another vector, and another one.
Submissions ==
    {[id |-> 1, vec |-> 1, hash |-> 0], [id |-> 1, vec |-> 3, hash |-> 0],
     [id |-> 2, vec |-> 0, hash |-> 5]}

VARIABLES
    part,   \* the part that moves
    posting, call, try, request, kept, entry, mark, wrote, verdict, crossed,
    codes, ids, diskCodes, diskIds, count, adding, phase, acked, mishap,
    backup, hashes, slots, pending, cache, step, query, found, upTo, matches,
    hits, searches, changed

Delivery == INSTANCE HttpIngest
Files == INSTANCE FlatIndex
Query == INSTANCE Search WITH vectors <- backup, MaxSlots <- SearchedSlots

ASSUME PartsAssumption ==
    Delivery!HttpIngestAssumption /\ Files!FlatIndexAssumption /\ Query!SearchAssumption

http == <<posting, call, try, request, kept, entry, mark, wrote, verdict, crossed>>
files == <<codes, ids, diskCodes, diskIds, count, adding, phase, acked, mishap>>
search == <<backup, hashes, slots, pending, cache, step, query, found, upTo,
                  matches, hits, searches, changed>>

ImagesInit ==
    /\ part \in {"ingest", "http", "files", "search"}
    /\ part = "search" \/ cache = Gone
    /\ Init /\ Delivery!HttpInit /\ Files!FlatInit /\ Query!SearchInit

\* Submissions and rebuilds go on for ever; the calls of a node, the slots of
\* the files and the searches end with their bounds.
ImagesNext ==
    /\ UNCHANGED part
    /\ \/ part = "ingest" /\ Next /\ UNCHANGED <<http, files, search>>
       \/ part = "http" /\ Delivery!HttpNext /\ UNCHANGED <<vars, files, search>>
       \/ part = "files" /\ Files!FlatNext /\ UNCHANGED <<vars, http, search>>
       \/ part = "search" /\ Query!SearchNext /\ UNCHANGED <<vars, http, files>>
       \/ part # "ingest" /\ UNCHANGED <<vars, http, files, search>>

ImagesSpec == ImagesInit /\ [][ImagesNext]_<<part, vars, http, files, search>>

FullSymmetry ==
    Permutations({p1, p2}) \cup Permutations({m1, m2}) \cup Permutations({s1, s2})
        \cup Permutations({a, b})
-----------------------------------------------------------------------------
\* A node's submission that returned no error is in both stores, what the
\* center refused is not sent again, and repeated attempts leave backup and
\* index apart only unmarked, unless attempts of two nodes crossed.
DeliveryIsTrue ==
    part = "http" =>
        /\ Delivery!HttpTypeOK /\ Delivery!AcceptedIsStored
        /\ Delivery!RefusedIsNotRepeated /\ Delivery!MarkedAgrees

\* What Upsert reported as stored stays in both files of the index, sudden ends
\* alone never pair a code with another image's id, and no process counts slots
\* a file does not have.
FilesKeepPairs ==
    part = "files" =>
        Files!FlatTypeOK /\ Files!AckedIsKept /\ Files!PairedUnlessAnAppendFailed

\* A scan by several goroutines misses nothing nearer than what it found, an
\* original among the candidates is in the answer, and a second search of a
\* picture ranks by its hash like the first.
SearchFinds ==
    part = "search" =>
        /\ Query!SearchTypeOK /\ Query!NothingNearerIsMissed
        /\ Query!OriginalIsFound /\ Query!SecondIsLikeTheFirst
=============================================================================
