------------------------------- MODULE Reembed -------------------------------
(***************************************************************************)
(* Re-embedding (internal/app/reembed.go): the vectors of one new model    *)
(* are made from the stored thumbnails, page by page of the images that    *)
(* have one (ThumbsMissingVector, internal/adapter/postgres/images.go).    *)
(* A run may end at any call and is started again; nodes submit images     *)
(* beside it, thumbnails get lost, and a rebuild of the index is the only  *)
(* other job of the process (cmd/saucedust/webops.go).                     *)
(***************************************************************************)
EXTENDS Integers, FiniteSets

CONSTANTS
    Images,     \* bound: images have the ids 1 .. Images
    PageSize,   \* batchSize
    Mishaps     \* bound on failures, lost files and interrupted calls

ReembedAssumption == Images \in Nat /\ PageSize \in Nat \ {0} /\ Mishaps \in Nat

VARIABLES
    thumbed,    \* images whose row has a thumb_path
    onDisk,     \* thumbnails that exist
    vectored,   \* images with a vector of the model in PostgreSQL
    searchable, \* images in the model's collection
    flagged,    \* vectors with indexed_at set
    sending,    \* images a node's submission has saved and not yet indexed
    step,       \* where Run is
    mark,       \* its cursor
    page,       \* the images of the page, then those without a vector
    todo,       \* of the batch, those no goroutine has dealt with
    items,      \* embedded
    skipped,    \* counted as missing or failed in this run
    owed,       \* ghost: without a vector when the run began
    mishaps

tables == <<thumbed, onDisk, vectored, searchable, flagged, sending>>
progress == <<mark, page, todo, items, skipped, owed>>
reembed == <<tables, step, progress, mishaps>>

Image == 1 .. Images
Highest(s) == CHOOSE i \in s : \A j \in s : j <= i

-----------------------------------------------------------------------------
(* Run *)

\* EnsureCollection, CountThumbsMissingVector.
Start ==
    /\ step \in {"idle", "finished"}
    /\ owed' = thumbed \ vectored
    /\ step' = IF owed' = {} THEN "finished" ELSE "page"
    /\ mark' = 0 /\ page' = {} /\ todo' = {} /\ items' = {} /\ skipped' = {}
    /\ UNCHANGED <<tables, mishaps>>

Ahead == {i \in thumbed : i > mark}

\* ORDER BY id LIMIT
FirstOf(s) == {i \in s : Cardinality({j \in s : j < i}) < PageSize}

NextMark_After == Highest(page') + 1
NextMark == Highest(page')

\* ThumbsMissingVector asks twice: for a page of images with a thumbnail,
\* and nothing more is ahead when there is none,
ReadPage ==
    /\ step = "page"
    /\ page' = FirstOf(Ahead)
    /\ IF page' = {} THEN step' = "finished" /\ UNCHANGED mark
       ELSE step' = "missing" /\ mark' = NextMark
    /\ UNCHANGED <<tables, todo, items, skipped, owed, mishaps>>

NothingMissing_Ends == "finished"
NothingMissing == "page"

\* then for those of it that lack a vector; a page without any is passed.
ReadMissing ==
    /\ step = "missing"
    /\ todo' = page \ vectored
    /\ page' = todo' /\ items' = {}
    /\ step' = IF todo' = {} THEN NothingMissing ELSE "embed"
    /\ UNCHANGED <<tables, mark, skipped, owed, mishaps>>

\* one: read the thumbnail, embed it, check the vector.
Embed(i) ==
    /\ step = "embed" /\ i \in todo
    /\ todo' = todo \ {i}
    /\ \/ i \in onDisk /\ items' = items \cup {i} /\ UNCHANGED <<skipped, mishaps>>
       \/ i \notin onDisk /\ skipped' = skipped \cup {i} /\ UNCHANGED <<items, mishaps>>
       \/ /\ mishaps < Mishaps /\ mishaps' = mishaps + 1
          /\ skipped' = skipped \cup {i} /\ UNCHANGED items
    /\ UNCHANGED <<tables, step, mark, page, owed>>

BatchEmbedded ==
    /\ step = "embed" /\ todo = {}
    /\ step' = IF items = {} THEN "page" ELSE "save"
    /\ UNCHANGED <<tables, progress, mishaps>>

\* PostgreSQL first,
SaveVectorBatch ==
    /\ step = "save"
    /\ vectored' = vectored \cup items
    /\ flagged' = flagged \ items
    /\ step' = "upsert"
    /\ UNCHANGED <<thumbed, onDisk, searchable, sending, progress, mishaps>>

\* then the index,
Upsert ==
    /\ step = "upsert"
    /\ searchable' = searchable \cup items
    /\ step' = "flag"
    /\ UNCHANGED <<thumbed, onDisk, vectored, flagged, sending, progress, mishaps>>

Flags_WholePage == page
Flags == items

\* then the mark: MarkIndexedBatch sets it on the vectors there are.
MarkIndexedBatch ==
    /\ step = "flag"
    /\ flagged' = flagged \cup (Flags \cap vectored)
    /\ step' = "page"
    /\ UNCHANGED <<thumbed, onDisk, vectored, searchable, sending, progress, mishaps>>

Resting == {"idle", "finished"}

\* An error of any call, a cancelled context, a crash.
Interrupt ==
    /\ step \notin Resting /\ mishaps < Mishaps
    /\ mishaps' = mishaps + 1
    /\ step' = "idle"
    /\ UNCHANGED <<tables, progress>>

-----------------------------------------------------------------------------
(* Beside it. *)

\* Ingest.Submit of an image that is not there yet or lacks the vector:
\* thumbnail, row and, from a node that has the model already, vector.
Submit(i) ==
    /\ i \notin vectored
    /\ thumbed' = thumbed \cup {i} /\ onDisk' = onDisk \cup {i}
    /\ \/ vectored' = vectored \cup {i} /\ sending' = sending \cup {i}
       \/ i \notin thumbed /\ UNCHANGED <<vectored, sending>>
    /\ UNCHANGED <<searchable, flagged, step, progress, mishaps>>

\* Its second half, or its failure.
SubmitEnds(i) ==
    /\ i \in sending
    /\ sending' = sending \ {i}
    /\ \/ searchable' = searchable \cup {i} /\ flagged' = flagged \cup {i} /\ UNCHANGED mishaps
       \/ mishaps < Mishaps /\ mishaps' = mishaps + 1 /\ UNCHANGED <<searchable, flagged>>
    /\ UNCHANGED <<thumbed, onDisk, vectored, step, progress>>

FileLost(i) ==
    /\ i \in onDisk /\ mishaps < Mishaps
    /\ onDisk' = onDisk \ {i} /\ mishaps' = mishaps + 1
    /\ UNCHANGED <<thumbed, vectored, searchable, flagged, sending, step, progress>>

\* RebuildIndex, as a whole: webOps runs one job at a time.
Rebuild ==
    /\ step \in Resting /\ vectored \ flagged # {}
    /\ searchable' = searchable \cup (vectored \ flagged)
    /\ flagged' = vectored
    /\ UNCHANGED <<thumbed, onDisk, vectored, sending, step, progress, mishaps>>

-----------------------------------------------------------------------------
ReembedInit ==
    /\ thumbed \in SUBSET Image /\ onDisk = thumbed
    /\ vectored \in SUBSET thumbed /\ searchable = vectored /\ flagged = vectored
    /\ sending = {} /\ step = "idle" /\ mark = 0 /\ page = {} /\ todo = {} /\ items = {}
    /\ skipped = {} /\ owed = {} /\ mishaps = 0

RunStep ==
    \/ ReadPage \/ ReadMissing \/ (\E i \in Image : Embed(i)) \/ BatchEmbedded
    \/ SaveVectorBatch \/ Upsert \/ MarkIndexedBatch

ReembedNext ==
    \/ Start \/ RunStep \/ Interrupt \/ Rebuild
    \/ \E i \in Image : Submit(i) \/ SubmitEnds(i) \/ FileLost(i)

-----------------------------------------------------------------------------
\* Types; a vector needs the image's row, a mark its vector.
ReembedTypeOK ==
    /\ onDisk \subseteq thumbed /\ vectored \subseteq thumbed /\ flagged \subseteq vectored
    /\ step \in {"idle", "page", "missing", "embed", "save", "upsert", "flag", "finished"}
    /\ mark \in 0 .. Images /\ items \subseteq Image /\ todo \subseteq page
    /\ mishaps \in 0 .. Mishaps

\* A run that came to its end has left out nothing that lacked a vector when
\* it began, but for what it counts as missing or failed: pages of images
\* that all have one are passed, not taken for the end.
RunCoversAll == step = "finished" => owed \subseteq vectored \cup skipped

\* An interrupted run leaves no image marked as indexed that cannot be found.
FlaggedIsSearchable == flagged \subseteq searchable

\* With runs interrupted and started again, submissions beside them and a
\* rebuild once in a while, every image that has a thumbnail is searchable in
\* the end: what a run saved and did not index, the rebuild picks up.
ThumbsBecomeSearchable == <>[](thumbed \cap onDisk \subseteq searchable)
=============================================================================
