------------------------------- MODULE Ingest -------------------------------
(***************************************************************************)
(* The one door into the stores: Ingest.Submit and RebuildIndex            *)
(* (internal/app/ingest.go) over the tables images and image_vectors       *)
(* (internal/adapter/postgres/images.go) and the search index, with the    *)
(* duplicate check IndexBatch makes before a submission                    *)
(* (internal/app/indexer.go).                                              *)
(*                                                                         *)
(* Submissions of several nodes run beside each other and beside a         *)
(* rebuild; each call of one is a step, and each may be its last: an error *)
(* of the store, a full index, a client that hung up, a crash.  A batch of *)
(* statements is one implicit transaction.  Vector values are left out: an *)
(* index entry is there or not.                                            *)
(***************************************************************************)
EXTENDS Integers, FiniteSets, FiniteSetsExt

CONSTANTS
    Post,       \* posts; their images have one id each
    Model,      \* the active embedding models, one collection each
    Submitter,  \* concurrent submissions
    Batch,      \* batchSize of a rebuild
    None

ASSUME IngestAssumption ==
    /\ Batch \in Nat \ {0}
    /\ None \notin Model
    /\ IsFiniteSet(Post)

VARIABLES
    images,   \* posts with a row in images
    vectors,  \* <<post, model>> with a row in image_vectors
    marked,   \* those of them whose indexed_at is set
    index,    \* <<post, model>> in the search index
    lost,     \* ghost: those marked before the index was lost, and not saved since
    settled,  \* posts whose range is completed or whose retry succeeded
    pc,       \* submission -> its next call
    batch,    \* submission -> the posts it carries
    todo,     \* submission -> models whose collection is not yet written
    bad,      \* submission -> a collection's Upsert has failed
    rebuild   \* RebuildIndex: next call, models left, page, and two ghosts

vars == <<images, vectors, marked, index, lost, settled, pc, batch, todo, bad, rebuild>>
stores == <<images, vectors, marked, index, lost>>
submissions == <<pc, batch, todo, bad>>

Pairs(P, M) == P \X M

-----------------------------------------------------------------------------
(* Submit, and the check before it. *)

End(s) ==
    /\ pc' = [pc EXCEPT ![s] = "idle"]
    /\ batch' = [batch EXCEPT ![s] = {}]
    /\ todo' = [todo EXCEPT ![s] = {}]
    /\ bad' = [bad EXCEPT ![s] = FALSE]

Existing_RowOnly(p) == p \in images

\* ExistingPostIDs: the row, and a vector of every model.  Whether the
\* vectors are indexed is not asked.
Existing(p) == p \in images /\ \A m \in Model : <<p, m>> \in vectors

\* IndexBatch: existing posts are done, the others downloaded, embedded and
\* submitted.
IndexBatch(s) ==
    /\ pc[s] = "idle"
    /\ \E P \in (SUBSET (Post \ settled)) \ {{}} :
         LET work == {p \in P : ~Existing(p)} IN
         /\ settled' = settled \cup (P \ work)
         /\ batch' = [batch EXCEPT ![s] = work]
         /\ pc' = [pc EXCEPT ![s] = IF work = {} THEN "idle" ELSE "images"]
    /\ UNCHANGED <<stores, todo, bad, rebuild>>

Rows(s) == images \cup batch[s]

UpsertImages(s) ==
    /\ pc[s] = "images"
    /\ images' = Rows(s)
    /\ pc' = [pc EXCEPT ![s] = "vectors"]
    /\ UNCHANGED <<vectors, marked, index, lost, settled, batch, todo, bad, rebuild>>

Backup_ErrorIgnored(s) == vectors

Backup(s) == vectors \cup Pairs(batch[s], Model)

\* ON CONFLICT ... SET vector = EXCLUDED.vector, indexed_at = NULL
SaveVectorBatch(s) ==
    /\ pc[s] = "vectors"
    /\ vectors' = Backup(s)
    /\ marked' = marked \ Pairs(batch[s], Model)
    /\ lost' = lost \ Pairs(batch[s], Model)
    /\ pc' = [pc EXCEPT ![s] = "index"]
    /\ todo' = [todo EXCEPT ![s] = Model]
    /\ UNCHANGED <<images, index, settled, batch, bad, rebuild>>

\* upsertCollections: a goroutine per collection, all of them waited for.
UpsertCollection(s, m) ==
    /\ pc[s] = "index"
    /\ m \in todo[s]
    /\ todo' = [todo EXCEPT ![s] = @ \ {m}]
    /\ \/ index' = index \cup Pairs(batch[s], {m}) /\ UNCHANGED bad
       \/ bad' = [bad EXCEPT ![s] = TRUE] /\ UNCHANGED index
    /\ UNCHANGED <<images, vectors, marked, lost, settled, pc, batch, rebuild>>

Indexed_Anyway(s) == todo[s] = {}

\* Whether upsertCollections returns without an error.
Indexed(s) == todo[s] = {} /\ ~bad[s]

\* MarkIndexedBatch; when it fails that is only logged.  The answer may not
\* reach the node (then the post counts as failed and comes again).
MarkIndexedBatch(s) ==
    /\ pc[s] = "index"
    /\ Indexed(s)
    /\ marked' \in {marked, marked \cup (Pairs(batch[s], Model) \cap vectors)}
    /\ settled' \in {settled, settled \cup batch[s]}
    /\ End(s)
    /\ UNCHANGED <<images, vectors, index, lost, rebuild>>

\* The submission ends in an error: the posts count as failed.
Fail(s) ==
    /\ pc[s] # "idle"
    /\ End(s)
    /\ UNCHANGED <<stores, settled, rebuild>>

-----------------------------------------------------------------------------
(* RebuildIndex: model after model, page after page of what is pending. *)

\* Ghosts: the vectors a rebuild started from, and those of them it is good for.
NoRebuild == [at |-> "idle", left |-> {}, model |-> None, page |-> {},
              before |-> {}, owed |-> {}]

StartRebuild ==
    /\ rebuild.at \in {"idle", "done"}
    /\ rebuild' = [NoRebuild EXCEPT !.at = "next", !.left = Model,
                                  !.before = vectors, !.owed = vectors \ lost]
    /\ UNCHANGED <<stores, settled, submissions>>

NextModel ==
    /\ rebuild.at = "next"
    /\ IF rebuild.left = {}
       THEN rebuild' = [rebuild EXCEPT !.at = "done"]
       ELSE \E m \in rebuild.left :
              rebuild' = [rebuild EXCEPT !.at = "pending", !.left = @ \ {m}, !.model = m]
    /\ UNCHANGED <<stores, settled, submissions>>

Pending(m) == {p \in Post : <<p, m>> \in vectors \ marked}

\* WHERE indexed_at IS NULL ... LIMIT: up to Batch of them.
Page(m) ==
    IF Cardinality(Pending(m)) <= Batch THEN {Pending(m)}
    ELSE kSubset(Batch, Pending(m))

PendingVectors ==
    /\ rebuild.at = "pending"
    /\ \E P \in Page(rebuild.model) :
         rebuild' = [rebuild EXCEPT !.page = P, !.at = IF P = {} THEN "next" ELSE "upsert"]
    /\ UNCHANGED <<stores, settled, submissions>>

RebuildUpsert ==
    /\ rebuild.at = "upsert"
    /\ index' = index \cup Pairs(rebuild.page, {rebuild.model})
    /\ rebuild' = [rebuild EXCEPT !.at = "mark"]
    /\ UNCHANGED <<images, vectors, marked, lost, settled, submissions>>

Marks_AllModels(P, m) == Pairs(P, Model) \cap vectors

\* MarkIndexedBatch(ids, {model}) of a rebuild
Marks(P, m) == Pairs(P, {m}) \cap vectors

RebuildMark ==
    /\ rebuild.at = "mark"
    /\ marked' = marked \cup Marks(rebuild.page, rebuild.model)
    /\ rebuild' = [rebuild EXCEPT !.at = "pending", !.page = {}]
    /\ UNCHANGED <<images, vectors, index, lost, settled, submissions>>

\* An error or a crash ends the rebuild.
RebuildFails ==
    /\ rebuild.at \notin {"idle", "done"}
    /\ rebuild' = NoRebuild
    /\ UNCHANGED <<stores, settled, submissions>>

\* The index's storage is deleted, or SAUCEDUST_INDEX changed, between runs
\* of the control process.  Nothing in the program clears indexed_at.
LoseIndex ==
    /\ \A s \in Submitter : pc[s] = "idle"
    /\ rebuild.at \in {"idle", "done"}
    /\ index' = {}
    /\ lost' = marked
    /\ rebuild' = NoRebuild
    /\ UNCHANGED <<images, vectors, marked, settled, submissions>>

-----------------------------------------------------------------------------
Init ==
    /\ images = {} /\ vectors = {} /\ marked = {} /\ index = {}
    /\ lost = {} /\ settled = {}
    /\ pc = [s \in Submitter |-> "idle"]
    /\ batch = [s \in Submitter |-> {}]
    /\ todo = [s \in Submitter |-> {}]
    /\ bad = [s \in Submitter |-> FALSE]
    /\ rebuild = NoRebuild

Submit(s) ==
    \/ IndexBatch(s) \/ UpsertImages(s) \/ SaveVectorBatch(s)
    \/ \E m \in Model : UpsertCollection(s, m)
    \/ MarkIndexedBatch(s)

RebuildStep == NextModel \/ PendingVectors \/ RebuildUpsert \/ RebuildMark

Next ==
    \/ \E s \in Submitter : Submit(s) \/ Fail(s)
    \/ StartRebuild \/ RebuildStep \/ RebuildFails
    \/ LoseIndex

Spec == Init /\ [][Next]_vars

-----------------------------------------------------------------------------
\* Types, and the foreign keys: a vector has its image's row, a mark its
\* vector, also while submissions and a rebuild overlap.
TypeOK ==
    /\ images \subseteq Post /\ settled \subseteq Post
    /\ vectors \subseteq Pairs(images, Model)
    /\ marked \subseteq vectors /\ lost \subseteq marked
    /\ index \subseteq Pairs(Post, Model)
    /\ pc \in [Submitter -> {"idle", "images", "vectors", "index"}]
    /\ batch \in [Submitter -> SUBSET Post]
    /\ todo \in [Submitter -> SUBSET Model]
    /\ bad \in [Submitter -> BOOLEAN]
    /\ rebuild.at \in {"idle", "next", "pending", "upsert", "mark", "done"}
    /\ rebuild.left \subseteq Model /\ rebuild.page \subseteq Post

\* The order of Submit's writes: whatever call was the last, no vector is
\* in the index that PostgreSQL could not restore.
IndexIsBackedUp == index \subseteq vectors

\* A vector marked as indexed is in the index, however submissions of the
\* same post and a rebuild of its model overlap; only marks from before a loss
\* of the index lie, and those are gone once the post is submitted again.
MarkedIsIndexed == marked \subseteq index \cup lost

\* A post nobody will process again has a vector of every model: it can be
\* found once the index is rebuilt, and none was skipped for its row alone.
SettledIsBackedUp == Pairs(settled, Model) \subseteq vectors

\* A rebuild that ran to its end has put everything it found into the index,
\* what was submitted meanwhile included; lost marks excepted.
RebuiltIsComplete == rebuild.at = "done" => rebuild.owed \subseteq index

\* "Even if the index is lost there is no need to crawl again"
\* (ingest.go:232): a finished rebuild leaves no vector out, lost or not.
LostIndexIsRebuilt == rebuild.at = "done" => rebuild.before \subseteq index

\* "What did not get in comes again" (collection.go:72), "returns
\* only posts that are completely done" (images.go:94): a post that is
\* settled is in the index.
SettledIsIndexed == Pairs(settled, Model) \subseteq index
=============================================================================
