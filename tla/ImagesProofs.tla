---------------------------- MODULE ImagesProofs ----------------------------
(***************************************************************************)
(* The stores of images, as MCImages composes them: the submission and the *)
(* rebuild (Ingest), for any posts, models and submissions; the repeated   *)
(* requests of a node (HttpIngest), for any nodes, calls and attempts; and *)
(* the files of the flat index (FlatIndex), for any processes, slots and   *)
(* points; and a search (Search), for any submissions, slots, goroutines   *)
(* and limits.                                                             *)
(***************************************************************************)
EXTENDS MCImages, FiniteSetTheorems, FunctionTheorems, SequenceTheorems,
        NaturalsInduction, WellFoundedInduction, TLAPS

-----------------------------------------------------------------------------
(* Ingest: what is in the index is backed up, what is settled is backed up, *)
(* and a mark tells the truth.                                              *)

\* The type invariant, with the model of a rebuild.
Typed ==
    /\ TypeOK
    /\ rebuild \in [at: {"idle", "next", "pending", "upsert", "mark", "done"},
                    left: SUBSET Model, model: Model \cup {None},
                    page: SUBSET Post, before: SUBSET (Post \X Model),
                    owed: SUBSET (Post \X Model)]
    /\ rebuild.at \in {"pending", "upsert", "mark"} => rebuild.model \in Model

\* What a submission has behind it: the rows, the backup, and the
\* collections it wrote without an error.
Submitted ==
    \A s \in Submitter :
        /\ pc[s] \in {"vectors", "index"} => batch[s] \subseteq images
        /\ pc[s] = "index" => Pairs(batch[s], Model) \subseteq vectors
        /\ pc[s] = "index" /\ ~bad[s] => Pairs(batch[s], Model \ todo[s]) \subseteq index

\* What a rebuild has behind it.
Rebuilding ==
    /\ rebuild.at \in {"upsert", "mark"} => Pairs(rebuild.page, {rebuild.model}) \subseteq vectors
    /\ rebuild.at = "mark" => Pairs(rebuild.page, {rebuild.model}) \subseteq index

IInv ==
    /\ Typed
    /\ Submitted
    /\ Rebuilding
    /\ IndexIsBackedUp
    /\ SettledIsBackedUp
    /\ MarkedIsIndexed

USE DEF Pairs, stores, submissions

\* The initial state.
LEMMA InitIInv == Init => IInv
BY DEF Init, IInv, Typed, TypeOK, Submitted, Rebuilding, IndexIsBackedUp,
       SettledIsBackedUp, MarkedIsIndexed, NoRebuild

\* A submission's steps keep every part of the invariant.
LEMMA SubmitKeepsIInv ==
    ASSUME IInv, NEW s \in Submitter, Submit(s) \/ Fail(s)
    PROVE  IInv'
<1> USE DEF IInv, Typed, TypeOK, Submitted, Rebuilding, IndexIsBackedUp,
            SettledIsBackedUp, MarkedIsIndexed
<1>1. CASE IndexBatch(s)
  <2>1. PICK P \in (SUBSET (Post \ settled)) \ {{}} :
          LET work == {p \in P : ~Existing(p)} IN
          /\ settled' = settled \cup (P \ work)
          /\ batch' = [batch EXCEPT ![s] = work]
          /\ pc' = [pc EXCEPT ![s] = IF work = {} THEN "idle" ELSE "images"]
    BY <1>1 DEF IndexBatch
  <2> DEFINE work == {p \in P : ~Existing(p)}
  <2>2. work \subseteq Post /\ P \subseteq Post
    OBVIOUS
  <2>3. Pairs(P \ work, Model) \subseteq vectors
    BY DEF Existing
  <2> HIDE DEF work
  <2>4. /\ settled' = settled \cup (P \ work)
        /\ batch' = [batch EXCEPT ![s] = work]
        /\ pc' = [pc EXCEPT ![s] = IF work = {} THEN "idle" ELSE "images"]
        /\ UNCHANGED <<stores, todo, bad, rebuild>>
    BY <1>1, <2>1 DEF IndexBatch, work
  <2>5. Typed'
    BY <2>2, <2>4
  <2>6. Submitted'
    BY <2>2, <2>4
  <2>7. SettledIsBackedUp'
    BY <2>3, <2>4
  <2> QED
    BY <2>4, <2>5, <2>6, <2>7
<1>2. CASE UpsertImages(s)
  <2>1. Typed'
    BY <1>2 DEF UpsertImages, Rows
  <2>2. Submitted'
    BY <1>2 DEF UpsertImages, Rows
  <2> QED
    BY <1>2, <2>1, <2>2 DEF UpsertImages
<1>3. CASE SaveVectorBatch(s)
  <2>1. Typed'
    BY <1>3 DEF SaveVectorBatch, Backup
  <2>2. Submitted'
    BY <1>3 DEF SaveVectorBatch, Backup
  <2>3. vectors \subseteq vectors' /\ marked' \subseteq marked
    BY <1>3 DEF SaveVectorBatch, Backup
  <2> QED
    BY <1>3, <2>1, <2>2, <2>3 DEF SaveVectorBatch
<1>4. ASSUME NEW m \in Model, UpsertCollection(s, m) PROVE IInv'
  <2>1. index' \subseteq index \cup Pairs(batch[s], {m}) /\ index \subseteq index'
    BY <1>4 DEF UpsertCollection
  <2>2. Typed'
    BY <1>4, <2>1 DEF UpsertCollection
  <2>3. Submitted'
    BY <1>4, <2>1 DEF UpsertCollection
  <2>4. IndexIsBackedUp'
    BY <1>4, <2>1 DEF UpsertCollection
  <2> QED
    BY <1>4, <2>1, <2>2, <2>3, <2>4 DEF UpsertCollection
<1>5. CASE MarkIndexedBatch(s)
  <2>1. Pairs(batch[s], Model) \subseteq index /\ Pairs(batch[s], Model) \subseteq vectors
    BY <1>5 DEF MarkIndexedBatch, Indexed
  <2>2. marked' \subseteq marked \cup (Pairs(batch[s], Model) \cap vectors)
    BY <1>5 DEF MarkIndexedBatch
  <2>3. settled' \subseteq settled \cup batch[s] /\ UNCHANGED <<images, vectors, index, lost, rebuild>>
    BY <1>5 DEF MarkIndexedBatch
  <2>4. Typed'
    BY <1>5, <2>2, <2>3 DEF MarkIndexedBatch, End
  <2>5. Submitted'
    BY <1>5, <2>3 DEF MarkIndexedBatch, End
  <2>6. SettledIsBackedUp'
    BY <2>1, <2>3
  <2>7. MarkedIsIndexed'
    BY <2>1, <2>2, <2>3
  <2> QED
    BY <2>3, <2>4, <2>5, <2>6, <2>7
<1>6. CASE Fail(s)
  <2>1. Typed'
    BY <1>6 DEF Fail, End
  <2>2. Submitted'
    BY <1>6 DEF Fail, End
  <2> QED
    BY <1>6, <2>1, <2>2 DEF Fail
<1> QED
  BY <1>1, <1>2, <1>3, <1>4, <1>5, <1>6 DEF Submit

\* So do a rebuild's steps and the loss of the index.
LEMMA RebuildKeepsIInv ==
    ASSUME IInv, StartRebuild \/ RebuildStep \/ RebuildFails \/ LoseIndex
    PROVE  IInv'
<1> USE DEF IInv, Typed, TypeOK, Submitted, Rebuilding, IndexIsBackedUp,
            SettledIsBackedUp, MarkedIsIndexed
<1>1. CASE StartRebuild
  <2>1. rebuild' = [at |-> "next", left |-> Model, model |-> None, page |-> {},
                    before |-> vectors, owed |-> vectors \ lost]
    BY <1>1 DEF StartRebuild, NoRebuild
  <2>2. UNCHANGED <<stores, settled, submissions>>
    BY <1>1 DEF StartRebuild
  <2>3. Typed'
    BY <2>1, <2>2
  <2> QED
    BY <2>1, <2>2, <2>3
<1>2. CASE NextModel
  <2>1. UNCHANGED <<stores, settled, submissions>>
    BY <1>2 DEF NextModel
  <2>2. CASE rebuild.left = {}
    <3>1. rebuild' = [rebuild EXCEPT !.at = "done"]
      BY <1>2, <2>2 DEF NextModel
    <3> QED
      BY <2>1, <3>1
  <2>3. CASE rebuild.left # {}
    <3>1. PICK m \in rebuild.left :
            rebuild' = [rebuild EXCEPT !.at = "pending", !.left = @ \ {m}, !.model = m]
      BY <1>2, <2>3 DEF NextModel
    <3>2. /\ rebuild' \in [at: {"pending"}, left: SUBSET Model, model: Model,
                           page: SUBSET Post, before: SUBSET (Post \X Model),
                    owed: SUBSET (Post \X Model)]
      BY <3>1
    <3> QED
      BY <2>1, <3>2
  <2> QED
    BY <2>2, <2>3
<1>3. CASE PendingVectors
  <2>1. PICK P \in Page(rebuild.model) :
          rebuild' = [rebuild EXCEPT !.page = P, !.at = IF P = {} THEN "next" ELSE "upsert"]
    BY <1>3 DEF PendingVectors
  <2>2. P \subseteq Pending(rebuild.model)
    BY DEF Page, kSubset
  <2>3. P \subseteq Post /\ Pairs(P, {rebuild.model}) \subseteq vectors
    <3>1. \A p \in P : p \in Post /\ <<p, rebuild.model>> \in vectors
      BY <2>2 DEF Pending
    <3>2. ASSUME NEW q \in Pairs(P, {rebuild.model}) PROVE q \in vectors
      <4>1. PICK p \in P : q = <<p, rebuild.model>>
        OBVIOUS
      <4> QED
        BY <3>1, <4>1
    <3> QED
      BY <3>1, <3>2
  <2>4. UNCHANGED <<stores, settled, submissions>>
    BY <1>3 DEF PendingVectors
  <2>5. rebuild.model \in Model
    BY <1>3 DEF PendingVectors
  <2>6. /\ rebuild'.at \in {"next", "upsert"} /\ rebuild'.page = P
        /\ rebuild'.model = rebuild.model
        /\ rebuild' \in [at: {"next", "upsert"}, left: SUBSET Model, model: Model,
                         page: SUBSET Post, before: SUBSET (Post \X Model),
                    owed: SUBSET (Post \X Model)]
    BY <2>1, <2>3, <2>5
  <2>7. Typed'
    BY <2>4, <2>5, <2>6
  <2>8. Rebuilding'
    BY <2>3, <2>4, <2>6
  <2>9. Submitted' /\ IndexIsBackedUp' /\ SettledIsBackedUp' /\ MarkedIsIndexed'
    BY <2>4
  <2> QED
    BY <2>7, <2>8, <2>9
<1>4. CASE RebuildUpsert
  BY <1>4 DEF RebuildUpsert
<1>5. CASE RebuildMark
  BY <1>5 DEF RebuildMark, Marks
<1>6. CASE RebuildFails
  BY <1>6 DEF RebuildFails, NoRebuild
<1>7. CASE LoseIndex
  BY <1>7 DEF LoseIndex, NoRebuild
<1> QED
  BY <1>1, <1>2, <1>3, <1>4, <1>5, <1>6, <1>7 DEF RebuildStep

\* The strengthened invariant: what each call in flight has already written.
THEOREM IInvHolds == Spec => []IInv
<1>1. ASSUME IInv, [Next]_vars PROVE IInv'
  <2>1. CASE Next
    BY <1>1, <2>1, SubmitKeepsIInv, RebuildKeepsIInv DEF Next
  <2>2. CASE UNCHANGED vars
    BY <1>1, <2>2 DEF vars, IInv, Typed, TypeOK, Submitted, Rebuilding, IndexIsBackedUp,
                      SettledIsBackedUp, MarkedIsIndexed
  <2> QED
    BY <1>1, <2>1, <2>2
<1> QED
  BY InitIInv, <1>1, PTL DEF Spec

\* Vectors reach the index only after their backup, whichever call was the
\* last one of a submission, a rebuild or the index itself (Ingest.Submit).
THEOREM IndexAlwaysBackedUp == Spec => []IndexIsBackedUp
BY IInvHolds, PTL DEF IInv

\* Nothing is closed over a post PostgreSQL does not hold every vector of.
THEOREM SettledAlwaysBackedUp == Spec => []SettledIsBackedUp
BY IInvHolds, PTL DEF IInv

\* indexed_at tells the truth, but for the marks from before a loss of the
\* index that no submission has cleared since.
THEOREM MarksAreTrue == Spec => []MarkedIsIndexed
BY IInvHolds, PTL DEF IInv

\* Type correctness of the stores, the submissions and a rebuild.
THEOREM TypeCorrect == Spec => []TypeOK
BY IInvHolds, PTL DEF IInv, Typed

-----------------------------------------------------------------------------
(* What a finished rebuild has put into the index. *)

\* A page of one model still stands before it.
Ahead(m) ==
    \/ m \in rebuild.left /\ rebuild.at # "done"
    \/ m = rebuild.model /\ rebuild.at \in {"pending", "upsert", "mark"}

\* What a rebuild owes is backed up and its mark no lie, and it is in the
\* index unless its model is still ahead.
OwedIsAhead ==
    /\ rebuild.owed \subseteq vectors \ lost
    /\ \A p \in Post, m \in Model : <<p, m>> \in rebuild.owed => <<p, m>> \in index \/ Ahead(m)

\* An empty page means that nothing of the model is pending.
LEMMA EmptyPage ==
    ASSUME NEW m \in Model, NEW P \in Page(m), P = {}
    PROVE  Pending(m) = {}
<1>1. CASE Cardinality(Pending(m)) <= Batch
  BY <1>1 DEF Page
<1>2. CASE ~(Cardinality(Pending(m)) <= Batch)
  <2>1. Cardinality(P) = Batch
    BY <1>2 DEF Page, kSubset
  <2> QED
    BY <2>1, FS_EmptySet, IngestAssumption
<1> QED
  BY <1>1, <1>2

\* Steps that leave the rebuild alone, only add to the index and the vectors,
\* and only take from the lost marks.
LEMMA OwedStays ==
    ASSUME IInv, OwedIsAhead, UNCHANGED rebuild,
           index \subseteq index', vectors \subseteq vectors', lost' \subseteq lost
    PROVE  OwedIsAhead'
  BY DEF OwedIsAhead, Ahead

\* Whether the index is lost or a page fails, what a rebuild owes is ahead of
\* it or done.
LEMMA OwedStep ==
    ASSUME IInv, OwedIsAhead, [Next]_vars
    PROVE  OwedIsAhead'
<1>1. ASSUME NEW s \in Submitter, Submit(s) \/ Fail(s)
      PROVE  OwedIsAhead'
  <2>1. UNCHANGED rebuild /\ index \subseteq index' /\ vectors \subseteq vectors' /\ lost' \subseteq lost
    BY <1>1 DEF Submit, Fail, IndexBatch, UpsertImages, SaveVectorBatch, Backup, UpsertCollection,
                MarkIndexedBatch
  <2> QED
    BY <2>1, OwedStays
<1>2. CASE StartRebuild
  <2>1. /\ rebuild'.left = Model /\ rebuild'.at = "next" /\ rebuild'.owed = vectors \ lost
        /\ UNCHANGED <<vectors, lost>>
    BY <1>2 DEF StartRebuild, NoRebuild
  <2> QED
    BY <2>1 DEF OwedIsAhead, Ahead
<1>3. CASE NextModel
  <2>1. UNCHANGED <<vectors, index, lost>> /\ rebuild.at = "next" /\ rebuild'.owed = rebuild.owed
    BY <1>3 DEF NextModel, IInv, Typed
  <2>2. CASE rebuild.left = {}
    BY <2>1, <2>2 DEF OwedIsAhead, Ahead
  <2>3. CASE rebuild.left # {}
    <3>1. PICK m \in rebuild.left :
            rebuild' = [rebuild EXCEPT !.at = "pending", !.left = @ \ {m}, !.model = m]
      BY <1>3, <2>3 DEF NextModel
    <3>2. rebuild'.at = "pending" /\ rebuild'.left = rebuild.left \ {m} /\ rebuild'.model = m
      BY <3>1 DEF IInv, Typed
    <3> QED
      BY <2>1, <3>2 DEF OwedIsAhead, Ahead
  <2> QED
    BY <2>2, <2>3
<1>4. CASE PendingVectors
  <2>1. PICK P \in Page(rebuild.model) :
          rebuild' = [rebuild EXCEPT !.page = P, !.at = IF P = {} THEN "next" ELSE "upsert"]
    BY <1>4 DEF PendingVectors
  <2>2. UNCHANGED <<vectors, index, lost, marked>> /\ rebuild.at = "pending" /\ rebuild.model \in Model
    BY <1>4 DEF PendingVectors, IInv, Typed
  <2>3. /\ rebuild'.owed = rebuild.owed /\ rebuild'.left = rebuild.left
        /\ rebuild'.model = rebuild.model
        /\ rebuild'.at = IF P = {} THEN "next" ELSE "upsert"
    BY <2>1 DEF IInv, Typed
  <2>4. CASE P = {}
    <3>1. Pending(rebuild.model) = {}
      BY <2>2, <2>4, EmptyPage
    <3>2. ASSUME NEW p \in Post, <<p, rebuild.model>> \in rebuild.owed
          PROVE  <<p, rebuild.model>> \in index
      <4>1. <<p, rebuild.model>> \in vectors /\ <<p, rebuild.model>> \notin lost
        BY <3>2 DEF OwedIsAhead
      <4>2. <<p, rebuild.model>> \in marked
        BY <3>1, <4>1 DEF Pending
      <4> QED
        BY <4>1, <4>2 DEF IInv, MarkedIsIndexed
    <3> QED
      BY <2>2, <2>3, <2>4, <3>2 DEF OwedIsAhead, Ahead
  <2>5. CASE P # {}
    BY <2>2, <2>3, <2>5 DEF OwedIsAhead, Ahead
  <2> QED
    BY <2>4, <2>5
<1>5. CASE RebuildUpsert \/ RebuildMark
  <2>1. /\ rebuild'.owed = rebuild.owed /\ rebuild'.left = rebuild.left
        /\ rebuild'.model = rebuild.model
        /\ rebuild'.at \in {"mark", "pending"} /\ rebuild.at \in {"upsert", "mark"}
        /\ UNCHANGED <<vectors, lost>> /\ index \subseteq index'
    BY <1>5 DEF RebuildUpsert, RebuildMark, IInv, Typed
  <2> QED
    BY <2>1 DEF OwedIsAhead, Ahead
<1>6. CASE RebuildFails \/ LoseIndex
  <2>1. rebuild'.owed = {}
    BY <1>6 DEF RebuildFails, LoseIndex, NoRebuild
  <2> QED
    BY <2>1 DEF OwedIsAhead
<1>7. CASE UNCHANGED vars
  BY <1>7, OwedStays DEF vars
<1> QED
  BY <1>1, <1>2, <1>3, <1>4, <1>5, <1>6, <1>7 DEF Next, RebuildStep

\* A rebuild that ran to its end has put every vector it started from into the
\* index but those with a lost mark, whatever pages of whatever size it read
\* and whatever was submitted beside it.
THEOREM RebuildIsComplete == Spec => []RebuiltIsComplete
<1>1. Init => OwedIsAhead
  BY DEF Init, NoRebuild, OwedIsAhead
<1>2. IInv /\ OwedIsAhead => RebuiltIsComplete
  <2> SUFFICES ASSUME IInv, OwedIsAhead, rebuild.at = "done", NEW q \in rebuild.owed
               PROVE  q \in index
    BY DEF RebuiltIsComplete
  <2>1. PICK p \in Post, m \in Model : q = <<p, m>>
    BY DEF IInv, Typed
  <2> QED
    BY <2>1 DEF OwedIsAhead, Ahead
<1>3. IInv /\ OwedIsAhead /\ [Next]_vars => OwedIsAhead'
  BY OwedStep
<1> QED
  BY <1>1, <1>2, <1>3, IInvHolds, PTL DEF Spec

-----------------------------------------------------------------------------
(* Submissions by HTTP: what repeated, lost and late attempts leave behind. *)

\* An attempt is only waited for or repeated once it has a number.
Numbered ==
    \A n \in Node :
        /\ posting[n] \in {"waiting", "pausing"} => call[n] >= 1
        /\ posting[n] = "pausing" => try[n] < Retries

\* Past the index, the vector of the attempt's node has been in both stores.
WrittenOnTheWay ==
    \A r \in Delivery!Attempt : request[r] \in {"mark", "200"} => r[1] \in wrote

\* Unless attempts of two nodes crossed, all that have saved and are not done
\* are of the node whose vector is kept, and the index agrees with the backup
\* as soon as one of them has only its mark to set.
OneNodeAtATime ==
    ~crossed =>
        /\ \A q \in Delivery!Between : q[1] = kept
        /\ (\E q \in Delivery!Attempt : request[q] = "mark") => entry = kept

HttpInv ==
    /\ Delivery!HttpTypeOK
    /\ Numbered
    /\ WrittenOnTheWay
    /\ Delivery!AcceptedIsStored
    /\ Delivery!RefusedIsNotRepeated
    /\ OneNodeAtATime
    /\ Delivery!MarkedAgrees

LEMMA HttpConstants == Calls \in Nat /\ Retries \in Nat \ {0} /\ Nobody \notin Node
  BY PartsAssumption DEF Delivery!HttpIngestAssumption

\* The attempt a node waits for is one.
LEMMA LatestIsAttempt ==
    ASSUME HttpInv, NEW n \in Node, posting[n] \in {"waiting", "pausing"}
    PROVE  Delivery!Latest(n) \in Delivery!Attempt
  BY HttpConstants DEF HttpInv, Delivery!HttpTypeOK, Numbered, Delivery!Latest, Delivery!Attempt

\* An attempt that leaves the client changes the server by its arrival only.
LEMMA PostKeepsServer ==
    ASSUME HttpInv, NEW n \in Node, NEW c \in 1 .. Calls, NEW a1 \in 1 .. Retries,
           Delivery!PostAttempt(n, c, a1)
    PROVE  /\ request' \in [Delivery!Attempt -> Delivery!Answers \cup
                              {Delivery!NotArrived, "check", "save", "index", "mark"}]
           /\ \A r \in Delivery!Attempt :
                request'[r] \in {"index", "mark", "200"} => request'[r] = request[r]
           /\ UNCHANGED <<kept, entry, mark, wrote, crossed>>
<1>1. <<n, c, a1>> \in Delivery!Attempt
  BY DEF Delivery!Attempt
<1> QED
  BY <1>1 DEF Delivery!PostAttempt, HttpInv, Delivery!HttpTypeOK

\* What follows of the server's part, when no attempt gets further and the
\* stores stay as they are.
LEMMA ArrivalKeepsServer ==
    ASSUME HttpInv,
           \A r \in Delivery!Attempt :
                request'[r] \in {"index", "mark", "200"} => request'[r] = request[r],
           UNCHANGED <<kept, entry, mark, wrote, crossed>>
    PROVE  WrittenOnTheWay' /\ OneNodeAtATime' /\ Delivery!MarkedAgrees'
  BY DEF HttpInv, WrittenOnTheWay, OneNodeAtATime, Delivery!Between, Delivery!Attempt,
         Delivery!MarkedAgrees

LEMMA SubmitKeepsInv ==
    ASSUME HttpInv, NEW n \in Node, Delivery!Submit(n)
    PROVE  HttpInv'
<1>1. call[n] + 1 \in 1 .. Calls /\ 1 \in 1 .. Retries
  BY HttpConstants DEF Delivery!Submit, HttpInv, Delivery!HttpTypeOK
<1>2. Delivery!PostAttempt(n, call[n] + 1, 1)
  BY DEF Delivery!Submit
<1>3. /\ call' \in [Node -> 0 .. Calls] /\ try' \in [Node -> 1 .. Retries]
      /\ posting' = [posting EXCEPT ![n] = "waiting"]
      /\ verdict' = verdict \ {n}
      /\ call'[n] >= 1
      /\ \A o \in Node \ {n} : call'[o] = call[o] /\ try'[o] = try[o]
  BY <1>1, <1>2 DEF Delivery!Submit, Delivery!PostAttempt, HttpInv, Delivery!HttpTypeOK
<1>4. WrittenOnTheWay' /\ OneNodeAtATime' /\ Delivery!MarkedAgrees'
  BY <1>1, <1>2, PostKeepsServer, ArrivalKeepsServer
<1>5. Delivery!HttpTypeOK'
  BY <1>1, <1>2, <1>3, PostKeepsServer DEF HttpInv, Delivery!HttpTypeOK
<1>6. Numbered' /\ Delivery!AcceptedIsStored' /\ Delivery!RefusedIsNotRepeated'
  BY <1>1, <1>2, <1>3, PostKeepsServer
     DEF HttpInv, Delivery!HttpTypeOK, Numbered, Delivery!AcceptedIsStored,
         Delivery!RefusedIsNotRepeated, Delivery!Resting
<1> QED
  BY <1>4, <1>5, <1>6 DEF HttpInv

\* A pause ends with the next attempt or with the context.
LEMMA PostAgainKeepsInv ==
    ASSUME HttpInv, NEW n \in Node, Delivery!PostAgain(n)
    PROVE  HttpInv'
<1>1. CASE Delivery!PostAttempt(n, call[n], Delivery!NextTry(n))
              /\ try' = [try EXCEPT ![n] = Delivery!NextTry(n)]
  <2>1. call[n] \in 1 .. Calls /\ Delivery!NextTry(n) \in 1 .. Retries
    BY HttpConstants
       DEF Delivery!PostAgain, HttpInv, Delivery!HttpTypeOK, Numbered, Delivery!NextTry
  <2>2. /\ try' \in [Node -> 1 .. Retries]
        /\ posting' = [posting EXCEPT ![n] = "waiting"]
        /\ UNCHANGED <<call, verdict>>
        /\ \A o \in Node \ {n} : try'[o] = try[o]
    BY <1>1, <2>1 DEF Delivery!PostAgain, Delivery!PostAttempt, HttpInv, Delivery!HttpTypeOK
  <2>3. WrittenOnTheWay' /\ OneNodeAtATime' /\ Delivery!MarkedAgrees'
    BY <1>1, <2>1, PostKeepsServer, ArrivalKeepsServer
  <2>4. Delivery!HttpTypeOK'
    BY <1>1, <2>1, <2>2, PostKeepsServer DEF HttpInv, Delivery!HttpTypeOK
  <2>5. Numbered' /\ Delivery!AcceptedIsStored' /\ Delivery!RefusedIsNotRepeated'
    BY <1>1, <2>1, <2>2, PostKeepsServer
       DEF HttpInv, Delivery!HttpTypeOK, Numbered, Delivery!AcceptedIsStored,
           Delivery!RefusedIsNotRepeated, Delivery!Resting, Delivery!PostAgain
  <2> QED
    BY <2>3, <2>4, <2>5 DEF HttpInv
<1>2. CASE posting' = [posting EXCEPT ![n] = "failed"]
              /\ UNCHANGED <<try, Delivery!server, call, verdict>>
  BY <1>2 DEF Delivery!server, HttpInv, Delivery!HttpTypeOK, Numbered, WrittenOnTheWay,
              OneNodeAtATime, Delivery!Between, Delivery!Attempt, Delivery!MarkedAgrees,
              Delivery!AcceptedIsStored, Delivery!RefusedIsNotRepeated, Delivery!Resting
<1> QED
  BY <1>1, <1>2 DEF Delivery!PostAgain

\* An answer, or none.
LEMMA AnswerKeepsInv ==
    ASSUME HttpInv, NEW n \in Node, Delivery!GetAnswer(n) \/ Delivery!NoAnswer(n)
    PROVE  HttpInv'
<1>1. posting[n] = "waiting" /\ UNCHANGED <<call, try, Delivery!server>>
  BY DEF Delivery!GetAnswer, Delivery!NoAnswer
<1>2. /\ posting' \in [Node -> Delivery!Resting \cup {"waiting", "pausing"}]
      /\ \A o \in Node \ {n} : posting'[o] = posting[o]
      /\ posting'[n] \in Delivery!Resting \cup {"pausing"}
      /\ posting'[n] = "pausing" => try[n] < Retries /\ verdict' = verdict
      /\ posting'[n] = "ok" => request[Delivery!Latest(n)] = "200"
      /\ verdict' \in {verdict, verdict \cup {n}}
  BY <1>1
     DEF Delivery!GetAnswer, Delivery!NoAnswer, Delivery!Repeat, Delivery!Exhausted,
         Delivery!Final, Delivery!Resting, Delivery!Refusals, Delivery!Answers,
         HttpInv, Delivery!HttpTypeOK
<1>3. n \notin verdict
  BY <1>1 DEF HttpInv, Delivery!RefusedIsNotRepeated, Delivery!Resting
<1>4. posting'[n] = "ok" => n \in wrote
  BY <1>1, <1>2, LatestIsAttempt DEF HttpInv, WrittenOnTheWay, Delivery!Latest
<1>5. UNCHANGED <<call, try, request, kept, entry, mark, wrote, crossed>>
  BY <1>1 DEF Delivery!server
<1>6. Delivery!HttpTypeOK'
  BY <1>2, <1>5 DEF HttpInv, Delivery!HttpTypeOK
<1>7. Numbered' /\ Delivery!AcceptedIsStored' /\ Delivery!RefusedIsNotRepeated'
  <2>1. Numbered'
    BY <1>1, <1>2, <1>5 DEF HttpInv, Numbered
  <2>2. Delivery!AcceptedIsStored'
    BY <1>2, <1>4, <1>5 DEF HttpInv, Delivery!AcceptedIsStored
  <2>3. Delivery!RefusedIsNotRepeated'
    BY <1>2, <1>3 DEF HttpInv, Delivery!RefusedIsNotRepeated, Delivery!HttpTypeOK
  <2> QED
    BY <2>1, <2>2, <2>3
<1>8. WrittenOnTheWay' /\ OneNodeAtATime' /\ Delivery!MarkedAgrees'
  BY <1>5, ArrivalKeepsServer
<1> QED
  BY <1>6, <1>7, <1>8 DEF HttpInv

\* What the client's part of the invariant needs of a step of the server.
LEMMA HandleKeepsClient ==
    ASSUME HttpInv, UNCHANGED Delivery!client, wrote \subseteq wrote'
    PROVE  Numbered' /\ Delivery!AcceptedIsStored' /\ Delivery!RefusedIsNotRepeated'
  BY DEF HttpInv, Delivery!client, Numbered, Delivery!AcceptedIsStored,
         Delivery!RefusedIsNotRepeated

\* An attempt moves on, and only it.
LEMMA AttemptMoves ==
    ASSUME HttpInv, NEW r \in Delivery!Attempt, NEW from, 
           NEW to \in Delivery!Answers \cup {"save", "index", "mark"}, Delivery!At(r, from, to)
    PROVE  /\ request[r] = from /\ request'[r] = to
           /\ \A q \in Delivery!Attempt \ {r} : request'[q] = request[q]
           /\ request' \in [Delivery!Attempt -> Delivery!Answers \cup
                              {Delivery!NotArrived, "check", "save", "index", "mark"}]
  BY DEF HttpInv, Delivery!HttpTypeOK, Delivery!At

\* The center checks an attempt, or fails it: it gets no further.
LEMMA CheckKeepsInv ==
    ASSUME HttpInv, NEW r \in Delivery!Attempt, Delivery!Check(r) \/ Delivery!Fail(r),
           UNCHANGED Delivery!client
    PROVE  HttpInv'
<1>1. PICK from \in {"check", "save", "index"}, to \in Delivery!Refusals \cup {"500", "save"} :
        Delivery!At(r, from, to)
  BY DEF Delivery!Check, Delivery!Fail
<1>2. UNCHANGED <<kept, entry, mark, wrote, crossed>>
  BY DEF Delivery!Check, Delivery!Fail
<1>3. to \in Delivery!Answers \cup {"save", "index", "mark"} /\ to \notin {"index", "mark", "200"}
  BY DEF Delivery!Answers, Delivery!Refusals
<1>4. Delivery!HttpTypeOK'
  BY <1>1, <1>2, <1>3, AttemptMoves DEF HttpInv, Delivery!HttpTypeOK, Delivery!client
<1>5. WrittenOnTheWay' /\ OneNodeAtATime' /\ Delivery!MarkedAgrees'
  BY <1>1, <1>2, <1>3, AttemptMoves, ArrivalKeepsServer
<1> QED
  BY <1>2, <1>4, <1>5, HandleKeepsClient DEF HttpInv

\* The backup: with it the row becomes unmarked, and the crossing is noted.
LEMMA SaveKeepsInv ==
    ASSUME HttpInv, NEW r \in Delivery!Attempt, Delivery!SaveVectorBatch(r),
           UNCHANGED Delivery!client
    PROVE  HttpInv'
<1>1. /\ request[r] = "save" /\ request'[r] = "index"
      /\ \A q \in Delivery!Attempt \ {r} : request'[q] = request[q]
      /\ request' \in [Delivery!Attempt -> Delivery!Answers \cup
                         {Delivery!NotArrived, "check", "save", "index", "mark"}]
  BY AttemptMoves DEF Delivery!SaveVectorBatch
<1>2. /\ kept' = r[1] /\ mark' = FALSE /\ UNCHANGED <<entry, wrote>>
      /\ crossed' = (crossed \/ \E q \in Delivery!Between : q[1] # r[1])
  BY DEF Delivery!SaveVectorBatch, Delivery!Unmarked
<1>3. Delivery!HttpTypeOK'
  <2>1. r[1] \in Node
    BY DEF Delivery!Attempt
  <2>2. crossed' \in BOOLEAN
    BY <1>2 DEF HttpInv, Delivery!HttpTypeOK
  <2> QED
    BY <1>1, <1>2, <2>1, <2>2 DEF HttpInv, Delivery!HttpTypeOK, Delivery!client
<1>4. WrittenOnTheWay'
  BY <1>1, <1>2 DEF HttpInv, WrittenOnTheWay, Delivery!Attempt
<1>5. OneNodeAtATime'
  <2> SUFFICES ASSUME ~crossed'
               PROVE  /\ \A q \in Delivery!Between' : q[1] = kept'
                      /\ (\E q \in Delivery!Attempt : request'[q] = "mark") => entry' = kept'
    BY DEF OneNodeAtATime, Delivery!Attempt
  <2>1. ~crossed /\ \A q \in Delivery!Between : q[1] = r[1] /\ q[1] = kept
    BY <1>2 DEF HttpInv, OneNodeAtATime
  <2>2. Delivery!Between' = Delivery!Between \cup {r}
    BY <1>1 DEF Delivery!Between, Delivery!Attempt
  <2>3. ASSUME NEW q \in Delivery!Attempt, request'[q] = "mark"
        PROVE  entry' = kept'
    <3>1. request[q] = "mark" /\ q \in Delivery!Between
      BY <1>1, <2>3 DEF Delivery!Between
    <3> QED
      BY <1>2, <2>1, <3>1 DEF HttpInv, OneNodeAtATime
  <2> QED
    BY <1>2, <2>1, <2>2, <2>3
<1>6. Delivery!MarkedAgrees'
  BY <1>2 DEF Delivery!MarkedAgrees
<1> QED
  BY <1>2, <1>3, <1>4, <1>5, <1>6, HandleKeepsClient DEF HttpInv

\* The index.
LEMMA UpsertKeepsInv ==
    ASSUME HttpInv, NEW r \in Delivery!Attempt, Delivery!Upsert(r), UNCHANGED Delivery!client
    PROVE  HttpInv'
<1>1. /\ request[r] = "index" /\ request'[r] = "mark"
      /\ \A q \in Delivery!Attempt \ {r} : request'[q] = request[q]
      /\ request' \in [Delivery!Attempt -> Delivery!Answers \cup
                         {Delivery!NotArrived, "check", "save", "index", "mark"}]
  BY AttemptMoves DEF Delivery!Upsert
<1>2. /\ entry' = r[1] /\ wrote' = wrote \cup {r[1]} /\ UNCHANGED <<kept, mark, crossed>>
      /\ r[1] \in Node
  BY DEF Delivery!Upsert, Delivery!Attempt
<1>3. ~crossed => entry' = kept
  BY <1>1, <1>2 DEF HttpInv, OneNodeAtATime, Delivery!Between
<1>4. Delivery!HttpTypeOK'
  BY <1>1, <1>2 DEF HttpInv, Delivery!HttpTypeOK, Delivery!client
<1>5. WrittenOnTheWay'
  BY <1>1, <1>2 DEF HttpInv, WrittenOnTheWay, Delivery!Attempt
<1>6. OneNodeAtATime'
  <2>1. Delivery!Between' = Delivery!Between
    BY <1>1 DEF Delivery!Between, Delivery!Attempt
  <2> QED
    BY <1>2, <1>3, <2>1 DEF HttpInv, OneNodeAtATime
<1>7. Delivery!MarkedAgrees'
  BY <1>2, <1>3 DEF Delivery!MarkedAgrees
<1> QED
  BY <1>2, <1>4, <1>5, <1>6, <1>7, HandleKeepsClient DEF HttpInv

\* The mark.
LEMMA MarkKeepsInv ==
    ASSUME HttpInv, NEW r \in Delivery!Attempt, Delivery!MarkIndexedBatch(r),
           UNCHANGED Delivery!client
    PROVE  HttpInv'
<1>1. /\ request[r] = "mark" /\ request'[r] = "200"
      /\ \A q \in Delivery!Attempt \ {r} : request'[q] = request[q]
      /\ request' \in [Delivery!Attempt -> Delivery!Answers \cup
                         {Delivery!NotArrived, "check", "save", "index", "mark"}]
  BY AttemptMoves DEF Delivery!MarkIndexedBatch, Delivery!Answers
<1>2. mark' \in {mark, TRUE} /\ UNCHANGED <<kept, entry, wrote, crossed>>
  BY DEF Delivery!MarkIndexedBatch
<1>3. Delivery!HttpTypeOK'
  BY <1>1, <1>2 DEF HttpInv, Delivery!HttpTypeOK, Delivery!client
<1>4. WrittenOnTheWay'
  BY <1>1, <1>2 DEF HttpInv, WrittenOnTheWay, Delivery!Attempt
<1>5. OneNodeAtATime'
  <2>1. Delivery!Between' \subseteq Delivery!Between
    BY <1>1 DEF Delivery!Between, Delivery!Attempt
  <2> QED
    BY <1>1, <1>2, <2>1 DEF HttpInv, OneNodeAtATime, Delivery!Attempt
<1>6. Delivery!MarkedAgrees'
  BY <1>1, <1>2 DEF HttpInv, OneNodeAtATime, Delivery!MarkedAgrees
<1> QED
  BY <1>2, <1>3, <1>4, <1>5, <1>6, HandleKeepsClient DEF HttpInv

LEMMA HttpNextKeepsInv ==
    ASSUME HttpInv, Delivery!HttpNext
    PROVE  HttpInv'
<1>1. ASSUME NEW n \in Node, Delivery!Submit(n) \/ Delivery!SubmitStep(n)
      PROVE  HttpInv'
  BY <1>1, SubmitKeepsInv, PostAgainKeepsInv, AnswerKeepsInv DEF Delivery!SubmitStep
<1>2. ASSUME NEW r \in Delivery!Attempt, Delivery!Handle(r)
      PROVE  HttpInv'
  BY <1>2, CheckKeepsInv, SaveKeepsInv, UpsertKeepsInv, MarkKeepsInv DEF Delivery!Handle
<1> QED
  BY <1>1, <1>2 DEF Delivery!HttpNext

LEMMA HttpInitHasInv ==
    ASSUME Delivery!HttpInit
    PROVE  HttpInv
<1>1. 1 \in 1 .. Retries /\ 0 \in 0 .. Calls
  BY HttpConstants
<1>2. Delivery!HttpTypeOK
  BY <1>1 DEF Delivery!HttpInit, Delivery!HttpTypeOK, Delivery!Resting
<1>3. Numbered /\ Delivery!AcceptedIsStored /\ Delivery!RefusedIsNotRepeated
  BY DEF Delivery!HttpInit, Numbered, Delivery!AcceptedIsStored, Delivery!RefusedIsNotRepeated
<1>4. WrittenOnTheWay /\ OneNodeAtATime /\ Delivery!MarkedAgrees
  BY DEF Delivery!HttpInit, WrittenOnTheWay, OneNodeAtATime, Delivery!Between,
         Delivery!MarkedAgrees, Delivery!NotArrived
<1> QED
  BY <1>2, <1>3, <1>4 DEF HttpInv

\* A submission by HTTP that returned no error has been in both stores, what
\* the center refused is not sent again, and attempts that overtake each other
\* leave backup and index apart only unmarked, however many nodes, calls and
\* attempts there are and whichever of them are lost.
THEOREM DeliveryHolds == ImagesSpec => []DeliveryIsTrue
<1>1. ImagesInit => HttpInv
  BY HttpInitHasInv DEF ImagesInit
<1>2. HttpInv /\ [ImagesNext]_<<part, vars, http, files, search>> => HttpInv'
  <2> SUFFICES ASSUME HttpInv, ImagesNext \/ UNCHANGED http
               PROVE  HttpInv'
    OBVIOUS
  <2>1. CASE UNCHANGED http
    BY <2>1 DEF http, HttpInv, Delivery!HttpTypeOK, Numbered, WrittenOnTheWay,
         OneNodeAtATime, Delivery!Between, Delivery!Attempt, Delivery!MarkedAgrees,
         Delivery!AcceptedIsStored, Delivery!RefusedIsNotRepeated
  <2> QED
    BY <2>1, HttpNextKeepsInv DEF ImagesNext
<1>3. HttpInv => DeliveryIsTrue
  BY DEF HttpInv, DeliveryIsTrue
<1> QED
  BY <1>1, <1>2, <1>3, PTL DEF ImagesSpec

-----------------------------------------------------------------------------
(* The files of the flat index.  AckedIsKept and Paired speak of slots that  *)
(* are settled; the invariant says, for each phase of an append, what of its *)
(* points is in which file and on which disk already.                        *)

\* The points are in the file, from slot `at` on.
Has(file, at, points) ==
    /\ at + Len(points) <= Len(file)
    /\ \A i \in 1 .. Len(points) : file[at + i] = points[i]

\* What flock sees to.
OneWriter ==
    \A p, q \in Files!Process :
        p # q /\ count[p] # Files!Closed /\ count[q] # Files!Closed => p \in Reader /\ q \in Reader

Lengths ==
    /\ Len(codes) <= MaxSlots /\ Len(ids) <= MaxSlots
    /\ Len(diskCodes) <= MaxSlots /\ Len(diskIds) <= MaxSlots

\* An append goes on in an open writer only.
AppendIsOpen == phase # "idle" => \E p \in Writer : count[p] # Files!Closed

\* What an append has behind it.
Appending ==
    \A p \in Writer : count[p] # Files!Closed /\ phase # "idle" =>
        /\ count[p] + Len(adding) <= MaxSlots
        /\ phase # "codes" => Has(codes, count[p], adding)
        /\ phase \in {"ids", "syncIds", "map"} => diskCodes = codes
        /\ phase \in {"syncIds", "map"} => Has(ids, count[p], adding)
        /\ phase = "map" => diskIds = ids

\* A writer appends behind everything that was reported as stored.
AckedBelow ==
    \A p \in Writer : count[p] # Files!Closed => \A k \in acked : k[1] <= count[p]

\* Unless an append failed, the file of ids is behind that of codes, a power
\* cut takes only slots off its end, and the writer appends at that end.
IdsFollow ==
    ~mishap =>
        /\ Len(diskIds) <= Len(ids) /\ Len(ids) <= Len(codes) /\ Len(ids) <= Len(diskCodes)
        /\ \A i \in 1 .. Len(ids) : codes[i] = ids[i] /\ diskCodes[i] = ids[i]
        /\ \A i \in 1 .. Len(diskIds) : diskIds[i] = ids[i]
        /\ \A p \in Writer : count[p] # Files!Closed =>
              Len(ids) = IF phase \in {"syncIds", "map"} THEN count[p] + Len(adding) ELSE count[p]

FilesInv ==
    /\ Files!FlatTypeOK
    /\ OneWriter /\ Lengths /\ AppendIsOpen /\ Appending
    /\ AckedBelow /\ Files!AckedIsKept
    /\ IdsFollow

LEMMA FilesConstants == MaxSlots \in Nat /\ MaxBatch \in Nat \ {0} /\ Writer \cap Reader = {}
  BY PartsAssumption DEF Files!FlatIndexAssumption

LEMMA FilesTypes ==
    ASSUME FilesInv
    PROVE  /\ codes \in Seq(Image) /\ ids \in Seq(Image)
           /\ diskCodes \in Seq(Image) /\ diskIds \in Seq(Image) /\ adding \in Seq(Image)
           /\ count \in [Files!Process -> {-1} \cup 0 .. MaxSlots]
           /\ \A p \in Files!Process : count[p] <= Len(codes) /\ count[p] <= Len(ids)
           /\ MaxSlots \in Nat
<1>1. MaxSlots \in Nat
  BY FilesConstants
<1>2. /\ codes \in Seq(Image) /\ ids \in Seq(Image)
      /\ diskCodes \in Seq(Image) /\ diskIds \in Seq(Image) /\ adding \in Seq(Image)
  BY DEF FilesInv, Files!FlatTypeOK
<1>3. Len(codes) \in Nat /\ Len(ids) \in Nat
  BY <1>2
<1>4. count \in [Files!Process -> {-1} \cup 0 .. MaxSlots]
  BY DEF FilesInv, Files!FlatTypeOK, Files!Closed
<1>5. ASSUME NEW p \in Files!Process
      PROVE  count[p] <= Len(codes) /\ count[p] <= Len(ids)
  <2>1. count[p] <= Files!Least(Len(codes), Len(ids)) /\ count[p] \in Int
    BY <1>1, <1>4 DEF FilesInv, Files!FlatTypeOK
  <2> QED
    BY <1>3, <2>1 DEF Files!Least
<1> QED
  BY <1>1, <1>2, <1>4, <1>5

\* A write of points over a file, from one of its slots on.
LEMMA WrittenFile ==
    ASSUME NEW file \in Seq(Image), NEW points \in Seq(Image), NEW at \in 0 .. Len(file)
    PROVE  /\ Files!Written(file, at, points) \in Seq(Image)
           /\ Len(Files!Written(file, at, points)) =
                IF at + Len(points) > Len(file) THEN at + Len(points) ELSE Len(file)
           /\ \A i \in 1 .. at : Files!Written(file, at, points)[i] = file[i]
           /\ Has(Files!Written(file, at, points), at, points)
<1> DEFINE end == at + Len(points)
           size == IF end > Len(file) THEN end ELSE Len(file)
           w == [i \in 1 .. size |-> IF at < i /\ i <= end THEN points[i - at] ELSE file[i]]
<1>1. Files!Written(file, at, points) = w
  BY DEF Files!Written
<1>2. Len(points) \in Nat /\ Len(file) \in Nat /\ at \in Nat /\ size \in Nat /\ at <= size
  OBVIOUS
<1>3. ASSUME NEW i \in 1 .. size
      PROVE  w[i] \in Image
  <2>1. CASE at < i /\ i <= end
    <3>1. i - at \in 1 .. Len(points)
      BY <1>2, <2>1
    <3> QED
      BY <2>1, <3>1
  <2>2. CASE ~(at < i /\ i <= end)
    <3>1. i \in 1 .. Len(file)
      BY <1>2, <2>2
    <3> QED
      BY <2>2, <3>1
  <2> QED
    BY <2>1, <2>2
<1>4. w \in Seq(Image) /\ Len(w) = size
  BY <1>2, <1>3
<1>5. \A i \in 1 .. at : w[i] = file[i]
  BY <1>2
<1>6. Has(w, at, points)
  <2>1. ASSUME NEW i \in 1 .. Len(points)
        PROVE  w[at + i] = points[i]
    <3>1. at + i \in 1 .. size /\ at < at + i /\ at + i <= end /\ (at + i) - at = i
      BY <1>2
    <3> QED
      BY <3>1
  <2> QED
    BY <1>2, <1>4, <2>1 DEF Has
<1> QED
  BY <1>1, <1>4, <1>5, <1>6

\* The first n elements of a sequence.
LEMMA CutFile ==
    ASSUME NEW file \in Seq(Image), NEW n \in 0 .. Len(file)
    PROVE  /\ SubSeq(file, 1, n) \in Seq(Image) /\ Len(SubSeq(file, 1, n)) = n
           /\ \A i \in 1 .. n : SubSeq(file, 1, n)[i] = file[i]
  OBVIOUS

\* What a power cut leaves of a file.
LEMMA SurvivingFile ==
    ASSUME NEW old \in Seq(Image), NEW new \in Seq(Image), NEW f \in Files!Survivors(old, new)
    PROVE  /\ f \in Seq(Image)
           /\ Len(f) >= Len(old) \/ Len(f) >= Len(new)
           /\ Len(f) <= Len(old) \/ Len(f) <= Len(new)
           /\ \A i \in 1 .. Len(f) : \/ i <= Len(old) /\ f[i] = old[i]
                                     \/ i <= Len(new) /\ f[i] = new[i]
<1> DEFINE short == Files!Least(Len(old), Len(new))
           long == Len(old) + Len(new) - short
<1>1. PICK n \in short .. long :
        /\ f \in [1 .. n -> Image]
        /\ \A i \in 1 .. n : \/ i <= Len(old) /\ f[i] = old[i]
                             \/ i <= Len(new) /\ f[i] = new[i]
  BY DEF Files!Survivors
<1>2. short \in Nat /\ long \in Nat /\ n \in Nat
  BY <1>1 DEF Files!Least
<1>3. f \in Seq(Image) /\ Len(f) = n
  BY <1>1, <1>2
<1> QED
  BY <1>1, <1>2, <1>3 DEF Files!Least

\* Everything but the counts, and the append of a writer that ends, is the same.
LEMMA EndKeepsFiles ==
    ASSUME FilesInv, NEW p \in Files!Process, Files!Shut(p) \/ Files!Crash(p)
    PROVE  FilesInv'
<1>1. /\ count' = [count EXCEPT ![p] = Files!Closed]
      /\ UNCHANGED <<codes, ids, diskCodes, diskIds, acked, mishap>>
      /\ count[p] # Files!Closed
  BY DEF Files!Shut, Files!Crash, Files!files, Files!disk
<1>2. \/ p \in Writer /\ phase' = "idle" /\ adding' \in {adding, <<>>}
      \/ p \notin Writer /\ UNCHANGED <<phase, adding>>
  BY DEF Files!Shut, Files!Crash
<1>3. count' \in [Files!Process -> {Files!Closed} \cup 0 .. MaxSlots]
  BY <1>1 DEF FilesInv, Files!FlatTypeOK
<1>4. /\ count'[p] = Files!Closed
      /\ \A q \in Files!Process : q # p => count'[q] = count[q]
  BY <1>1 DEF FilesInv, Files!FlatTypeOK
<1>5. p \in Writer => \A w \in Writer : count'[w] = Files!Closed
  BY <1>1, <1>4, FilesConstants DEF FilesInv, OneWriter, Files!Process
<1>6. \A w \in Writer : w \in Files!Process
  BY DEF Files!Process
<1>7. Files!FlatTypeOK'
  <2>1. adding' \in Seq(Image)
    <3>1. adding \in Seq(Image) /\ << >> \in Seq(Image)
      BY FilesTypes
    <3> QED
      BY <1>2, <3>1
  <2>2. \A q \in Files!Process : count'[q] <= Files!Least(Len(codes), Len(ids))
    <3>1. Files!Closed <= Files!Least(Len(codes), Len(ids))
      <4>1. Len(codes) \in Nat /\ Len(ids) \in Nat
        BY FilesTypes
      <4> QED
        BY <4>1 DEF Files!Least, Files!Closed
    <3> QED
      BY <1>4, <3>1 DEF FilesInv, Files!FlatTypeOK
  <2> QED
    BY <1>1, <1>2, <1>3, <2>1, <2>2 DEF FilesInv, Files!FlatTypeOK, Files!Least
<1>8. OneWriter'
  BY <1>4 DEF FilesInv, OneWriter
<1>9. Lengths' /\ Files!AckedIsKept'
  BY <1>1 DEF FilesInv, Lengths, Files!AckedIsKept, Files!Slots, Files!Least
<1>10. AppendIsOpen'
  BY <1>2, <1>4, <1>6 DEF FilesInv, AppendIsOpen
<1>11. Appending' /\ AckedBelow' /\ IdsFollow'
  <2>1. CASE p \in Writer
    BY <1>1, <1>5, <2>1 DEF FilesInv, Appending, AckedBelow, IdsFollow
  <2>2. CASE p \notin Writer
    BY <1>1, <1>2, <1>4, <1>6, <2>2 DEF FilesInv, Appending, AckedBelow, IdsFollow, Has
  <2> QED
    BY <2>1, <2>2
<1> QED
  BY <1>7, <1>8, <1>9, <1>10, <1>11 DEF FilesInv

\* What the open of a process finds.
LEMMA OpenFinds ==
    ASSUME FilesInv, NEW p \in Files!Process, Files!Open(p)
    PROVE  /\ Files!Slots \in 0 .. MaxSlots
           /\ Files!Slots \in 0 .. Len(codes) /\ Files!Slots \in 0 .. Len(ids)
           /\ count' \in [Files!Process -> {Files!Closed} \cup 0 .. MaxSlots]
           /\ count'[p] = Files!Slots
           /\ \A q \in Files!Process : q # p => count'[q] = count[q]
           /\ OneWriter'
<1>1. Files!Slots \in 0 .. MaxSlots /\ Files!Slots \in 0 .. Len(codes) /\ Files!Slots \in 0 .. Len(ids)
  <2>1. Len(codes) \in Nat /\ Len(ids) \in Nat /\ MaxSlots \in Nat
    BY FilesTypes
  <2> QED
    BY <2>1 DEF Files!Slots, Files!Least, FilesInv, Lengths
<1>2. count' = [count EXCEPT ![p] = Files!Slots]
  BY DEF Files!Open
<1>3. /\ count' \in [Files!Process -> {Files!Closed} \cup 0 .. MaxSlots]
      /\ count'[p] = Files!Slots
      /\ \A q \in Files!Process : q # p => count'[q] = count[q]
  BY <1>1, <1>2 DEF FilesInv, Files!FlatTypeOK
<1>4. OneWriter'
  BY <1>3 DEF FilesInv, OneWriter, Files!Open, Files!LockFree
<1> QED
  BY <1>1, <1>3, <1>4

\* A reader changes nothing.
LEMMA ReaderOpens ==
    ASSUME FilesInv, NEW p \in Files!Process, p \notin Writer, Files!Open(p)
    PROVE  FilesInv'
<1>1. UNCHANGED <<codes, ids, diskCodes, diskIds, adding, phase, acked, mishap>>
  BY DEF Files!Open, Files!files, Files!disk
<1>2. \A w \in Writer : w \in Files!Process /\ count'[w] = count[w]
  BY OpenFinds DEF Files!Process
<1>3. Files!FlatTypeOK'
  <2>1. \A q \in Files!Process : count'[q] <= Files!Least(Len(codes), Len(ids))
    <3>1. Files!Slots <= Files!Slots
      BY OpenFinds
    <3> QED
      BY <3>1, OpenFinds DEF FilesInv, Files!FlatTypeOK, Files!Slots
  <2> QED
    BY <1>1, <2>1, OpenFinds DEF FilesInv, Files!FlatTypeOK, Files!Least
<1>4. Lengths' /\ Files!AckedIsKept'
  BY <1>1 DEF FilesInv, Lengths, Files!AckedIsKept, Files!Slots, Files!Least
<1>5. AppendIsOpen' /\ Appending' /\ AckedBelow' /\ IdsFollow'
  BY <1>1, <1>2 DEF FilesInv, AppendIsOpen, Appending, AckedBelow, IdsFollow, Has
<1> QED
  BY <1>3, <1>4, <1>5, OpenFinds DEF FilesInv

\* A writer cuts both files to the slots of the shorter one.
LEMMA WriterOpens ==
    ASSUME FilesInv, NEW p \in Writer, Files!Open(p)
    PROVE  FilesInv'
<1> DEFINE n == Files!Slots
<1>1. /\ UNCHANGED <<diskCodes, diskIds, adding, phase, acked, mishap>>
      /\ codes' = SubSeq(codes, 1, n)
      /\ ids' = SubSeq(ids, 1, n)
  <2>1. Files!Least(Len(ids), n) = n
    BY FilesTypes, OpenFinds DEF Files!Process, Files!Least
  <2> QED
    BY <2>1 DEF Files!Open, Files!disk
<1>2. p \in Files!Process /\ n \in Nat /\ n <= MaxSlots /\ n \in 0 .. Len(codes) /\ n \in 0 .. Len(ids)
  BY OpenFinds, FilesTypes DEF Files!Process
<1>3. /\ codes' \in Seq(Image) /\ Len(codes') = n /\ \A i \in 1 .. n : codes'[i] = codes[i]
      /\ ids' \in Seq(Image) /\ Len(ids') = n /\ \A i \in 1 .. n : ids'[i] = ids[i]
  BY <1>1, <1>2, FilesTypes, CutFile
<1>4. Files!Slots' = n
  BY <1>2, <1>3 DEF Files!Slots, Files!Least
<1>5. /\ count'[p] = n
      /\ \A q \in Files!Process \ {p} : count[q] = Files!Closed /\ count'[q] = Files!Closed
      /\ phase = "idle"
  <2>1. \A q \in Files!Process \ {p} : count[q] = Files!Closed
    BY FilesConstants DEF Files!Open, Files!LockFree
  <2>2. phase = "idle"
    BY <2>1 DEF FilesInv, AppendIsOpen, Files!Open, Files!Process
  <2> QED
    BY <1>2, <2>1, <2>2, OpenFinds
<1>6. Files!FlatTypeOK'
  <2>1. \A q \in Files!Process : count'[q] <= Files!Least(Len(codes'), Len(ids'))
    BY <1>2, <1>3, <1>5 DEF Files!Least, Files!Closed
  <2> QED
    BY <1>1, <1>2, <1>3, <2>1, OpenFinds DEF FilesInv, Files!FlatTypeOK, Files!Least
<1>7. Lengths'
  BY <1>1, <1>2, <1>3 DEF FilesInv, Lengths
<1>8. AppendIsOpen' /\ Appending'
  BY <1>1, <1>5 DEF AppendIsOpen, Appending
<1>9. AckedBelow' /\ Files!AckedIsKept'
  <2>1. ASSUME NEW k \in acked
        PROVE  /\ k[1] \in 1 .. n /\ codes'[k[1]] = k[2] /\ ids'[k[1]] = k[2]
               /\ k[1] <= Len(diskCodes) /\ diskCodes[k[1]] = k[2]
               /\ k[1] <= Len(diskIds) /\ diskIds[k[1]] = k[2]
    <3>1. k[1] \in 1 .. MaxSlots
      BY DEF FilesInv, Files!FlatTypeOK
    <3>2. k[1] <= n /\ codes[k[1]] = k[2] /\ ids[k[1]] = k[2]
      BY DEF FilesInv, Files!AckedIsKept
    <3>3. k[1] \in 1 .. n
      BY <1>2, <3>1, <3>2, FilesConstants
    <3> QED
      BY <1>3, <3>2, <3>3 DEF FilesInv, Files!AckedIsKept
  <2>2. Files!AckedIsKept'
    BY <1>1, <1>2, <1>4, <2>1 DEF Files!AckedIsKept
  <2>3. AckedBelow'
    BY <1>1, <1>2, <1>5, <2>1 DEF AckedBelow, Files!Process
  <2> QED
    BY <2>2, <2>3
<1>10. IdsFollow'
  <2> SUFFICES ASSUME ~mishap
               PROVE  IdsFollow'
    BY <1>1 DEF IdsFollow
  <2>1. n = Len(ids) /\ Len(codes) \in Nat
    BY FilesTypes DEF FilesInv, IdsFollow, Files!Slots, Files!Least
  <2>2. \A w \in Writer : count'[w] # Files!Closed => w = p
    BY <1>5 DEF Files!Process
  <2> QED
    BY <1>1, <1>2, <1>3, <1>5, <2>1, <2>2 DEF FilesInv, IdsFollow
<1> QED
  BY <1>2, <1>6, <1>7, <1>8, <1>9, <1>10, OpenFinds DEF FilesInv

LEMMA OnlyWriter ==
    ASSUME FilesInv, NEW p \in Writer, NEW w \in Writer,
           count[p] # Files!Closed, count[w] # Files!Closed
    PROVE  w = p
  BY FilesConstants DEF FilesInv, OneWriter, Files!Process

\* Where an open writer stands.
LEMMA WriterStands ==
    ASSUME FilesInv, NEW p \in Writer, count[p] # Files!Closed
    PROVE  /\ p \in Files!Process
           /\ count[p] \in 0 .. Len(codes) /\ count[p] \in 0 .. Len(ids) /\ count[p] \in 0 .. MaxSlots
           /\ \A w \in Writer : count[w] # Files!Closed => w = p
           /\ \A k \in acked : k[1] \in 1 .. count[p]
<1>1. p \in Files!Process
  BY DEF Files!Process
<1>2. count[p] \in 0 .. MaxSlots /\ count[p] <= Len(codes) /\ count[p] <= Len(ids)
  BY <1>1, FilesTypes DEF Files!Closed
<1>3. Len(codes) \in Nat /\ Len(ids) \in Nat
  BY FilesTypes
<1>4. ASSUME NEW k \in acked
      PROVE  k[1] \in 1 .. count[p]
  <2>1. k[1] \in 1 .. MaxSlots /\ k[1] <= count[p]
    BY DEF FilesInv, Files!FlatTypeOK, AckedBelow
  <2> QED
    BY <1>2, <2>1, FilesTypes
<1> QED
  BY <1>1, <1>2, <1>3, <1>4, OnlyWriter

LEMMA UpsertBegins ==
    ASSUME FilesInv, NEW p \in Writer, NEW points \in Files!Batches, Files!Upsert(p, points)
    PROVE  FilesInv'
<1>1. points \in Seq(Image)
  BY FilesConstants DEF Files!Batches
<1>2. /\ UNCHANGED <<codes, ids, diskCodes, diskIds, count, acked, mishap>>
      /\ adding' = points /\ phase' = "codes" /\ phase = "idle" /\ count[p] # Files!Closed
      /\ count[p] + Len(points) <= MaxSlots
  BY DEF Files!Upsert, Files!files, Files!disk
<1>3. Files!FlatTypeOK'
  BY <1>1, <1>2 DEF FilesInv, Files!FlatTypeOK, Files!Least
<1>4. OneWriter' /\ Lengths' /\ AppendIsOpen' /\ AckedBelow'
  BY <1>2 DEF FilesInv, OneWriter, Lengths, AppendIsOpen, AckedBelow
<1>5. Files!AckedIsKept'
  BY <1>2 DEF FilesInv, Files!AckedIsKept, Files!Slots, Files!Least
<1>6. Appending'
  BY <1>2, OnlyWriter DEF Appending
<1>7. IdsFollow'
  BY <1>2 DEF FilesInv, IdsFollow
<1> QED
  BY <1>3, <1>4, <1>5, <1>6, <1>7 DEF FilesInv

\* A write, of all the points or of some, behind the writer's slots.
LEMMA WriteBehind ==
    ASSUME FilesInv, NEW p \in Writer, count[p] # Files!Closed, phase # "idle",
           NEW file \in Seq(Image), count[p] \in 0 .. Len(file), Len(file) <= MaxSlots,
           NEW points \in Seq(Image), Len(points) <= Len(adding)
    PROVE  LET new == Files!Written(file, count[p], points)
           IN  /\ new \in Seq(Image) /\ Len(new) >= Len(file) /\ Len(new) <= MaxSlots
               /\ \A i \in 1 .. count[p] : new[i] = file[i]
               /\ Has(new, count[p], points)
               /\ Len(file) = count[p] => Len(new) = count[p] + Len(points)
<1>1. count[p] + Len(adding) <= MaxSlots
  BY DEF FilesInv, Appending
<1>2. /\ Len(points) \in Nat /\ Len(adding) \in Nat /\ Len(file) \in Nat
      /\ MaxSlots \in Nat /\ count[p] \in Nat
  BY FilesTypes
<1> DEFINE new == Files!Written(file, count[p], points)
<1>3. /\ new \in Seq(Image)
      /\ Len(new) = IF count[p] + Len(points) > Len(file) THEN count[p] + Len(points) ELSE Len(file)
      /\ \A i \in 1 .. count[p] : new[i] = file[i]
      /\ Has(new, count[p], points)
  BY WrittenFile
<1> HIDE DEF new
<1>4. Len(new) >= Len(file) /\ Len(new) <= MaxSlots
      /\ (Len(file) = count[p] => Len(new) = count[p] + Len(points))
  BY <1>1, <1>2, <1>3
<1> QED
  BY <1>3, <1>4 DEF new

LEMMA CodesAreWritten ==
    ASSUME FilesInv, NEW p \in Writer, Files!WriteCodes(p)
    PROVE  FilesInv'
<1> DEFINE Writes(points) ==
             /\ codes' = Files!Written(codes, count[p], points)
             /\ Len(points) <= Len(adding)
             /\ \/ points = adding /\ phase' = "syncCodes" /\ UNCHANGED <<adding, mishap>>
                \/ phase' = "idle" /\ adding' = <<>> /\ mishap' = TRUE
<1>1. PICK points \in Seq(Image) : Writes(points)
  <2>1. CASE codes' = Files!Written(codes, count[p], adding) /\ phase' = "syncCodes"
             /\ UNCHANGED <<adding, mishap>>
    BY <2>1, FilesTypes
  <2>2. ASSUME NEW n \in 0 .. Len(adding) - 1,
               codes' = Files!Written(codes, count[p], SubSeq(adding, 1, n)), Files!Failed
        PROVE  \E points \in Seq(Image) : Writes(points)
    <3>1. n \in 0 .. Len(adding) /\ Len(adding) \in Nat
      BY FilesTypes
    <3>2. SubSeq(adding, 1, n) \in Seq(Image) /\ Len(SubSeq(adding, 1, n)) <= Len(adding)
      BY <3>1, FilesTypes, CutFile
    <3> QED
      BY <2>2, <3>2 DEF Files!Failed
  <2> QED
    BY <2>1, <2>2 DEF Files!WriteCodes
<1>2. /\ UNCHANGED <<ids, diskCodes, diskIds, count, acked>>
      /\ count[p] # Files!Closed /\ phase = "codes"
  BY DEF Files!WriteCodes, Files!disk
<1>3. /\ codes' \in Seq(Image) /\ Len(codes') >= Len(codes) /\ Len(codes') <= MaxSlots
      /\ \A i \in 1 .. count[p] : codes'[i] = codes[i]
      /\ Has(codes', count[p], points)
  BY <1>1, <1>2, FilesTypes, WriterStands, WriteBehind DEF FilesInv, Lengths
<1>4. Len(codes') \in Nat /\ Len(codes) \in Nat /\ Len(ids) \in Nat
  BY <1>3, FilesTypes
<1>5. Files!FlatTypeOK'
  <2>1. \A q \in Files!Process : count[q] <= Files!Least(Len(codes'), Len(ids))
    BY <1>3, <1>4, FilesTypes DEF Files!Least
  <2>2. adding' \in Seq(Image)
    <3>1. adding \in Seq(Image) /\ << >> \in Seq(Image)
      BY FilesTypes
    <3> QED
      BY <1>1, <3>1
  <2> QED
    BY <1>1, <1>2, <1>3, <2>1, <2>2 DEF FilesInv, Files!FlatTypeOK, Files!Least
<1>6. OneWriter' /\ Lengths' /\ AppendIsOpen' /\ AckedBelow'
  BY <1>1, <1>2, <1>3 DEF FilesInv, OneWriter, Lengths, AppendIsOpen, AckedBelow
<1>7. Files!AckedIsKept'
  <2>1. ASSUME NEW k \in acked
        PROVE  k[1] <= Files!Least(Len(codes'), Len(ids)) /\ codes'[k[1]] = k[2]
    <3>1. k[1] \in 1 .. count[p] /\ count[p] <= Len(codes) /\ count[p] <= Len(ids)
      BY <1>2, WriterStands
    <3>2. codes[k[1]] = k[2]
      BY DEF FilesInv, Files!AckedIsKept
    <3> QED
      BY <1>3, <1>4, <3>1, <3>2, <1>2, WriterStands DEF Files!Least
  <2> QED
    BY <1>2, <2>1 DEF FilesInv, Files!AckedIsKept, Files!Slots
<1>8. Appending'
  BY <1>1, <1>2, <1>3, OnlyWriter DEF FilesInv, Appending
<1>9. IdsFollow'
  <2> SUFFICES ASSUME ~mishap'
               PROVE  IdsFollow'
    BY DEF IdsFollow
  <2>1. ~mishap /\ phase' = "syncCodes" /\ Len(ids) = count[p]
    BY <1>1, <1>2 DEF FilesInv, IdsFollow
  <2> QED
    BY <1>2, <1>3, <1>4, <2>1 DEF FilesInv, IdsFollow
<1> QED
  BY <1>5, <1>6, <1>7, <1>8, <1>9 DEF FilesInv

LEMMA IdsAreWritten ==
    ASSUME FilesInv, NEW p \in Writer, Files!WriteIds(p)
    PROVE  FilesInv'
<1> DEFINE Writes(points) ==
             /\ ids' = Files!Written(ids, count[p], points)
             /\ Len(points) <= Len(adding)
             /\ \/ points = adding /\ phase' = "syncIds" /\ UNCHANGED <<adding, mishap>>
                \/ phase' = "idle" /\ adding' = <<>> /\ mishap' = TRUE
<1>1. PICK points \in Seq(Image) : Writes(points)
  <2>1. CASE ids' = Files!Written(ids, count[p], adding) /\ phase' = "syncIds"
             /\ UNCHANGED <<adding, mishap>>
    BY <2>1, FilesTypes
  <2>2. ASSUME NEW n \in 0 .. Len(adding) - 1,
               ids' = Files!Written(ids, count[p], SubSeq(adding, 1, n)), Files!Failed
        PROVE  \E points \in Seq(Image) : Writes(points)
    <3>1. n \in 0 .. Len(adding) /\ Len(adding) \in Nat
      BY FilesTypes
    <3>2. SubSeq(adding, 1, n) \in Seq(Image) /\ Len(SubSeq(adding, 1, n)) <= Len(adding)
      BY <3>1, FilesTypes, CutFile
    <3> QED
      BY <2>2, <3>2 DEF Files!Failed
  <2> QED
    BY <2>1, <2>2 DEF Files!WriteIds
<1>2. /\ UNCHANGED <<codes, diskCodes, diskIds, count, acked>>
      /\ count[p] # Files!Closed /\ phase = "ids"
  BY DEF Files!WriteIds, Files!disk
<1>3. /\ ids' \in Seq(Image) /\ Len(ids') >= Len(ids) /\ Len(ids') <= MaxSlots
      /\ \A i \in 1 .. count[p] : ids'[i] = ids[i]
      /\ Has(ids', count[p], points)
      /\ Len(ids) = count[p] => Len(ids') = count[p] + Len(points)
  BY <1>1, <1>2, FilesTypes, WriterStands, WriteBehind DEF FilesInv, Lengths
<1>4. Len(ids') \in Nat /\ Len(codes) \in Nat /\ Len(ids) \in Nat /\ Len(diskIds) \in Nat
  BY <1>3, FilesTypes
<1>5. Files!FlatTypeOK'
  <2>1. ASSUME NEW q \in Files!Process
        PROVE  count[q] <= Files!Least(Len(codes), Len(ids'))
    <3>1. count[q] \in Int /\ count[q] <= Len(codes) /\ count[q] <= Len(ids)
      BY FilesTypes
    <3> QED
      BY <1>3, <1>4, <3>1 DEF Files!Least
  <2>2. adding' \in Seq(Image)
    <3>1. adding \in Seq(Image) /\ << >> \in Seq(Image)
      BY FilesTypes
    <3> QED
      BY <1>1, <3>1
  <2> QED
    BY <1>1, <1>2, <1>3, <2>1, <2>2 DEF FilesInv, Files!FlatTypeOK, Files!Least
<1>6. OneWriter' /\ Lengths' /\ AppendIsOpen' /\ AckedBelow'
  BY <1>1, <1>2, <1>3 DEF FilesInv, OneWriter, Lengths, AppendIsOpen, AckedBelow
<1>7. Files!AckedIsKept'
  <2>1. ASSUME NEW k \in acked
        PROVE  k[1] <= Files!Least(Len(codes), Len(ids')) /\ ids'[k[1]] = k[2]
    <3>1. k[1] \in 1 .. count[p] /\ count[p] <= Len(codes) /\ count[p] <= Len(ids)
      BY <1>2, WriterStands
    <3>2. ids[k[1]] = k[2]
      BY DEF FilesInv, Files!AckedIsKept
    <3> QED
      BY <1>3, <1>4, <3>1, <3>2, <1>2, WriterStands DEF Files!Least
  <2> QED
    BY <1>2, <2>1 DEF FilesInv, Files!AckedIsKept, Files!Slots
<1>8. Appending'
  BY <1>1, <1>2, <1>3, OnlyWriter DEF FilesInv, Appending
<1>9. IdsFollow'
  <2> SUFFICES ASSUME ~mishap'
               PROVE  IdsFollow'
    BY DEF IdsFollow
  <2>1. ~mishap /\ phase' = "syncIds" /\ UNCHANGED adding /\ points = adding /\ Len(ids) = count[p]
    BY <1>1, <1>2 DEF FilesInv, IdsFollow
  <2>2. diskCodes = codes /\ Has(codes, count[p], adding)
    BY <1>2 DEF FilesInv, Appending
  <2>3. Len(ids') = count[p] + Len(adding) /\ Has(ids', count[p], adding) /\ Len(adding) \in Nat
        /\ count[p] \in Nat
    BY <1>2, <1>3, <2>1, FilesTypes, WriterStands
  <2>4. ASSUME NEW i \in 1 .. Len(ids')
        PROVE  codes[i] = ids'[i]
    <3>0. i \in Nat /\ i >= 1 /\ i <= count[p] + Len(adding)
      BY <2>3
    <3>1. CASE i <= count[p]
      <4>1. i \in 1 .. count[p] /\ i \in 1 .. Len(ids)
        BY <2>1, <2>3, <3>0, <3>1
      <4>2. codes[i] = ids[i]
        BY <2>1, <4>1 DEF FilesInv, IdsFollow
      <4> QED
        BY <1>3, <4>1, <4>2
    <3>2. CASE i > count[p]
      <4>1. i - count[p] \in 1 .. Len(adding) /\ count[p] + (i - count[p]) = i
        BY <2>3, <3>0, <3>2
      <4> QED
        BY <2>2, <2>3, <4>1 DEF Has
    <3> QED
      BY <2>3, <3>0, <3>1, <3>2
  <2>5. Len(diskIds) <= Len(ids') /\ Len(ids') <= Len(codes) /\ Len(ids') <= Len(diskCodes)
    BY <1>3, <1>4, <2>1, <2>2, <2>3 DEF FilesInv, IdsFollow, Has
  <2>6. \A i \in 1 .. Len(diskIds) : diskIds[i] = ids'[i]
    BY <1>3, <1>4, <2>1 DEF FilesInv, IdsFollow
  <2>7. \A w \in Writer : count[w] # Files!Closed => Len(ids') = count[w] + Len(adding)
    BY <1>2, <2>3, OnlyWriter
  <2> QED
    BY <1>2, <2>1, <2>2, <2>4, <2>5, <2>6, <2>7 DEF IdsFollow
<1> QED
  BY <1>5, <1>6, <1>7, <1>8, <1>9 DEF FilesInv

\* A sync reaches the disk or fails; what is acknowledged is in both anyhow.
LEMMA FileIsSynced ==
    ASSUME FilesInv, Files!SyncCodes \/ Files!SyncIds
    PROVE  FilesInv'
<1>1. PICK p \in Writer : count[p] # Files!Closed
  BY DEF Files!SyncCodes, Files!SyncIds, FilesInv, AppendIsOpen
<1>2. /\ UNCHANGED <<codes, ids, count, acked>>
      /\ \/ phase = "syncCodes" /\ diskCodes' = codes /\ diskIds' = diskIds
              /\ phase' = "ids" /\ UNCHANGED <<adding, mishap>>
         \/ phase = "syncIds" /\ diskIds' = ids /\ diskCodes' = diskCodes
              /\ phase' = "map" /\ UNCHANGED <<adding, mishap>>
         \/ UNCHANGED <<diskCodes, diskIds>> /\ phase' = "idle" /\ adding' = <<>> /\ mishap' = TRUE
  BY DEF Files!SyncCodes, Files!SyncIds, Files!SyncedCodes, Files!SyncedIds, Files!Failed,
         Files!files
<1>3. Files!FlatTypeOK'
  <2>1. adding' \in Seq(Image)
    <3>1. adding \in Seq(Image) /\ << >> \in Seq(Image)
      BY FilesTypes
    <3> QED
      BY <1>2, <3>1
  <2> QED
    BY <1>2, <2>1 DEF FilesInv, Files!FlatTypeOK, Files!Least
<1>4. OneWriter' /\ Lengths' /\ AppendIsOpen' /\ AckedBelow'
  BY <1>1, <1>2 DEF FilesInv, OneWriter, Lengths, AppendIsOpen, AckedBelow
<1>5. Files!AckedIsKept'
  <2>1. ASSUME NEW k \in acked
        PROVE  k[1] <= Len(codes) /\ k[1] <= Len(ids)
    BY <1>1, WriterStands, FilesTypes
  <2> QED
    BY <1>2, <2>1 DEF FilesInv, Files!AckedIsKept, Files!Slots
<1>6. Appending'
  BY <1>2 DEF FilesInv, Appending, Has
<1>7. IdsFollow'
  <2> SUFFICES ASSUME ~mishap'
               PROVE  IdsFollow'
    BY DEF IdsFollow
  <2>1. Len(ids) \in Nat /\ Len(codes) \in Nat
    BY FilesTypes
  <2> QED
    BY <1>2, <2>1 DEF FilesInv, IdsFollow
<1> QED
  BY <1>3, <1>4, <1>5, <1>6, <1>7 DEF FilesInv

\* The end of an append: its slots count, or an error is returned.
LEMMA RemapEnds ==
    ASSUME FilesInv, NEW p \in Writer, Files!Remap(p)
    PROVE  FilesInv'
<1> DEFINE end == count[p] + Len(adding)
<1>1. /\ UNCHANGED <<codes, ids, diskCodes, diskIds>>
      /\ count[p] # Files!Closed /\ phase = "map" /\ phase' = "idle" /\ adding' = <<>>
      /\ count' \in {count, [count EXCEPT ![p] = end]}
      /\ \/ /\ mishap' = TRUE /\ acked' = acked
         \/ /\ count' = [count EXCEPT ![p] = end] /\ mishap' = mishap
            /\ acked' = acked \cup {<<count[p] + i, adding[i]>> : i \in 1 .. Len(adding)}
  BY DEF Files!Remap, Files!Failed, Files!files, Files!disk
<1>2. /\ p \in Files!Process /\ count[p] \in Nat /\ Len(adding) \in Nat /\ end \in 0 .. MaxSlots
      /\ Len(codes) \in Nat /\ Len(ids) \in Nat
  BY <1>1, FilesTypes, WriterStands DEF FilesInv, Appending
<1>3. /\ Has(codes, count[p], adding) /\ Has(ids, count[p], adding)
      /\ diskCodes = codes /\ diskIds = ids
  BY <1>1 DEF FilesInv, Appending
<1>4. end <= Len(codes) /\ end <= Len(ids)
  BY <1>3 DEF Has
<1>5. /\ count' \in [Files!Process -> {Files!Closed} \cup 0 .. MaxSlots]
      /\ count'[p] \in {count[p], end} /\ count[p] <= count'[p]
      /\ \A q \in Files!Process \ {p} : count'[q] = count[q]
  BY <1>1, <1>2 DEF FilesInv, Files!FlatTypeOK
<1>6. ASSUME NEW k \in acked' \ acked
      PROVE  /\ k \in (1 .. MaxSlots) \X Image
             /\ k[1] <= count'[p] /\ codes[k[1]] = k[2] /\ ids[k[1]] = k[2]
             /\ k[1] <= end
  <2>1. PICK i \in 1 .. Len(adding) : k = <<count[p] + i, adding[i]>>
    BY <1>1
  <2>2. count'[p] = end
    BY <1>1, <1>2 DEF FilesInv, Files!FlatTypeOK
  <2>3. count[p] + i \in 1 .. MaxSlots /\ count[p] + i <= end /\ adding[i] \in Image
    BY <1>2, FilesTypes
  <2> QED
    BY <1>3, <2>1, <2>2, <2>3 DEF Has
<1>7. Files!FlatTypeOK'
  <2>1. ASSUME NEW q \in Files!Process
        PROVE  count'[q] <= Files!Least(Len(codes), Len(ids))
    <3>1. count'[q] \in Int /\ count'[q] <= Len(codes) /\ count'[q] <= Len(ids)
      <4>1. count[q] \in Int /\ count[q] <= Len(codes) /\ count[q] <= Len(ids)
        BY FilesTypes
      <4>2. count'[q] \in {count[q], end}
        BY <1>5
      <4> QED
        BY <1>2, <1>4, <4>1, <4>2
    <3> QED
      BY <1>2, <3>1 DEF Files!Least
  <2>2. << >> \in Seq(Image)
    OBVIOUS
  <2>3. acked' \subseteq (1 .. MaxSlots) \X Image
    BY <1>6 DEF FilesInv, Files!FlatTypeOK
  <2>4. mishap' \in BOOLEAN
    BY <1>1 DEF FilesInv, Files!FlatTypeOK
  <2> QED
    BY <1>1, <1>5, <2>1, <2>2, <2>3, <2>4 DEF FilesInv, Files!FlatTypeOK, Files!Least
<1>8. OneWriter'
  BY <1>1, <1>5 DEF FilesInv, OneWriter
<1>9. Lengths' /\ AppendIsOpen' /\ Appending'
  BY <1>1 DEF FilesInv, Lengths, AppendIsOpen, Appending
<1>10. AckedBelow'
  <2>1. ASSUME NEW w \in Writer, count'[w] # Files!Closed
        PROVE  w = p
    BY <1>1, <1>5, <2>1, OnlyWriter DEF Files!Process
  <2>2. ASSUME NEW k \in acked
        PROVE  k[1] <= count'[p]
    <3>1. k[1] \in 1 .. count[p]
      BY <1>1, WriterStands
    <3> QED
      BY <1>2, <1>5, <3>1
  <2> QED
    BY <1>6, <2>1, <2>2 DEF AckedBelow
<1>11. Files!AckedIsKept'
  <2>1. ASSUME NEW k \in acked \cup acked'
        PROVE  k[1] <= Len(codes) /\ k[1] <= Len(ids) /\ k[1] <= Files!Least(Len(codes), Len(ids))
               /\ codes[k[1]] = k[2] /\ ids[k[1]] = k[2]
    <3>1. CASE k \in acked
      <4>1. k[1] \in 1 .. count[p]
        BY <1>1, <3>1, WriterStands
      <4>2. k[1] <= Len(codes) /\ k[1] <= Len(ids)
        BY <1>1, <4>1, WriterStands
      <4> QED
        BY <3>1, <4>2 DEF FilesInv, Files!AckedIsKept, Files!Slots
    <3>2. CASE k \notin acked
      <4>1. k[1] <= end /\ codes[k[1]] = k[2] /\ ids[k[1]] = k[2] /\ k[1] \in Nat
        BY <1>6, <3>2
      <4>2. k[1] <= Len(codes) /\ k[1] <= Len(ids)
        BY <1>2, <1>4, <4>1
      <4> QED
        BY <4>1, <4>2 DEF Files!Least
    <3> QED
      BY <3>1, <3>2
  <2> QED
    BY <1>1, <1>3, <2>1 DEF Files!AckedIsKept, Files!Slots
<1>12. IdsFollow'
  <2> SUFFICES ASSUME ~mishap'
               PROVE  IdsFollow'
    BY DEF IdsFollow
  <2>1. ~mishap /\ count'[p] = end /\ Len(ids) = end
    BY <1>1, <1>2 DEF FilesInv, IdsFollow, Files!FlatTypeOK
  <2>2. ASSUME NEW w \in Writer, count'[w] # Files!Closed
        PROVE  w = p
    BY <1>1, <1>5, <2>2, OnlyWriter DEF Files!Process
  <2> QED
    BY <1>1, <2>1, <2>2 DEF FilesInv, IdsFollow
<1> QED
  BY <1>7, <1>8, <1>9, <1>10, <1>11, <1>12 DEF FilesInv

\* A power cut: every slot that both sides agree on survives it.
LEMMA PowerIsCut ==
    ASSUME FilesInv, Files!PowerCut
    PROVE  FilesInv'
<1>1. /\ codes' \in Files!Survivors(diskCodes, codes) /\ diskCodes' = codes'
      /\ ids' \in Files!Survivors(diskIds, ids) /\ diskIds' = ids'
      /\ count' = [p \in Files!Process |-> Files!Closed]
      /\ phase' = "idle" /\ adding' = <<>> /\ UNCHANGED <<acked, mishap>>
  BY DEF Files!PowerCut
<1>2. /\ codes' \in Seq(Image)
      /\ Len(codes') >= Len(diskCodes) \/ Len(codes') >= Len(codes)
      /\ Len(codes') <= Len(diskCodes) \/ Len(codes') <= Len(codes)
      /\ \A i \in 1 .. Len(codes') : \/ i <= Len(diskCodes) /\ codes'[i] = diskCodes[i]
                                     \/ i <= Len(codes) /\ codes'[i] = codes[i]
  BY <1>1, FilesTypes, SurvivingFile
<1>3. /\ ids' \in Seq(Image)
      /\ Len(ids') >= Len(diskIds) \/ Len(ids') >= Len(ids)
      /\ Len(ids') <= Len(diskIds) \/ Len(ids') <= Len(ids)
      /\ \A i \in 1 .. Len(ids') : \/ i <= Len(diskIds) /\ ids'[i] = diskIds[i]
                                   \/ i <= Len(ids) /\ ids'[i] = ids[i]
  BY <1>1, FilesTypes, SurvivingFile
<1>4. /\ Len(codes) \in Nat /\ Len(ids) \in Nat /\ Len(diskCodes) \in Nat /\ Len(diskIds) \in Nat
      /\ Len(codes') \in Nat /\ Len(ids') \in Nat /\ MaxSlots \in Nat
  BY <1>2, <1>3, FilesTypes
<1>5. Files!FlatTypeOK'
  <2>1. << >> \in Seq(Image)
    OBVIOUS
  <2>2. Files!Closed <= Files!Least(Len(codes'), Len(ids'))
    BY <1>4 DEF Files!Least, Files!Closed
  <2> QED
    BY <1>1, <1>2, <1>3, <2>1, <2>2 DEF FilesInv, Files!FlatTypeOK, Files!Least
<1>6. OneWriter' /\ AppendIsOpen' /\ Appending' /\ AckedBelow'
  BY <1>1 DEF OneWriter, AppendIsOpen, Appending, AckedBelow, Files!Process
<1>7. Lengths'
  BY <1>1, <1>2, <1>3, <1>4 DEF FilesInv, Lengths
<1>8. Files!AckedIsKept'
  <2>1. ASSUME NEW k \in acked
        PROVE  /\ k[1] <= Len(codes') /\ codes'[k[1]] = k[2]
               /\ k[1] <= Len(ids') /\ ids'[k[1]] = k[2]
               /\ k[1] <= Files!Least(Len(codes'), Len(ids'))
    <3>1. k[1] \in 1 .. MaxSlots
      BY DEF FilesInv, Files!FlatTypeOK
    <3>2. /\ k[1] <= Files!Least(Len(codes), Len(ids))
          /\ codes[k[1]] = k[2] /\ ids[k[1]] = k[2]
          /\ k[1] <= Len(diskCodes) /\ diskCodes[k[1]] = k[2]
          /\ k[1] <= Len(diskIds) /\ diskIds[k[1]] = k[2]
      BY DEF FilesInv, Files!AckedIsKept, Files!Slots
    <3>3. k[1] \in Nat /\ k[1] >= 1 /\ k[1] <= Len(codes) /\ k[1] <= Len(ids)
      BY <1>4, <3>1, <3>2 DEF Files!Least
    <3>4. k[1] \in 1 .. Len(codes') /\ k[1] \in 1 .. Len(ids')
      BY <1>2, <1>3, <1>4, <3>2, <3>3
    <3>5. codes'[k[1]] = k[2] /\ ids'[k[1]] = k[2]
      BY <1>2, <1>3, <3>2, <3>4
    <3> QED
      BY <3>4, <3>5 DEF Files!Least
  <2> QED
    BY <1>1, <2>1 DEF Files!AckedIsKept, Files!Slots
<1>9. IdsFollow'
  <2> SUFFICES ASSUME ~mishap
               PROVE  IdsFollow'
    BY <1>1 DEF IdsFollow
  <2>1. /\ Len(diskIds) <= Len(ids) /\ Len(ids) <= Len(codes) /\ Len(ids) <= Len(diskCodes)
        /\ \A i \in 1 .. Len(ids) : codes[i] = ids[i] /\ diskCodes[i] = ids[i]
        /\ \A i \in 1 .. Len(diskIds) : diskIds[i] = ids[i]
    BY DEF FilesInv, IdsFollow
  <2>2. Len(ids') <= Len(ids) /\ Len(ids') <= Len(codes')
    BY <1>2, <1>3, <1>4, <2>1
  <2>3. ASSUME NEW i \in 1 .. Len(ids')
        PROVE  codes'[i] = ids'[i]
    <3>1. i \in 1 .. Len(ids) /\ i \in 1 .. Len(codes') /\ i \in Nat
      BY <1>4, <2>2
    <3>2. codes'[i] = ids[i]
      BY <1>2, <2>1, <3>1
    <3>3. ids'[i] = ids[i]
      <4>1. CASE i <= Len(diskIds) /\ ids'[i] = diskIds[i]
        <5>1. i \in 1 .. Len(diskIds)
          BY <1>4, <3>1, <4>1
        <5> QED
          BY <2>1, <4>1, <5>1
      <4> QED
        BY <1>3, <4>1
    <3> QED
      BY <3>2, <3>3
  <2>4. \A w \in Writer : count'[w] = Files!Closed
    BY <1>1 DEF Files!Process
  <2> QED
    BY <1>1, <1>4, <2>2, <2>3, <2>4 DEF IdsFollow
<1> QED
  BY <1>5, <1>6, <1>7, <1>8, <1>9 DEF FilesInv

LEMMA FlatNextKeepsInv ==
    ASSUME FilesInv, Files!FlatNext
    PROVE  FilesInv'
<1>1. ASSUME NEW p \in Files!Process, Files!Open(p) \/ Files!Shut(p) \/ Files!Crash(p)
      PROVE  FilesInv'
  BY <1>1, EndKeepsFiles, ReaderOpens, WriterOpens
<1>2. ASSUME NEW p \in Writer, Files!AppendStep(p)
      PROVE  FilesInv'
  BY <1>2, CodesAreWritten, IdsAreWritten, FileIsSynced, RemapEnds DEF Files!AppendStep
<1>3. ASSUME NEW p \in Writer, NEW points \in Files!Batches, Files!Upsert(p, points)
      PROVE  FilesInv'
  BY <1>3, UpsertBegins
<1> QED
  BY <1>1, <1>2, <1>3, PowerIsCut DEF Files!FlatNext

LEMMA FlatInitHasInv ==
    ASSUME Files!FlatInit
    PROVE  FilesInv
<1>1. MaxSlots \in Nat /\ Len(<< >>) = 0 /\ << >> \in Seq(Image)
  BY FilesConstants
<1>2. /\ codes = << >> /\ ids = << >> /\ diskCodes = << >> /\ diskIds = << >> /\ adding = << >>
      /\ count = [p \in Files!Process |-> Files!Closed]
      /\ phase = "idle" /\ acked = {} /\ mishap = FALSE
  BY DEF Files!FlatInit
<1>3. Files!FlatTypeOK
  <2>1. Files!Closed <= Files!Least(0, 0)
    BY DEF Files!Least, Files!Closed
  <2> QED
    BY <1>1, <1>2, <2>1 DEF Files!FlatTypeOK
<1>4. OneWriter /\ AppendIsOpen /\ Appending /\ AckedBelow /\ Files!AckedIsKept
  BY <1>2 DEF OneWriter, AppendIsOpen, Appending, AckedBelow, Files!AckedIsKept, Files!Process
<1>5. Lengths /\ IdsFollow
  BY <1>1, <1>2 DEF Lengths, IdsFollow, Files!Process
<1> QED
  BY <1>3, <1>4, <1>5 DEF FilesInv

\* What Upsert reported as stored stays in both files of the index and on disk,
\* for any number of processes, slots and points, through crashes, power cuts
\* that keep any part of what was not synced, and failed appends; and sudden
\* ends alone never pair a code with the id of another image.
THEOREM FilesHold == ImagesSpec => []FilesKeepPairs
<1>1. ImagesInit => FilesInv
  BY FlatInitHasInv DEF ImagesInit
<1>2. FilesInv /\ [ImagesNext]_<<part, vars, http, files, search>> => FilesInv'
  <2> SUFFICES ASSUME FilesInv, ImagesNext \/ UNCHANGED files
               PROVE  FilesInv'
    OBVIOUS
  <2>1. CASE UNCHANGED files
    BY <2>1 DEF files, FilesInv, Files!FlatTypeOK, OneWriter, Lengths, AppendIsOpen, Appending,
                Has, AckedBelow, Files!AckedIsKept, Files!Slots, Files!Least, IdsFollow
  <2> QED
    BY <2>1, FlatNextKeepsInv DEF ImagesNext
<1>3. FilesInv => FilesKeepPairs
  <2> SUFFICES ASSUME FilesInv, ~mishap, NEW p \in Files!Process, NEW i \in 1 .. count[p]
               PROVE  codes[i] = ids[i]
    BY DEF FilesInv, FilesKeepPairs, Files!PairedUnlessAnAppendFailed, Files!Paired,
           Files!FlatTypeOK
  <2>1. i \in 1 .. Len(ids)
    <3>1. count[p] \in Int /\ count[p] <= Len(ids) /\ Len(ids) \in Nat
      BY FilesTypes
    <3> QED
      BY <3>1
  <2> QED
    BY <2>1 DEF FilesInv, IdsFollow
<1> QED
  BY <1>1, <1>2, <1>3, PTL DEF ImagesSpec
-----------------------------------------------------------------------------
(* Search: a scan by any number of goroutines misses nothing, and what is   *)
(* cut by score and ranked by hash keeps the original.                      *)

\* The assumptions on the constants of a search, for the proofs.
LEMMA SearchConstants == Query!SearchAssumption
BY PartsAssumption

\* Search counts with a copy of Cardinality, as every instance does.
LEMMA QueryCounts ==
    /\ \A S : Query!IsFiniteSet(S) <=> IsFiniteSet(S)
    /\ \A S : Query!Cardinality(S) = Cardinality(S)
BY DEF Query!Cardinality, Cardinality, Query!IsFiniteSet, IsFiniteSet

-----------------------------------------------------------------------------
\* A set of numbers has a least one.
LEMMA HasLeast ==
    ASSUME NEW S \in SUBSET Nat, S # {}
    PROVE  \E x \in S : \A y \in S : x <= y
<1>1. PICK x \in S : \A y \in S : ~(<<y, x>> \in OpToRel(<, Nat))
  BY NatLessThanWellFounded, WFMin, Zenon
<1>2. \A y \in S : ~(y < x)
  BY <1>1 DEF OpToRel
<1> QED
  BY <1>2

(* Sets in an order.  An order is a set of pairs, the former first. *)

Strict(S, order) ==
    /\ \A x \in S : <<x, x>> \notin order
    /\ \A x, y, z \in S : <<x, y>> \in order /\ <<y, z>> \in order => <<x, z>> \in order
Total(S, order) == \A x, y \in S : x = y \/ <<x, y>> \in order \/ <<y, x>> \in order

Earlier(S, order, x) == {y \in S : <<y, x>> \in order}
PlaceIn(S, order, x) == Cardinality(Earlier(S, order, x))

\* Less is ahead of what comes earlier, and never all.
LEMMA EarlierPlace ==
    ASSUME NEW S, IsFiniteSet(S), NEW order, Strict(S, order), NEW x \in S
    PROVE  /\ PlaceIn(S, order, x) \in 0 .. Cardinality(S) - 1
           /\ \A y \in S : <<y, x>> \in order => PlaceIn(S, order, y) < PlaceIn(S, order, x)
<1>1. ASSUME NEW P \in SUBSET S
      PROVE  IsFiniteSet(P) /\ Cardinality(P) \in Nat
  BY FS_Subset, FS_CardinalityType
<1>2. ASSUME NEW P \in SUBSET S, NEW Q \in SUBSET P, Q # P
      PROVE  Cardinality(Q) < Cardinality(P)
  <2>1. IsFiniteSet(P) /\ Cardinality(P) \in Nat /\ Cardinality(Q) \in Nat
    BY <1>1
  <2> QED
    BY <1>2, <2>1, FS_Subset
<1>3. Earlier(S, order, x) \in SUBSET S /\ Earlier(S, order, x) # S
  BY DEF Earlier, Strict
<1>4. Cardinality(Earlier(S, order, x)) < Cardinality(S)
  <2>1. S \in SUBSET S
    OBVIOUS
  <2> QED
    BY <1>2, <1>3, <2>1
<1>5. ASSUME NEW y \in S, <<y, x>> \in order
      PROVE  PlaceIn(S, order, y) < PlaceIn(S, order, x)
  <2>1. Earlier(S, order, y) \in SUBSET Earlier(S, order, x)
    BY <1>5 DEF Earlier, Strict
  <2>2. y \in Earlier(S, order, x) /\ y \notin Earlier(S, order, y)
    BY <1>5 DEF Earlier, Strict
  <2> QED
    BY <1>2, <1>3, <2>1, <2>2 DEF PlaceIn
<1>6. Cardinality(Earlier(S, order, x)) \in Nat /\ Cardinality(S) \in Nat
  BY <1>1, <1>3, FS_CardinalityType
<1> QED
  BY <1>4, <1>5, <1>6 DEF PlaceIn

\* One is first.
LEMMA SomeoneIsFirst ==
    ASSUME NEW S, IsFiniteSet(S), S # {}, NEW order, Strict(S, order)
    PROVE  \E x \in S : Earlier(S, order, x) = {}
<1> DEFINE C == {PlaceIn(S, order, x) : x \in S}
<1>1. C \in SUBSET Nat /\ C # {}
  BY EarlierPlace
<1>2. PICK c \in C : \A d \in C : c <= d
  BY <1>1, HasLeast
<1>3. PICK x \in S : c = PlaceIn(S, order, x)
  OBVIOUS
<1>4. ASSUME NEW y \in Earlier(S, order, x) PROVE FALSE
  <2>1. y \in S /\ <<y, x>> \in order
    BY DEF Earlier
  <2>2. PlaceIn(S, order, y) < c /\ PlaceIn(S, order, y) \in Nat /\ c \in Nat
    BY <1>3, <2>1, EarlierPlace
  <2>3. c <= PlaceIn(S, order, y)
    BY <1>2, <2>1
  <2> QED
    BY <2>2, <2>3
<1> QED
  BY <1>4

\* In a total order everyone has a place of his own, and no place is free.
LEMMA PlacesAreTaken ==
    ASSUME NEW S, IsFiniteSet(S), NEW order, Strict(S, order), Total(S, order)
    PROVE  /\ \A x, y \in S : PlaceIn(S, order, x) = PlaceIn(S, order, y) => x = y
           /\ \A k \in 0 .. Cardinality(S) - 1 : \E x \in S : PlaceIn(S, order, x) = k
<1> DEFINE T == 0 .. Cardinality(S) - 1
           f == [x \in S |-> PlaceIn(S, order, x)]
<1>1. ASSUME NEW x \in S, NEW y \in S, PlaceIn(S, order, x) = PlaceIn(S, order, y), x # y
      PROVE  FALSE
  <2>1. <<x, y>> \in order \/ <<y, x>> \in order
    BY <1>1 DEF Total
  <2>2. PlaceIn(S, order, x) \in Int /\ PlaceIn(S, order, y) \in Int
    BY EarlierPlace
  <2>3. PlaceIn(S, order, x) < PlaceIn(S, order, y) \/ PlaceIn(S, order, y) < PlaceIn(S, order, x)
    BY <2>1, EarlierPlace
  <2> QED
    BY <1>1, <2>2, <2>3
<1>2. f \in [S -> T]
  BY EarlierPlace
<1>3. f \in Injection(S, T)
  BY <1>1, <1>2, Fun_IsInj
<1>4. Cardinality(S) \in Nat
  BY FS_CardinalityType
<1>5. IsFiniteSet(T) /\ Cardinality(T) = Cardinality(S)
  <2>1. 0 \in Int /\ Cardinality(S) - 1 \in Int
    BY <1>4
  <2>2. /\ IsFiniteSet(T)
        /\ Cardinality(T) = IF 0 > Cardinality(S) - 1 THEN 0 ELSE Cardinality(S) - 1 - 0 + 1
    BY <2>1, FS_Interval
  <2> QED
    BY <1>4, <2>2
<1>6. f \in Surjection(S, T)
  BY <1>3, <1>5, FS_Injection
<1>7. \A k \in T : \E x \in S : f[x] = k
  BY <1>6 DEF Surjection
<1> QED
  BY <1>1, <1>7

\* So many are among the first n.
LEMMA FirstOnesCounted ==
    ASSUME NEW S, IsFiniteSet(S), NEW order, Strict(S, order), Total(S, order), NEW n \in Nat
    PROVE  Cardinality({x \in S : PlaceIn(S, order, x) < n})
             = IF Cardinality(S) < n THEN Cardinality(S) ELSE n
<1> DEFINE F == {x \in S : PlaceIn(S, order, x) < n}
           m == IF Cardinality(S) < n THEN Cardinality(S) ELSE n
           T == 0 .. m - 1
           f == [x \in F |-> PlaceIn(S, order, x)]
<1>1. Cardinality(S) \in Nat /\ m \in Nat
  BY FS_CardinalityType
<1>2. f \in [F -> T]
  BY <1>1, EarlierPlace
<1>3. f \in Injection(F, T)
  <2>1. ASSUME NEW x \in F, NEW y \in F, f[x] = f[y] PROVE x = y
    <3>1. x \in S /\ y \in S /\ PlaceIn(S, order, x) = PlaceIn(S, order, y)
      BY <2>1
    <3> QED
      BY <3>1, PlacesAreTaken
  <2> HIDE DEF f, F, T
  <2> QED
    BY <1>2, <2>1, Fun_IsInj
<1>4. \A k \in T : \E x \in F : f[x] = k
  <2> SUFFICES ASSUME NEW k \in T PROVE \E x \in F : f[x] = k
    OBVIOUS
  <2>1. k \in 0 .. Cardinality(S) - 1 /\ k < n
    BY <1>1
  <2> QED
    BY <2>1, PlacesAreTaken
<1>5. f \in Surjection(F, T)
  BY <1>2, <1>4, Fun_IsSurj
<1>6. IsFiniteSet(T) /\ Cardinality(T) = m
  <2> HIDE DEF m
  <2>1. 0 \in Int /\ m - 1 \in Int
    BY <1>1
  <2>2. /\ IsFiniteSet(0 .. m - 1)
        /\ Cardinality(0 .. m - 1) = IF 0 > m - 1 THEN 0 ELSE m - 1 - 0 + 1
    BY <2>1, FS_Interval
  <2> QED
    BY <1>1, <2>2
<1> QED
  BY <1>3, <1>5, <1>6, FS_Injection

-----------------------------------------------------------------------------
(* A scan. *)

\* best is of these slots, as many as wanted, and none of the others is nearer.
Sound(best, from) ==
    /\ best \in SUBSET from
    /\ Cardinality(best) = IF Cardinality(from) < Want THEN Cardinality(from) ELSE Want
    /\ \A s \in best, t \in from : Query!Far(t) < Query!Far(s) => t \in best

\* One slot more.
LEMMA KeptIsSound ==
    ASSUME NEW from, IsFiniteSet(from), NEW n, n \notin from,
           \A s \in from \cup {n} : Query!Far(s) \in Int,
           NEW best, Sound(best, from), NEW new \in Query!Kept(best, n)
    PROVE  Sound(new, from \cup {n})
<1> DEFINE more == from \cup {n}
<1>1. /\ IsFiniteSet(best) /\ Cardinality(best) \in Nat /\ Cardinality(from) \in Nat
      /\ n \notin best /\ best \subseteq from
  BY FS_Subset, FS_CardinalityType DEF Sound
<1>2. Cardinality(more) = Cardinality(from) + 1
  BY FS_AddElement
<1>3. IsFiniteSet(best \cup {n}) /\ Cardinality(best \cup {n}) = Cardinality(best) + 1
  BY <1>1, FS_AddElement
<1>4. Want \in Nat /\ Want > 0
  BY SearchConstants DEF Query!SearchAssumption
<1>5. CASE Cardinality(best) < Want
  <2>1. new = best \cup {n}
    BY <1>5, QueryCounts DEF Query!Kept
  <2>2. Cardinality(from) < Want /\ Cardinality(best) = Cardinality(from)
    BY <1>1, <1>4, <1>5 DEF Sound
  <2>3. best = from
    BY <1>1, <2>2, FS_Subset
  <2>4. Cardinality(new) = IF Cardinality(more) < Want THEN Cardinality(more) ELSE Want
    BY <1>1, <1>2, <1>4, <2>1, <2>2, <2>3
  <2> QED
    BY <2>1, <2>3, <2>4 DEF Sound
<1>6. CASE ~(Cardinality(best) < Want)
  <2>1. PICK f \in Query!Farthest(best \cup {n}) : new = (best \cup {n}) \ {f}
    BY <1>6, QueryCounts DEF Query!Kept
  <2>2. f \in best \cup {n} /\ \A t \in best \cup {n} : Query!Far(t) <= Query!Far(f)
    BY <2>1 DEF Query!Farthest
  <2>3. Cardinality(best) = Want /\ ~(Cardinality(from) < Want)
    BY <1>1, <1>4, <1>6 DEF Sound
  <2>4. Cardinality(new) = Cardinality(best)
    <3> DEFINE all == best \cup {n}
    <3>1. IsFiniteSet(all) /\ f \in all /\ Cardinality(all) = Cardinality(best) + 1
      BY <1>3, <2>2
    <3> HIDE DEF all
    <3>2. Cardinality(all \ {f}) = Cardinality(all) - 1
      BY <3>1, FS_RemoveElement
    <3> QED
      BY <1>1, <2>1, <3>1, <3>2 DEF all
  <2>5. Cardinality(new) = IF Cardinality(more) < Want THEN Cardinality(more) ELSE Want
    BY <1>1, <1>2, <1>4, <2>3, <2>4
  <2>6. ASSUME NEW s \in new, NEW t \in more, Query!Far(t) < Query!Far(s)
        PROVE  t \in new
    <3>1. s \in best \cup {n} /\ s # f /\ Query!Far(s) <= Query!Far(f)
      BY <2>1, <2>2
    <3>2. Query!Far(t) \in Int /\ Query!Far(s) \in Int /\ Query!Far(f) \in Int
      BY <1>1, <2>2, <3>1
    <3>3. Query!Far(t) < Query!Far(f)
      BY <2>6, <3>1, <3>2
    <3>4. t # f
      BY <3>2, <3>3
    <3>5. t \in best \cup {n}
      <4>1. CASE s \in best
        BY <2>6, <4>1 DEF Sound
      <4>2. CASE f \in best
        BY <3>3, <4>2 DEF Sound
      <4> QED
        BY <2>2, <3>1, <4>1, <4>2
    <3> QED
      BY <2>1, <3>4, <3>5
  <2>7. new \in SUBSET more
    BY <1>1, <2>1
  <2> QED
    BY <2>5, <2>6, <2>7 DEF Sound
<1> QED
  BY <1>5, <1>6

\* What is kept, slot by slot.
Scanned(f, P, n) ==
    f = [s \in 0 .. n |-> IF s = 0 THEN {{}}
                          ELSE IF s \notin P THEN f[s - 1]
                          ELSE UNION {Query!Kept(best, s) : best \in f[s - 1]}]

\* The recursive function of scanRange, as what is kept slot by slot,
LEMMA ScanRangeIsScanned ==
    ASSUME NEW P
    PROVE  Query!ScanRange(P) = (CHOOSE f : Scanned(f, P, Len(slots)))[Len(slots)]
BY DEF Query!ScanRange, Scanned

\* which there is for any number of slots.
LEMMA ScansExist ==
    ASSUME NEW P, NEW N \in Nat
    PROVE  \E f : Scanned(f, P, N)
<1> DEFINE Bad == {n \in Nat : ~\E f : Scanned(f, P, n)}
<1>1. Bad = {}
  <2> SUFFICES ASSUME Bad # {} PROVE FALSE
    OBVIOUS
  <2>1. PICK n \in Bad : \A k \in Bad : n <= k
    <3>1. Bad \in SUBSET Nat
      OBVIOUS
    <3> HIDE DEF Bad
    <3> QED
      BY <3>1, HasLeast
  <2>2. n \in Nat /\ ~\E f : Scanned(f, P, n)
    OBVIOUS
  <2>3. n # 0
    <3>1. Scanned([s \in 0 .. 0 |-> {{}}], P, 0)
      BY DEF Scanned
    <3> QED
      BY <2>2, <3>1
  <2>4. n - 1 \in Nat /\ n - 1 \notin Bad
    <3>1. n - 1 \in Nat /\ ~(n <= n - 1)
      BY <2>2, <2>3
    <3> HIDE DEF Bad
    <3> QED
      BY <2>1, <3>1
  <2>5. PICK g : Scanned(g, P, n - 1)
    BY <2>4
  <2> DEFINE Row(h, s) == IF s = 0 THEN {{}}
                          ELSE IF s \notin P THEN h[s - 1]
                          ELSE UNION {Query!Kept(best, s) : best \in h[s - 1]}
             f == [s \in 0 .. n |-> IF s = n THEN Row(g, n) ELSE g[s]]
  <2>6. ASSUME NEW s \in 0 .. n PROVE f[s] = Row(f, s)
    <3>1. CASE s = n
      <4>1. f[n - 1] = g[n - 1]
        BY <2>2, <2>3
      <4>2. f[n] = Row(g, n)
        BY <2>2
      <4> HIDE DEF f
      <4> QED
        BY <3>1, <4>1, <4>2, <2>3
    <3>2. CASE s # n
      <4>1. s \in 0 .. n - 1 /\ f[s] = g[s]
        BY <2>2, <3>2
      <4>2. g[s] = Row(g, s)
        BY <2>5, <4>1 DEF Scanned
      <4>3. s # 0 => f[s - 1] = g[s - 1]
        BY <2>2, <3>2, <4>1
      <4> HIDE DEF f
      <4> QED
        BY <4>1, <4>2, <4>3
    <3> QED
      BY <3>1, <3>2
  <2>7. f = [s \in 0 .. n |-> Row(f, s)]
    <3>1. f = [s \in 0 .. n |-> f[s]]
      OBVIOUS
    <3> HIDE DEF f, Row
    <3> QED
      BY <2>6, <3>1
  <2>8. Scanned(f, P, n)
    <3> HIDE DEF f
    <3> QED
      BY <2>7 DEF Scanned
  <2> QED
    BY <2>2, <2>8
<1> QED
  BY <1>1

\* What a goroutine returns of its part is sound.
LEMMA ScanRangeIsSound ==
    ASSUME Len(slots) \in Nat, \A s \in 1 .. Len(slots) : Query!Far(s) \in Int,
           NEW P \in SUBSET (1 .. Len(slots)), NEW best \in Query!ScanRange(P)
    PROVE  Sound(best, P)
<1>0. 1 \in Int /\ Len(slots) \in Int
  OBVIOUS
<1>1. PICK f : Scanned(f, P, Len(slots)) /\ f[Len(slots)] = Query!ScanRange(P)
  <2> DEFINE f == CHOOSE f : Scanned(f, P, Len(slots))
  <2>1. Scanned(f, P, Len(slots))
    BY ScansExist
  <2> HIDE DEF f
  <2>2. f[Len(slots)] = Query!ScanRange(P)
    BY ScanRangeIsScanned DEF f
  <2> QED
    BY <2>1, <2>2
<1> DEFINE From(n) == P \cap 1 .. n
           Bad == {n \in 0 .. Len(slots) : ~\A chosen \in f[n] : Sound(chosen, From(n))}
<1>2. Bad = {}
  <2> SUFFICES ASSUME Bad # {} PROVE FALSE
    OBVIOUS
  <2>1. PICK n \in Bad : \A k \in Bad : n <= k
    <3>1. Bad \in SUBSET Nat
      OBVIOUS
    <3> HIDE DEF Bad
    <3> QED
      BY <3>1, HasLeast
  <2>2. n \in 0 .. Len(slots)
    OBVIOUS
  <2>3. PICK chosen \in f[n] : ~Sound(chosen, From(n))
    OBVIOUS
  <2>4. Want \in Nat /\ Want > 0
    BY SearchConstants DEF Query!SearchAssumption
  <2>5. CASE n = 0
    <3>1. chosen = {}
      BY <1>1, <2>2, <2>3, <2>5 DEF Scanned
    <3>2. From(n) = {} /\ Cardinality({}) = 0
      BY <2>5, FS_EmptySet
    <3> HIDE DEF From
    <3> QED
      BY <2>3, <2>4, <3>1, <3>2 DEF Sound
  <2>6. CASE n # 0
    <3>1. n - 1 \in 0 .. Len(slots) /\ n \in 1 .. Len(slots) /\ ~(n <= n - 1)
      BY <2>2, <2>6
    <3>2. n - 1 \notin Bad
      <4> HIDE DEF Bad
      <4> QED
        BY <2>1, <3>1
    <3>3. \A sofar \in f[n - 1] : Sound(sofar, From(n - 1))
      BY <3>1, <3>2
    <3>4. n \notin From(n - 1) /\ From(n - 1) \cup {n} \subseteq 1 .. Len(slots)
      BY <3>1
    <3>5. IsFiniteSet(From(n - 1))
      <4>1. IsFiniteSet(1 .. Len(slots))
        BY <1>0, FS_Interval
      <4> QED
        BY <3>4, <4>1, FS_Subset
    <3>6. f[n] = IF n \notin P THEN f[n - 1] ELSE UNION {Query!Kept(sofar, n) : sofar \in f[n - 1]}
      BY <1>1, <2>6, <3>1 DEF Scanned
    <3>7. CASE n \notin P
      <4>1. From(n) = From(n - 1)
        BY <3>1, <3>7
      <4>2. chosen \in f[n - 1]
        BY <2>3, <3>6, <3>7
      <4> HIDE DEF From
      <4> QED
        BY <2>3, <3>3, <4>1, <4>2
    <3>8. CASE n \in P
      <4>1. From(n) = From(n - 1) \cup {n}
        BY <3>1, <3>8
      <4>2. PICK sofar \in f[n - 1] : chosen \in Query!Kept(sofar, n)
        BY <2>3, <3>6, <3>8
      <4> HIDE DEF From
      <4>3. Sound(sofar, From(n - 1))
        BY <3>3
      <4>4. \A s \in From(n - 1) \cup {n} : Query!Far(s) \in Int
        BY <3>4
      <4> QED
        BY <2>3, <3>4, <3>5, <4>1, <4>2, <4>3, <4>4, KeptIsSound
    <3> QED
      BY <3>7, <3>8
  <2> QED
    BY <2>5, <2>6
<1>3. Len(slots) \in 0 .. Len(slots)
  OBVIOUS
<1>4. From(Len(slots)) = P
  OBVIOUS
<1> HIDE DEF From
<1> QED
  BY <1>1, <1>2, <1>3, <1>4

\* The parts leave no slot out.
LEMMA PartsCover ==
    ASSUME Len(slots) \in Nat, NEW s \in 1 .. Len(slots)
    PROVE  \E g \in 1 .. Scanners : s \in Query!Part(g)
<1> DEFINE per == (Len(slots) + Scanners - 1) \div Scanners
           Ends == {g \in 0 .. Scanners : s <= g * per}
<1>1. Scanners \in Nat /\ Scanners > 0
  BY SearchConstants DEF Query!SearchAssumption
<1>2. per \in Nat /\ Len(slots) <= Scanners * per
  <2> DEFINE n == Len(slots) + Scanners - 1
  <2>1. n \in Nat
    BY <1>1
  <2>2. n \div Scanners \in Nat /\ n < Scanners * (n \div Scanners) + Scanners
        /\ Scanners * (n \div Scanners) \in Nat
    <3> HIDE DEF n
    <3> QED
      BY <1>1, <2>1
  <2> QED
    BY <1>1, <2>2
<1> HIDE DEF per
<1>3. Scanners \in Ends
  BY <1>1, <1>2
<1>4. PICK g \in Ends : \A h \in Ends : g <= h
  <2>1. Ends \in SUBSET Nat /\ Ends # {}
    BY <1>1, <1>3
  <2> HIDE DEF Ends
  <2> QED
    BY <2>1, HasLeast
<1>5. g \in 0 .. Scanners /\ s <= g * per
  OBVIOUS
<1>6. g # 0
  <2>1. 0 * per = 0
    BY <1>2
  <2> QED
    BY <1>5, <2>1
<1>7. ~(s <= (g - 1) * per)
  <2>1. g - 1 \in 0 .. Scanners /\ ~(g <= g - 1)
    BY <1>1, <1>5, <1>6
  <2> QED
    BY <1>4, <2>1
<1>8. (g - 1) * per < s
  <2>1. (g - 1) * per \in Int
    BY <1>1, <1>2, <1>5
  <2> QED
    BY <1>7, <2>1
<1>9. g \in 1 .. Scanners
  BY <1>1, <1>5, <1>6
<1> QED
  BY <1>5, <1>8, <1>9 DEF Query!Part, per

\* The nearest of the parts together are the nearest of all.
LEMMA NearestOfAll ==
    ASSUME Len(slots) \in Nat, \A s \in 1 .. Len(slots) : Query!Far(s) \in Int,
           NEW all \in SUBSET (1 .. Len(slots)),
           \A g \in 1 .. Scanners : all \cap Query!Part(g) \in Query!ScanRange(Query!Part(g))
    PROVE  /\ Query!Nearest(all) \subseteq 1 .. Len(slots)
           /\ Cardinality(Query!Nearest(all)) = (IF Len(slots) < Want THEN Len(slots) ELSE Want)
           /\ \A s \in Query!Nearest(all), t \in 1 .. Len(slots) :
                  Query!Far(t) < Query!Far(s) => t \in Query!Nearest(all)
<1> DEFINE order == {q \in all \X all : Query!Far(q[1]) < Query!Far(q[2])
                                       \/ (Query!Far(q[1]) = Query!Far(q[2]) /\ q[1] < q[2])}
<1>0. IsFiniteSet(1 .. Len(slots)) /\ Cardinality(1 .. Len(slots)) = Len(slots)
  <2>1. 1 \in Int /\ Len(slots) \in Int
    OBVIOUS
  <2>2. /\ IsFiniteSet(1 .. Len(slots))
        /\ Cardinality(1 .. Len(slots)) = IF 1 > Len(slots) THEN 0 ELSE Len(slots) - 1 + 1
    BY <2>1, FS_Interval
  <2> QED
    BY <2>2
<1>1. IsFiniteSet(all) /\ Cardinality(all) \in Nat /\ Cardinality(all) <= Len(slots)
  BY <1>0, FS_Subset, FS_CardinalityType
<1>2. \A s \in all : Query!Far(s) \in Int /\ s \in Int
  OBVIOUS
<1>3. \A s, t \in all :
          <<t, s>> \in order <=> Query!Far(t) < Query!Far(s) \/ (Query!Far(t) = Query!Far(s) /\ t < s)
  OBVIOUS
<1> HIDE DEF order
<1>4. Strict(all, order) /\ Total(all, order)
  BY <1>2, <1>3 DEF Strict, Total
<1>5. ASSUME NEW s \in all
      PROVE  {t \in all : Query!Far(t) < Query!Far(s) \/ (Query!Far(t) = Query!Far(s) /\ t < s)}
               = Earlier(all, order, s)
  BY <1>3 DEF Earlier
<1>6. Query!Nearest(all) = {s \in all : PlaceIn(all, order, s) < Want}
  BY <1>5, QueryCounts DEF Query!Nearest, PlaceIn
<1>7. Want \in Nat
  BY SearchConstants DEF Query!SearchAssumption
<1>8. Cardinality(Query!Nearest(all)) = IF Cardinality(all) < Want THEN Cardinality(all) ELSE Want
  BY <1>1, <1>4, <1>6, <1>7, FirstOnesCounted
\* A slot that was dropped left as many as wanted behind, none farther.
<1>9. ASSUME NEW t \in 1 .. Len(slots), t \notin all
      PROVE  \E best \in SUBSET all :
                 Cardinality(best) = Want /\ \A s \in best : ~(Query!Far(t) < Query!Far(s))
  <2>1. PICK g \in 1 .. Scanners : t \in Query!Part(g)
    BY PartsCover
  <2> DEFINE best == all \cap Query!Part(g)
  <2>2. Query!Part(g) \in SUBSET (1 .. Len(slots))
    BY DEF Query!Part
  <2>3. Sound(best, Query!Part(g))
    BY <2>2, ScanRangeIsSound
  <2>4. IsFiniteSet(Query!Part(g))
    BY <1>0, <2>2, FS_Subset
  <2>5. t \in Query!Part(g) /\ t \notin best /\ best \in SUBSET Query!Part(g)
    BY <1>9, <2>1
  <2>6. Cardinality(best) # Cardinality(Query!Part(g))
    BY <2>4, <2>5, FS_Subset
  <2>7. Cardinality(best) = Want
    BY <2>3, <2>6 DEF Sound
  <2>8. \A s \in best : ~(Query!Far(t) < Query!Far(s))
    BY <2>3, <2>5 DEF Sound
  <2> QED
    BY <2>7, <2>8
<1>10. Cardinality(Query!Nearest(all)) = (IF Len(slots) < Want THEN Len(slots) ELSE Want)
  <2>1. CASE all = 1 .. Len(slots)
    BY <1>0, <1>8, <2>1
  <2>2. CASE all # 1 .. Len(slots)
    <3>1. PICK t \in 1 .. Len(slots) : t \notin all
      BY <2>2
    <3>2. PICK best \in SUBSET all : Cardinality(best) = Want
      BY <1>9, <3>1
    <3>3. Want <= Cardinality(all)
      BY <1>1, <3>2, FS_Subset
    <3> QED
      BY <1>1, <1>7, <1>8, <3>3
  <2> QED
    BY <2>1, <2>2
<1>11. ASSUME NEW s \in Query!Nearest(all), NEW t \in 1 .. Len(slots), Query!Far(t) < Query!Far(s)
       PROVE  t \in Query!Nearest(all)
  <2>1. s \in all /\ PlaceIn(all, order, s) < Want /\ PlaceIn(all, order, s) \in Int
    BY <1>1, <1>4, <1>6, EarlierPlace
  <2>2. CASE t \in all
    <3>1. PlaceIn(all, order, t) < PlaceIn(all, order, s) /\ PlaceIn(all, order, t) \in Int
      <4>1. <<t, s>> \in order
        BY <1>3, <1>11, <2>1, <2>2
      <4> QED
        BY <1>1, <1>4, <2>1, <2>2, <4>1, EarlierPlace
    <3> QED
      BY <1>6, <1>7, <2>1, <2>2, <3>1
  <2>3. CASE t \notin all
    <3>1. PICK best \in SUBSET all :
                 Cardinality(best) = Want /\ \A r \in best : ~(Query!Far(t) < Query!Far(r))
      BY <1>9, <2>3
    <3>2. ASSUME NEW r \in best PROVE Query!Far(r) < Query!Far(s)
      <4>1. Query!Far(r) \in Int /\ Query!Far(t) \in Int /\ Query!Far(s) \in Int
        BY <2>1, <3>1
      <4>2. ~(Query!Far(t) < Query!Far(r))
        BY <3>1
      <4> QED
        BY <1>11, <4>1, <4>2
    <3>3. best \in SUBSET Earlier(all, order, s)
      BY <1>3, <2>1, <3>1, <3>2 DEF Earlier
    <3>4. Earlier(all, order, s) \in SUBSET all
      BY DEF Earlier
    <3>5. Want <= PlaceIn(all, order, s)
      BY <1>1, <3>1, <3>3, <3>4, FS_Subset DEF PlaceIn
    <3> QED
      BY <1>7, <2>1, <3>5
  <2> QED
    BY <2>2, <2>3
<1>12. Query!Nearest(all) \subseteq 1 .. Len(slots)
  BY <1>6
<1> QED
  BY <1>10, <1>11, <1>12

-----------------------------------------------------------------------------
(* The state of a search and what goes on beside it. *)

StoresTyped ==
    /\ backup \in [Query!Images -> Nat \cup {Gone}]
    /\ hashes \in [Query!Images -> Nat \cup {Query!NoHash, Gone}]
    /\ \A i \in Query!Images : backup[i] = Gone <=> hashes[i] = Gone
    /\ slots \in Seq([id : Query!Images, code : Nat])
    /\ pending \in SUBSET [id : Query!Images, code : Nat] /\ IsFiniteSet(pending)
    /\ Len(slots) + Cardinality(pending) <= SearchedSlots

SearchTyped ==
    /\ step \in Query!Under \cup {"idle", "embed", "save"}
    /\ cache # Gone => cache \in [vec : {QueryVec, OlderVec}, hash : {Query!NoHash, QueryHash}]
    /\ query \in [vec : Nat, hash : Int]
    /\ step = "save" => query = [vec |-> QueryVec, hash |-> QueryHash]
    /\ upTo \in 0 .. Len(slots) /\ found \subseteq 1 .. upTo
    /\ step # "rescore" => found = {}
    /\ matches \in Seq([id : Query!Images, score : Int]) /\ Len(matches) <= Candidates
    /\ Len(hits) <= Limit

\* An original among the nearest is still there when the matches are ranked.
OriginalIsMatched ==
    step = "rank" =>
        \A i \in Query!Images \ changed :
            Query!Original(i) => \E k \in 1 .. Len(matches) : matches[k].id = i

SearchInv ==
    /\ StoresTyped /\ SearchTyped
    /\ Query!NothingNearerIsMissed /\ Query!SecondIsLikeTheFirst
    /\ OriginalIsMatched /\ Query!OriginalIsFound

\* What is a number.
LEMMA SearchNumbers ==
    /\ Query!NoHash \in Int /\ Query!NoHash \notin Nat /\ Gone \notin Int
    /\ {QueryVec, OlderVec, QueryHash, Threshold, SearchedSlots, MaxSearches} \subseteq Nat
    /\ {Limit, Candidates, Want, Scanners} \subseteq Nat \ {0}
    /\ Limit <= Candidates /\ Candidates <= Want
    /\ Query!Images \subseteq Nat
    /\ \A s \in Submissions :
           s.id \in Query!Images /\ s.vec \in Nat /\ s.hash \in Nat \cup {Query!NoHash}
BY SearchConstants DEF Query!SearchAssumption, Query!NoHash, Query!Images

\* Finitely many submissions are of finitely many images.
LEMMA ImagesAreFinite == IsFiniteSet(Query!Images) /\ Cardinality(Query!Images) \in Nat
<1> DEFINE f == [s \in Submissions |-> s.id]
<1>1. f \in Surjection(Submissions, Query!Images)
  <2>1. /\ f \in [Submissions -> Query!Images]
        /\ \A i \in Query!Images : \E s \in Submissions : f[s] = i
    BY DEF Query!Images
  <2> HIDE DEF f
  <2> QED
    BY <2>1, Fun_IsSurj
<1>2. IsFiniteSet(Submissions)
  BY SearchConstants, QueryCounts DEF Query!SearchAssumption
<1> QED
  BY <1>1, <1>2, FS_Surjection, FS_CardinalityType

\* A distance is a natural number, and so is a code.
LEMMA DistanceIsNat ==
    ASSUME NEW v \in Int, NEW w \in Int
    PROVE  Query!Distance(v, w) \in Nat
BY DEF Query!Distance

LEMMA CodeIsNat == ASSUME NEW v \in Nat PROVE Query!Code(v) \in Nat
BY DEF Query!Code

\* How far a slot is from the query is a number.
LEMMA FarIsInt ==
    ASSUME StoresTyped, query \in [vec : Nat, hash : Int]
    PROVE  Len(slots) \in Nat /\ \A s \in 1 .. Len(slots) : Query!Far(s) \in Int
<1>1. ASSUME NEW s \in 1 .. Len(slots) PROVE slots[s].code \in Int
  <2>1. slots \in Seq([id : Query!Images, code : Nat])
    BY DEF StoresTyped
  <2>2. slots[s] \in [id : Query!Images, code : Nat]
    BY <2>1, ElementOfSeq
  <2> QED
    BY <2>2
<1>2. Query!Code(query.vec) \in Int
  BY CodeIsNat
<1>3. Len(slots) \in Nat
  BY DEF StoresTyped
<1>4. ASSUME NEW s \in 1 .. Len(slots) PROVE Query!Far(s) \in Nat
  <2>1. slots[s].code \in Int
    BY <1>1
  <2> QED
    BY <1>2, <2>1, DistanceIsNat DEF Query!Far
<1> QED
  BY <1>3, <1>4

\* The initial state of a search.
LEMMA InitSearchInv == Query!SearchInit => SearchInv
<1> SUFFICES ASSUME Query!SearchInit PROVE SearchInv
  OBVIOUS
<1> USE DEF Query!SearchInit
<1>1. StoresTyped
  BY SearchNumbers, FS_EmptySet DEF StoresTyped
<1>2. SearchTyped
  BY SearchNumbers DEF SearchTyped, Query!NoQuery
<1> QED
  BY <1>1, <1>2 DEF SearchInv, Query!NothingNearerIsMissed, Query!SecondIsLikeTheFirst,
                    OriginalIsMatched, Query!OriginalIsFound, Query!Under

-----------------------------------------------------------------------------
(* Beside the search. *)

\* Who may come before an image by the vectors, and the image.
Rivals(i) ==
    {j \in Query!Images : \/ j \in changed \/ j = i
                          \/ /\ backup[j] # Gone
                             /\ Query!Distance(backup[j], query.vec)
                                  <= Query!Distance(backup[i], query.vec)}

\* What is stored or deleted meanwhile makes no new originals.
LEMMA OriginalBefore ==
    ASSUME SearchInv, query' = query, upTo' = upTo, changed \subseteq changed',
           \A s \in 1 .. upTo : slots'[s] = slots[s],
           \A j \in Query!Images \ changed' : backup'[j] = backup[j] /\ hashes'[j] = hashes[j],
           NEW i \in Query!Images \ changed', Query!Original(i)'
    PROVE  Query!Original(i)
<1>1. Rivals(i) \in SUBSET Rivals(i)'
  BY DEF Rivals
<1>2. Cardinality(Rivals(i)') <= Candidates
  BY QueryCounts DEF Query!Original, Rivals
<1>3. Cardinality(Rivals(i)) <= Candidates
  <2>1. IsFiniteSet(Rivals(i)')
    <3>1. Rivals(i)' \in SUBSET Query!Images
      BY DEF Rivals, Query!Images
    <3> QED
      BY <3>1, ImagesAreFinite, FS_Subset
  <2>2. /\ Cardinality(Rivals(i)) <= Cardinality(Rivals(i)')
        /\ Cardinality(Rivals(i)) \in Int /\ Cardinality(Rivals(i)') \in Int
    BY <1>1, <2>1, FS_Subset, FS_CardinalityType
  <2> QED
    BY <1>2, <2>2, SearchNumbers
<1>4. /\ backup[i] # Gone /\ hashes[i] # Query!NoHash
      /\ Query!Distance(hashes[i], query.hash) <= Threshold
  BY DEF Query!Original
<1>5. PICK s \in 1 .. upTo : slots'[s].id = i
             /\ Cardinality({t \in 1 .. upTo : Query!Far(t)' <= Query!Far(s)'}) <= Want
  BY QueryCounts DEF Query!Original
<1>6. \A t \in 1 .. upTo : Query!Far(t)' = Query!Far(t)
  BY DEF Query!Far
<1>7. {t \in 1 .. upTo : Query!Far(t)' <= Query!Far(s)'}
        = {t \in 1 .. upTo : Query!Far(t) <= Query!Far(s)}
  BY <1>6
<1>8. slots[s].id = i
  BY <1>5
<1> QED
  BY <1>3, <1>4, <1>5, <1>7, <1>8, QueryCounts DEF Query!Original, Rivals

\* Whatever goes on beside the search leaves it alone.
LEMMA BesideKeepsSearch ==
    ASSUME SearchInv, StoresTyped', UNCHANGED <<cache, Query!searching>>,
           Len(slots) \in Int, Len(slots') \in Int, Len(slots) <= Len(slots'),
           \A s \in 1 .. Len(slots) : slots'[s] = slots[s],
           changed \subseteq changed',
           \A j \in Query!Images \ changed' : backup'[j] = backup[j] /\ hashes'[j] = hashes[j]
    PROVE  SearchInv'
<1> USE DEF Query!searching
<1>1. SearchTyped'
  <2>1. upTo' \in 0 .. Len(slots')
    BY DEF SearchInv, SearchTyped
  <2> QED
    BY <2>1 DEF SearchInv, SearchTyped
<1>2. \A s \in 1 .. upTo : s \in 1 .. Len(slots) /\ slots'[s] = slots[s]
  BY DEF SearchInv, SearchTyped
<1>3. \A s \in 1 .. upTo : Query!Far(s)' = Query!Far(s)
  BY <1>2 DEF Query!Far
<1>4. Query!NothingNearerIsMissed'
  <2>1. found \subseteq 1 .. upTo
    BY DEF SearchInv, SearchTyped
  <2> QED
    BY <1>3, <2>1 DEF SearchInv, Query!NothingNearerIsMissed
<1>5. \A i \in Query!Images \ changed' : Query!Original(i)' => Query!Original(i)
  BY <1>2, OriginalBefore
<1>6. OriginalIsMatched' /\ Query!OriginalIsFound'
  BY <1>5 DEF SearchInv, OriginalIsMatched, Query!OriginalIsFound, Query!ExactMatch
<1>7. Query!SecondIsLikeTheFirst'
  BY DEF SearchInv, Query!SecondIsLikeTheFirst
<1> QED
  BY <1>1, <1>4, <1>6, <1>7 DEF SearchInv

\* A submission's backup, its append and a deletion.
LEMMA StoreKeepsSearch ==
    ASSUME SearchInv, NEW s \in Submissions, Query!Store(s)
    PROVE  SearchInv'
<1> DEFINE p == [id |-> s.id, code |-> Query!Code(s.vec)]
<1>1. /\ s.id \in Query!Images /\ s.vec \in Nat /\ s.hash \in Nat \cup {Query!NoHash}
      /\ Gone \notin Int /\ Query!NoHash \in Int /\ SearchedSlots \in Nat
  BY SearchNumbers
<1>2. p \in [id : Query!Images, code : Nat]
  BY <1>1, CodeIsNat
<1> HIDE DEF p
<1>3. /\ pending = {} /\ Len(slots) < SearchedSlots /\ slots' = slots
      /\ backup' = [backup EXCEPT ![s.id] = s.vec] /\ hashes' = [hashes EXCEPT ![s.id] = s.hash]
      /\ pending' = {p} /\ changed' = changed \cup {s.id} /\ UNCHANGED <<cache, Query!searching>>
  BY DEF Query!Store, p
<1>4. StoresTyped'
  <2>1. IsFiniteSet(pending') /\ Cardinality(pending') = 1
    BY <1>3, FS_Singleton
  <2>2. Len(slots) \in Nat /\ Len(slots') + Cardinality(pending') <= SearchedSlots
    BY <1>1, <1>3, <2>1 DEF SearchInv, StoresTyped
  <2>3. /\ backup' \in [Query!Images -> Nat \cup {Gone}]
        /\ hashes' \in [Query!Images -> Nat \cup {Query!NoHash, Gone}]
    BY <1>1, <1>3 DEF SearchInv, StoresTyped
  <2>4. \A i \in Query!Images : backup'[i] = Gone <=> hashes'[i] = Gone
    BY <1>1, <1>3 DEF SearchInv, StoresTyped
  <2> QED
    BY <1>2, <1>3, <2>1, <2>2, <2>3, <2>4 DEF SearchInv, StoresTyped
<1>5. /\ Len(slots) \in Int
      /\ \A j \in Query!Images \ changed' : backup'[j] = backup[j] /\ hashes'[j] = hashes[j]
  BY <1>1, <1>3 DEF SearchInv, StoresTyped
<1> QED
  BY <1>3, <1>4, <1>5, BesideKeepsSearch

LEMMA AppendKeepsSearch ==
    ASSUME SearchInv, NEW p \in pending, Query!AppendPoint(p)
    PROVE  SearchInv'
<1>1. /\ p \in [id : Query!Images, code : Nat]
      /\ pending' = pending \ {p} /\ slots' = Append(slots, p)
      /\ UNCHANGED <<backup, hashes, cache, Query!searching, changed>>
  BY DEF Query!AppendPoint, SearchInv, StoresTyped
<1>2. /\ Len(slots) \in Nat /\ slots' \in Seq([id : Query!Images, code : Nat])
      /\ Len(slots') = Len(slots) + 1 /\ \A s \in 1 .. Len(slots) : slots'[s] = slots[s]
  BY <1>1, AppendProperties DEF SearchInv, StoresTyped
<1>3. /\ IsFiniteSet(pending') /\ Cardinality(pending') = Cardinality(pending) - 1
      /\ Cardinality(pending) \in Nat
  BY <1>1, FS_RemoveElement, FS_CardinalityType DEF SearchInv, StoresTyped
<1>4. StoresTyped'
  <2>1. Len(slots') + Cardinality(pending') <= SearchedSlots
    BY <1>2, <1>3, SearchNumbers DEF SearchInv, StoresTyped
  <2> QED
    BY <1>1, <1>2, <1>3, <2>1 DEF SearchInv, StoresTyped
<1> QED
  BY <1>1, <1>2, <1>4, BesideKeepsSearch

LEMMA DeleteKeepsSearch ==
    ASSUME SearchInv, NEW i \in Query!Images, Query!Delete(i)
    PROVE  SearchInv'
<1>1. /\ backup' = [backup EXCEPT ![i] = Gone] /\ hashes' = [hashes EXCEPT ![i] = Gone]
      /\ changed' = changed \cup {i} /\ UNCHANGED <<slots, pending, cache, Query!searching>>
  BY DEF Query!Delete
<1>2. StoresTyped'
  BY <1>1 DEF SearchInv, StoresTyped
<1>3. /\ Len(slots) \in Int
      /\ \A j \in Query!Images \ changed' : backup'[j] = backup[j] /\ hashes'[j] = hashes[j]
  BY <1>1 DEF SearchInv, StoresTyped
<1> QED
  BY <1>1, <1>2, <1>3, BesideKeepsSearch

-----------------------------------------------------------------------------
(* The search itself. *)

\* The query from the cache, or from the worker.
LEMMA CachedQueryKeepsSearch ==
    ASSUME SearchInv, Query!CachedQuery
    PROVE  SearchInv'
<1>1. /\ UNCHANGED Query!files /\ UNCHANGED <<cache, found, matches>> /\ hits' = << >> /\ upTo' = 0
      /\ step \in {"idle", "answered"} /\ step' \in {"scan", "embed"}
      /\ \/ cache # Gone /\ cache.hash # Query!NoHash /\ query' = cache /\ step' = "scan"
         \/ query' = Query!NoQuery /\ step' = "embed"
  BY DEF Query!CachedQuery, Query!Usable
<1>2. StoresTyped'
  BY <1>1 DEF Query!files, SearchInv, StoresTyped
<1>3. query' \in [vec : Nat, hash : Int]
  <2>1. Query!NoQuery \in [vec : Nat, hash : Int]
    BY SearchNumbers DEF Query!NoQuery
  <2>2. cache # Gone => cache \in [vec : Nat, hash : Int]
    <3>1. {QueryVec, OlderVec} \subseteq Nat /\ {Query!NoHash, QueryHash} \subseteq Int
      BY SearchNumbers
    <3>2. cache # Gone => cache \in [vec : {QueryVec, OlderVec}, hash : {Query!NoHash, QueryHash}]
      BY DEF SearchInv, SearchTyped
    <3> QED
      BY <3>1, <3>2
  <2> QED
    BY <1>1, <2>1, <2>2
<1>4. SearchTyped'
  <2>1. Len(slots) \in Nat /\ Len(hits') = 0 /\ found = {}
    BY <1>1 DEF SearchInv, StoresTyped, SearchTyped
  <2>2. upTo' \in 0 .. Len(slots') /\ found' \subseteq 1 .. upTo' /\ Len(hits') <= Limit
    BY <1>1, <2>1, SearchNumbers DEF Query!files
  <2>3. step' \in Query!Under \cup {"idle", "embed", "save"} /\ step' # "save" /\ step' # "rescore"
    BY <1>1 DEF Query!Under
  <2> QED
    BY <1>1, <1>3, <2>1, <2>2, <2>3 DEF SearchInv, SearchTyped
<1>5. Query!SecondIsLikeTheFirst'
  BY <1>1 DEF SearchInv, SearchTyped, Query!SecondIsLikeTheFirst, Query!Under
<1>6. Query!NothingNearerIsMissed' /\ OriginalIsMatched' /\ Query!OriginalIsFound'
  BY <1>1 DEF Query!NothingNearerIsMissed, OriginalIsMatched, Query!OriginalIsFound
<1> QED
  BY <1>2, <1>4, <1>5, <1>6 DEF SearchInv

LEMMA EmbedKeepsSearch ==
    ASSUME SearchInv, Query!EmbedQuery \/ Query!SaveQuery \/ Query!SearchFails
    PROVE  SearchInv'
<1>1. /\ UNCHANGED Query!files /\ upTo' = upTo /\ hits' = hits
      /\ step' \in {"save", "idle", "scan"}
  BY DEF Query!EmbedQuery, Query!SaveQuery, Query!SearchFails
<1>2. StoresTyped'
  BY <1>1 DEF Query!files, SearchInv, StoresTyped
<1>3. Query!NothingNearerIsMissed' /\ OriginalIsMatched' /\ Query!OriginalIsFound'
  BY <1>1 DEF Query!NothingNearerIsMissed, OriginalIsMatched, Query!OriginalIsFound
<1>4. CASE Query!EmbedQuery
  <2>1. query' \in [vec : Nat, hash : Int]
    BY <1>4, SearchNumbers DEF Query!EmbedQuery, SearchInv, SearchTyped
  <2>2. SearchTyped'
    BY <1>1, <1>4, <2>1 DEF Query!EmbedQuery, Query!files, SearchInv, SearchTyped, Query!Under
  <2>3. Query!SecondIsLikeTheFirst'
    BY <1>4 DEF Query!EmbedQuery, Query!SecondIsLikeTheFirst, Query!Under
  <2> QED
    BY <1>2, <1>3, <2>2, <2>3 DEF SearchInv
<1>5. CASE Query!SaveQuery
  <2>1. /\ step = "save" /\ step' = "scan" /\ UNCHANGED <<query, found, matches>>
        /\ query = [vec |-> QueryVec, hash |-> QueryHash]
        /\ \/ cache' = cache
           \/ cache' = IF cache = Gone THEN query ELSE [cache EXCEPT !.hash = query.hash]
    BY <1>5 DEF Query!SaveQuery, Query!Entry, SearchInv, SearchTyped
  <2>2. cache' # Gone => cache' \in [vec : {QueryVec, OlderVec}, hash : {Query!NoHash, QueryHash}]
    BY <2>1 DEF SearchInv, SearchTyped
  <2>3. SearchTyped'
    BY <1>1, <2>1, <2>2 DEF Query!files, SearchInv, SearchTyped, Query!Under
  <2>4. Query!SecondIsLikeTheFirst'
    BY <2>1 DEF Query!SecondIsLikeTheFirst
  <2> QED
    BY <1>2, <1>3, <2>3, <2>4 DEF SearchInv
<1>6. CASE Query!SearchFails
  <2>1. /\ step' = "idle" /\ found' = {} /\ matches' = << >> /\ UNCHANGED <<cache, query>>
    BY <1>6 DEF Query!SearchFails
  <2>2. matches' \in Seq([id : Query!Images, score : Int]) /\ Len(matches') <= Candidates
    BY <2>1, SearchNumbers
  <2>3. SearchTyped'
    BY <1>1, <2>1, <2>2 DEF Query!files, SearchInv, SearchTyped
  <2>4. Query!SecondIsLikeTheFirst'
    BY <2>1 DEF Query!SecondIsLikeTheFirst, Query!Under
  <2> QED
    BY <1>2, <1>3, <2>3, <2>4 DEF SearchInv
<1> QED
  BY <1>4, <1>5, <1>6

\* The scan: nothing nearer is missed.
LEMMA ScanKeepsSearch ==
    ASSUME SearchInv, Query!Scan
    PROVE  SearchInv'
<1>1. /\ step = "scan" /\ step' = "rescore" /\ upTo' = Len(slots)
      /\ UNCHANGED Query!files /\ UNCHANGED <<cache, query, matches, hits>>
  BY DEF Query!Scan
<1>2. PICK all \in SUBSET (1 .. Len(slots)) :
          /\ \A g \in 1 .. Scanners : all \cap Query!Part(g) \in Query!ScanRange(Query!Part(g))
          /\ found' = Query!Nearest(all)
  BY DEF Query!Scan
<1>3. Len(slots) \in Nat /\ \A s \in 1 .. Len(slots) : Query!Far(s) \in Int
  BY FarIsInt DEF SearchInv, SearchTyped
<1>4. /\ found' \subseteq 1 .. Len(slots)
      /\ Cardinality(found') = (IF Len(slots) < Want THEN Len(slots) ELSE Want)
      /\ \A s \in found', t \in 1 .. Len(slots) : Query!Far(t) < Query!Far(s) => t \in found'
  BY <1>2, <1>3, NearestOfAll
<1>5. \A s : Query!Far(s)' = Query!Far(s)
  BY <1>1 DEF Query!Far, Query!files
<1>6. Query!NothingNearerIsMissed'
  BY <1>1, <1>4, <1>5, QueryCounts DEF Query!NothingNearerIsMissed
<1>7. StoresTyped'
  BY <1>1 DEF Query!files, SearchInv, StoresTyped
<1>8. SearchTyped'
  BY <1>1, <1>3, <1>4 DEF Query!files, SearchInv, SearchTyped, Query!Under
<1>9. Query!SecondIsLikeTheFirst' /\ OriginalIsMatched' /\ Query!OriginalIsFound'
  BY <1>1 DEF SearchInv, Query!SecondIsLikeTheFirst, OriginalIsMatched,
              Query!OriginalIsFound, Query!Under
<1> QED
  BY <1>6, <1>7, <1>8, <1>9 DEF SearchInv

-----------------------------------------------------------------------------
(* The matches. *)

Shorter(S, n) == IF n < Cardinality(S) THEN n ELSE Cardinality(S)

\* f puts the first n of a set in the places they have.
PutsInPlace(f, S, order, n) ==
    /\ f = [k \in 1 .. Shorter(S, n) |-> f[k]]
    /\ \A k \in 1 .. Shorter(S, n) : (\E x \in S : PlaceIn(S, order, x) = k - 1)
                                       => f[k] \in S /\ PlaceIn(S, order, f[k]) = k - 1

\* First does,
LEMMA FirstPutsInPlace ==
    ASSUME NEW S, NEW order, NEW n, NEW f, f = Query!First(S, order, n)
    PROVE  PutsInPlace(f, S, order, n)
<1> DEFINE m == Shorter(S, n)
           At(k) == CHOOSE x \in S : Query!Cardinality({y \in S : <<y, x>> \in order}) = k - 1
<1>1. m = IF n < Query!Cardinality(S) THEN n ELSE Query!Cardinality(S)
  BY QueryCounts DEF Shorter
<1> HIDE DEF m
<1>2. f = [k \in 1 .. m |-> At(k)]
  BY <1>1 DEF Query!First
<1> HIDE DEF At
<1>3. ASSUME NEW x \in S
      PROVE  PlaceIn(S, order, x) = Query!Cardinality({y \in S : <<y, x>> \in order})
  BY QueryCounts DEF PlaceIn, Earlier
<1>4. ASSUME NEW k \in 1 .. m, NEW z \in S, PlaceIn(S, order, z) = k - 1
      PROVE  f[k] \in S /\ PlaceIn(S, order, f[k]) = k - 1
  <2>1. f[k] = At(k)
    BY <1>2
  <2>2. Query!Cardinality({y \in S : <<y, z>> \in order}) = k - 1
    BY <1>3, <1>4
  <2>3. f[k] \in S /\ Query!Cardinality({y \in S : <<y, f[k]>> \in order}) = k - 1
    BY <2>1, <2>2 DEF At
  <2> QED
    BY <1>3, <2>3
<1>5. f = [k \in 1 .. m |-> f[k]]
  BY <1>2
<1> QED
  BY <1>4, <1>5 DEF PutsInPlace, m

\* and then nobody of them is left out.
LEMMA FirstInPlace ==
    ASSUME NEW S, IsFiniteSet(S), NEW order, Strict(S, order), Total(S, order), NEW n \in Nat,
           NEW f, PutsInPlace(f, S, order, n)
    PROVE  /\ f \in Seq(S) /\ Len(f) <= n
           /\ \A x \in S : PlaceIn(S, order, x) < n => \E k \in 1 .. Len(f) : f[k] = x
<1> DEFINE m == Shorter(S, n)
<1>0. m = IF n < Cardinality(S) THEN n ELSE Cardinality(S)
  BY DEF Shorter
<1> HIDE DEF m
<1>1. Cardinality(S) \in Nat /\ m \in Nat
  BY <1>0, FS_CardinalityType
<1>2. m <= n /\ \A k \in 1 .. m : k - 1 \in 0 .. Cardinality(S) - 1
  BY <1>0, <1>1
<1>3. \A x \in S : PlaceIn(S, order, x) \in 0 .. Cardinality(S) - 1
  BY EarlierPlace
<1>4. \A x \in S : PlaceIn(S, order, x) < n => PlaceIn(S, order, x) + 1 \in 1 .. m
  BY <1>0, <1>1, <1>3
<1>6. ASSUME NEW k \in 1 .. m
      PROVE  f[k] \in S /\ PlaceIn(S, order, f[k]) = k - 1
  <2>1. \E x \in S : PlaceIn(S, order, x) = k - 1
    BY <1>2, PlacesAreTaken
  <2> QED
    BY <2>1 DEF PutsInPlace, m
<1>7. f \in Seq(S) /\ Len(f) = m
  <2>1. f \in [1 .. m -> S]
    BY <1>6 DEF PutsInPlace, m
  <2> QED
    BY <1>1, <2>1, SeqDef
<1>8. ASSUME NEW x \in S, PlaceIn(S, order, x) < n
      PROVE  \E k \in 1 .. Len(f) : f[k] = x
  <2> DEFINE k == PlaceIn(S, order, x) + 1
  <2>1. k \in 1 .. m /\ k - 1 = PlaceIn(S, order, x)
    BY <1>3, <1>4, <1>8
  <2> HIDE DEF k
  <2>2. f[k] \in S /\ PlaceIn(S, order, f[k]) = PlaceIn(S, order, x)
    BY <1>6, <2>1
  <2>3. f[k] = x
    BY <2>2, PlacesAreTaken
  <2> QED
    BY <1>7, <2>1, <2>3
<1> QED
  BY <1>1, <1>2, <1>7, <1>8

\* An original that has not changed is among what was scanned,
LEMMA OriginalIsScanned ==
    ASSUME SearchInv, step = "rescore", NEW i \in Query!Images, Query!Original(i)
    PROVE  i \in Query!Ids
<1>1. PICK s \in 1 .. upTo : slots[s].id = i
             /\ Cardinality({t \in 1 .. upTo : Query!Far(t) <= Query!Far(s)}) <= Want
  BY QueryCounts DEF Query!Original
<1> DEFINE near == {t \in 1 .. upTo : Query!Far(t) <= Query!Far(s)}
<1>2. /\ Cardinality(found) = (IF upTo < Want THEN upTo ELSE Want)
      /\ \A r \in found, t \in 1 .. upTo : Query!Far(t) < Query!Far(r) => t \in found
  BY QueryCounts DEF SearchInv, Query!NothingNearerIsMissed
<1>3. /\ upTo \in Nat /\ found \in SUBSET (1 .. upTo)
      /\ \A t \in 1 .. upTo : Query!Far(t) \in Int
  BY FarIsInt DEF SearchInv, SearchTyped
<1>4. IsFiniteSet(1 .. upTo) /\ Cardinality(1 .. upTo) = upTo
  <2>1. 1 \in Int /\ upTo \in Int
    BY <1>3
  <2>2. IsFiniteSet(1 .. upTo) /\ Cardinality(1 .. upTo) = IF 1 > upTo THEN 0 ELSE upTo - 1 + 1
    BY <2>1, FS_Interval
  <2> QED
    BY <1>3, <2>2
<1>5. s \in found
  <2> SUFFICES ASSUME s \notin found PROVE FALSE
    OBVIOUS
  <2>1. found \cup {s} \in SUBSET near
    <3>1. ASSUME NEW r \in found PROVE Query!Far(r) <= Query!Far(s)
      <4>1. ~(Query!Far(s) < Query!Far(r)) /\ Query!Far(s) \in Int /\ Query!Far(r) \in Int
        BY <1>2, <1>3
      <4> QED
        BY <4>1
    <3>2. Query!Far(s) <= Query!Far(s)
      BY <1>3
    <3> QED
      BY <1>3, <3>1, <3>2
  <2>2. IsFiniteSet(near) /\ near \in SUBSET (1 .. upTo)
    BY <1>4, FS_Subset
  <2>3. IsFiniteSet(found) /\ Cardinality(found) \in Nat /\ Cardinality(near) \in Nat
    BY <1>3, <1>4, <2>2, FS_Subset, FS_CardinalityType
  <2>4. Cardinality(found \cup {s}) = Cardinality(found) + 1
    BY <2>3, FS_AddElement
  <2>5. Cardinality(found) + 1 <= Want
    <3>1. Cardinality(found \cup {s}) <= Cardinality(near)
      BY <2>1, <2>2, FS_Subset
    <3> QED
      BY <1>1, <2>3, <2>4, <3>1, SearchNumbers
  <2>6. Cardinality(found) = upTo
    BY <1>2, <1>3, <2>3, <2>5, SearchNumbers
  <2>7. found = 1 .. upTo
    BY <1>3, <1>4, <2>6, FS_Subset
  <2> QED
    BY <2>7
<1> QED
  BY <1>1, <1>5 DEF Query!Ids

\* what was scanned is of images,
LEMMA IdsAreImages == ASSUME SearchInv PROVE Query!Ids \subseteq Query!Images
<1>1. ASSUME NEW s \in found PROVE slots[s].id \in Query!Images
  <2>1. slots \in Seq([id : Query!Images, code : Nat]) /\ s \in 1 .. Len(slots)
    BY DEF SearchInv, StoresTyped, SearchTyped
  <2>2. slots[s] \in [id : Query!Images, code : Nat]
    BY <2>1, ElementOfSeq
  <2> QED
    BY <2>2
<1> QED
  BY <1>1 DEF Query!Ids

ByScore == {q \in Query!Scored \X Query!Scored : Query!HigherScore(q[1], q[2])}
ScoreOf(i) == [id |-> i, score |-> 0 - Query!Distance(backup[i], query.vec)]

\* scored by stored vectors, in an order in which every one has a place.
LEMMA ScoredInOrder ==
    ASSUME SearchInv
    PROVE  /\ Query!Scored \subseteq [id : Query!Images, score : Int]
           /\ \A x \in Query!Scored : x.id \in Query!Ids /\ backup[x.id] # Gone /\ x = ScoreOf(x.id)
           /\ \A i \in Query!Ids : backup[i] # Gone => ScoreOf(i) \in Query!Scored
           /\ IsFiniteSet(Query!Scored)
           /\ \A x, y \in Query!Scored : <<y, x>> \in ByScore <=> Query!HigherScore(y, x)
           /\ Strict(Query!Scored, ByScore) /\ Total(Query!Scored, ByScore)
<1>1. /\ \A x \in Query!Scored : x.id \in Query!Ids /\ backup[x.id] # Gone /\ x = ScoreOf(x.id)
      /\ \A i \in Query!Ids : backup[i] # Gone => ScoreOf(i) \in Query!Scored
  BY DEF Query!Scored, ScoreOf
<1>2. ASSUME NEW x \in Query!Scored
      PROVE  x \in [id : Query!Images, score : Int]
  <2>1. x.id \in Query!Images /\ backup[x.id] \in Int /\ query.vec \in Int
    BY <1>1, IdsAreImages DEF SearchInv, StoresTyped, SearchTyped
  <2>2. Query!Distance(backup[x.id], query.vec) \in Nat
    BY <2>1, DistanceIsNat
  <2>3. 0 - Query!Distance(backup[x.id], query.vec) \in Int
    BY <2>2
  <2> QED
    BY <1>1, <2>1, <2>3 DEF ScoreOf
<1>3. IsFiniteSet(Query!Scored)
  <2> DEFINE f == [x \in Query!Scored |-> x.id]
  <2>1. f \in [Query!Scored -> Query!Images]
    BY <1>2
  <2>2. \A x, y \in Query!Scored : f[x] = f[y] => x = y
    BY <1>1
  <2> HIDE DEF f
  <2>3. f \in Injection(Query!Scored, Query!Images)
    BY <2>1, <2>2, Fun_IsInj
  <2> QED
    BY <2>3, ImagesAreFinite, FS_Injection
<1>4. \A x, y \in Query!Scored : <<y, x>> \in ByScore <=> Query!HigherScore(y, x)
  BY DEF ByScore
<1>5. \A x, y \in Query!Scored : x.id = y.id => x = y
  BY <1>1
<1>7. ASSUME NEW x \in Query!Scored PROVE x.id \in Int /\ x.score \in Int
  <2>1. x.id \in Query!Images /\ x.score \in Int
    BY <1>2
  <2>2. x.id \in Nat
    BY <2>1, SearchNumbers, Zenon
  <2> QED
    BY <2>1, <2>2
<1> QED
  BY <1>1, <1>2, <1>3, <1>4, <1>5, <1>7 DEF Strict, Total, Query!HigherScore

\* The matches: an original is among them, its rivals leave it a place.
LEMMA RescoreKeepsSearch ==
    ASSUME SearchInv, Query!Rescore
    PROVE  SearchInv'
<1>1. /\ step = "rescore" /\ step' = "rank" /\ found' = {}
      /\ UNCHANGED Query!files /\ UNCHANGED <<cache, query, upTo, hits, searches, changed>>
  BY DEF Query!Rescore
<1>2. matches' = Query!First(Query!Scored, ByScore, Candidates)
  BY DEF Query!Rescore, ByScore
<1>3. PICK f : f = Query!First(Query!Scored, ByScore, Candidates)
  OBVIOUS
<1>4. matches' = f
  BY <1>2, <1>3
<1>5. PutsInPlace(f, Query!Scored, ByScore, Candidates)
  BY <1>3, FirstPutsInPlace
<1>6. /\ f \in Seq(Query!Scored) /\ Len(f) <= Candidates
      /\ \A x \in Query!Scored :
             PlaceIn(Query!Scored, ByScore, x) < Candidates => \E k \in 1 .. Len(f) : f[k] = x
  <2>1. IsFiniteSet(Query!Scored) /\ Strict(Query!Scored, ByScore) /\ Total(Query!Scored, ByScore)
    BY ScoredInOrder
  <2>2. Candidates \in Nat
    BY SearchNumbers
  <2> QED
    BY <1>5, <2>1, <2>2, FirstInPlace
<1>7. matches' \in Seq([id : Query!Images, score : Int])
  <2>1. Query!Scored \subseteq [id : Query!Images, score : Int]
    BY ScoredInOrder
  <2>2. f \in [1 .. Len(f) -> Query!Scored] /\ Len(f) \in Nat
    BY <1>6, LenProperties
  <2>3. f \in [1 .. Len(f) -> [id : Query!Images, score : Int]]
    BY <2>1, <2>2
  <2> QED
    BY <1>4, <2>2, <2>3, SeqDef, ZenonT(60)
\* The rivals of an original leave it its place.
<1>8. ASSUME NEW i \in Query!Images \ changed, Query!Original(i)
      PROVE  \E k \in 1 .. Len(f) : f[k].id = i
  <2>1. i \in Query!Ids /\ backup[i] # Gone
    BY <1>1, <1>8, OriginalIsScanned DEF Query!Original
  <2>2. ScoreOf(i) \in Query!Scored /\ ScoreOf(i).id = i
    BY <2>1, ScoredInOrder DEF ScoreOf
  <2> DEFINE A == Earlier(Query!Scored, ByScore, ScoreOf(i))
             g == [y \in A |-> y.id]
  <2>3. ASSUME NEW y \in A PROVE y \in Query!Scored /\ y.id \in Rivals(i) \ {i}
    <3>1. y \in Query!Scored /\ Query!HigherScore(y, ScoreOf(i)) /\ <<y, ScoreOf(i)>> \in ByScore
      BY <2>2, ScoredInOrder DEF Earlier
    <3>2. y # ScoreOf(i)
      BY <3>1, ScoredInOrder DEF Strict
    <3>3. y.id \in Query!Images /\ backup[y.id] # Gone /\ y = ScoreOf(y.id) /\ y.id # i
      BY <3>1, <3>2, ScoredInOrder, IdsAreImages
    <3>4. /\ y.score = 0 - Query!Distance(backup[y.id], query.vec)
          /\ ScoreOf(i).score = 0 - Query!Distance(backup[i], query.vec)
      BY <3>3 DEF ScoreOf
    <3>5. backup[y.id] \in Nat /\ backup[i] \in Nat /\ query.vec \in Nat
      BY <2>1, <3>3 DEF SearchInv, StoresTyped, SearchTyped
    <3>6. /\ Query!Distance(backup[y.id], query.vec) \in Nat
          /\ Query!Distance(backup[i], query.vec) \in Nat
      <4>1. \A u, v \in Nat : Query!Distance(u, v) \in Nat
        BY DistanceIsNat
      <4> QED
        BY <3>5, <4>1, Zenon
    <3>7. y.score >= ScoreOf(i).score
      BY <3>1, <3>4, <3>6 DEF Query!HigherScore
    <3>8. Query!Distance(backup[y.id], query.vec) <= Query!Distance(backup[i], query.vec)
      BY <3>4, <3>6, <3>7
    <3> QED
      BY <3>1, <3>3, <3>8 DEF Rivals
  <2>4. g \in Injection(A, Rivals(i) \ {i})
    <3>1. g \in [A -> Rivals(i) \ {i}]
      BY <2>3
    <3>2. ASSUME NEW x \in A, NEW y \in A, g[x] = g[y] PROVE x = y
      <4>1. x \in Query!Scored /\ y \in Query!Scored /\ x.id = y.id
        BY <2>3, <3>2
      <4> QED
        BY <4>1, ScoredInOrder
    <3> HIDE DEF g, A
    <3> QED
      BY <3>1, <3>2, Fun_IsInj
  <2>5. IsFiniteSet(Rivals(i)) /\ i \in Rivals(i)
    <3>1. Rivals(i) \in SUBSET Query!Images /\ i \in Rivals(i)
      BY DEF Rivals
    <3> QED
      BY <3>1, ImagesAreFinite, FS_Subset
  <2>6. /\ IsFiniteSet(Rivals(i) \ {i}) /\ Cardinality(Rivals(i)) \in Nat
        /\ Cardinality(Rivals(i) \ {i}) = Cardinality(Rivals(i)) - 1
    BY <2>5, FS_RemoveElement, FS_CardinalityType
  <2>7. Cardinality(Rivals(i)) <= Candidates
    BY <1>8, QueryCounts DEF Query!Original, Rivals
  <2>8. IsFiniteSet(A) /\ Cardinality(A) <= Cardinality(Rivals(i) \ {i})
    BY <2>4, <2>6, FS_Injection
  <2>9. Cardinality(A) < Candidates
    <3>1. Cardinality(A) \in Nat /\ Candidates \in Nat
      BY <2>8, FS_CardinalityType, SearchNumbers
    <3> HIDE DEF A
    <3> QED
      BY <2>6, <2>7, <2>8, <3>1
  <2>10. PlaceIn(Query!Scored, ByScore, ScoreOf(i)) < Candidates
    BY <2>9 DEF PlaceIn
  <2> QED
    BY <1>6, <2>2, <2>10
<1>9. StoresTyped'
  BY <1>1 DEF Query!files, SearchInv, StoresTyped
<1>10. SearchTyped'
  BY <1>1, <1>4, <1>6, <1>7 DEF Query!files, SearchInv, SearchTyped, Query!Under
<1>11. OriginalIsMatched'
  <2>1. \A i \in Query!Images \ changed : Query!Original(i)' => Query!Original(i)
    BY <1>1 DEF Query!files, Query!Original, Query!Far
  <2> QED
    BY <1>1, <1>4, <1>8, <2>1 DEF OriginalIsMatched
<1>12. Query!NothingNearerIsMissed' /\ Query!SecondIsLikeTheFirst' /\ Query!OriginalIsFound'
  BY <1>1 DEF SearchInv, Query!NothingNearerIsMissed, Query!SecondIsLikeTheFirst,
              Query!OriginalIsFound, Query!Under
<1> QED
  BY <1>9, <1>10, <1>11, <1>12 DEF SearchInv

-----------------------------------------------------------------------------
(* The ranking. *)

Ranking == {Query!Hit(matches[k]) : k \in {j \in DOMAIN matches : hashes[matches[j].id] # Gone}}
ByHash == {q \in Ranking \X Ranking : Query!Better(q[1], q[2])}

\* The hash of an image that is stored is a number.
LEMMA HashIsInt ==
    ASSUME SearchInv, NEW i \in Query!Images, hashes[i] # Gone
    PROVE  hashes[i] \in Int
<1>1. hashes[i] \in Nat \cup {Query!NoHash, Gone}
  BY DEF SearchInv, StoresTyped
<1> QED
  BY <1>1, SearchNumbers

\* A hit is exact if its distance is known and within the threshold.
LEMMA HitsAreTyped ==
    ASSUME SearchInv, NEW k \in DOMAIN matches, hashes[matches[k].id] # Gone
    PROVE  /\ Query!Hit(matches[k]).id = matches[k].id
           /\ Query!Hit(matches[k]).score \in Int /\ Query!Hit(matches[k]).distance \in Int
           /\ Query!Hit(matches[k]).exact \in BOOLEAN
           /\ Query!Hit(matches[k]).exact <=> Query!Hit(matches[k]).distance \in 0 .. Threshold
<1>1. matches \in Seq([id : Query!Images, score : Int]) /\ k \in 1 .. Len(matches)
  BY LenProperties DEF SearchInv, SearchTyped
<1>2. matches[k] \in [id : Query!Images, score : Int]
  BY <1>1, ElementOfSeq
<1>3. PICK h \in Int : h = hashes[matches[k].id]
  BY <1>2, HashIsInt
<1>4. PICK g \in Int : g = query.hash
  BY DEF SearchInv, SearchTyped
<1> DEFINE d == IF Query!NoHash \in {h, g} THEN -1 ELSE Query!Distance(h, g)
<1>5. d \in Int
  <2>1. Query!Distance(h, g) \in Nat
    BY <1>3, <1>4, DistanceIsNat
  <2> QED
    BY <2>1
<1>6. Query!Hit(matches[k]) = [id |-> matches[k].id, score |-> matches[k].score, distance |-> d,
                               exact |-> d \in 0 .. Threshold]
  BY <1>3, <1>4 DEF Query!Hit
<1> HIDE DEF d
<1>7. /\ Query!Hit(matches[k]).id = matches[k].id /\ Query!Hit(matches[k]).score = matches[k].score
      /\ Query!Hit(matches[k]).distance = d
  BY <1>6
<1>8. Query!Hit(matches[k]).exact \in BOOLEAN
  BY <1>6
<1>9. Query!Hit(matches[k]).exact <=> Query!Hit(matches[k]).distance \in 0 .. Threshold
  <2>1. PICK near : near = (d \in 0 .. Threshold)
    OBVIOUS
  <2>2. Query!Hit(matches[k]).exact = near
    <3>1. Query!Hit(matches[k]) = [id |-> matches[k].id, score |-> matches[k].score, distance |-> d,
                                   exact |-> near]
      BY <1>6, <2>1, Zenon
    <3> QED
      BY <3>1
  <2>3. near <=> Query!Hit(matches[k]).distance \in 0 .. Threshold
    BY <1>7, <2>1, Zenon
  <2> QED
    BY <2>2, <2>3, Zenon
<1>10. matches[k].score \in Int
  BY <1>2
<1>11. Query!Hit(matches[k]).score \in Int /\ Query!Hit(matches[k]).distance \in Int
  BY <1>5, <1>7, <1>10, Zenon
<1> QED
  BY <1>7, <1>8, <1>9, <1>11, Zenon

\* Better is an order of the hits.
LEMMA RankingInOrder ==
    ASSUME SearchInv
    PROVE  /\ IsFiniteSet(Ranking)
           /\ \A x \in Ranking : x.exact \in BOOLEAN
           /\ \A x, y \in Ranking : <<y, x>> \in ByHash <=> Query!Better(y, x)
           /\ Strict(Ranking, ByHash)
<1> DEFINE K == {j \in DOMAIN matches : hashes[matches[j].id] # Gone}
           f == [k \in K |-> Query!Hit(matches[k])]
<1>0. DOMAIN matches = 1 .. Len(matches) /\ Len(matches) \in Nat
  BY LenProperties DEF SearchInv, SearchTyped
<1>1. IsFiniteSet(K)
  <2>1. 1 \in Int /\ Len(matches) \in Int
    BY <1>0
  <2>2. IsFiniteSet(1 .. Len(matches))
    BY <2>1, FS_Interval
  <2>3. K \in SUBSET (1 .. Len(matches))
    BY <1>0
  <2> QED
    BY <2>2, <2>3, FS_Subset
<1>2. IsFiniteSet(Ranking)
  <2>1. f \in [K -> Ranking] /\ \A x \in Ranking : \E k \in K : f[k] = x
    BY DEF Ranking
  <2> HIDE DEF f, K
  <2>2. f \in Surjection(K, Ranking)
    BY <2>1, Fun_IsSurj
  <2> QED
    BY <1>1, <2>2, FS_Surjection
<1>3. \A x, y \in Ranking : <<y, x>> \in ByHash <=> Query!Better(y, x)
  BY DEF ByHash
<1>4. ASSUME NEW x \in Ranking
      PROVE  x.score \in Int /\ x.distance \in Int /\ Query!Place(x) \in Int /\ x.exact \in BOOLEAN
  <2>1. PICK k \in K : x = Query!Hit(matches[k])
    BY DEF Ranking
  <2>2. x.id = matches[k].id /\ x.score \in Int /\ x.distance \in Int /\ x.exact \in BOOLEAN
    BY <2>1, HitsAreTyped
  <2>3. Query!Place(x) \in DOMAIN matches
    BY <2>2 DEF Query!Place
  <2>4. Query!Place(x) \in Int
    BY <1>0, <2>3
  <2> QED
    BY <2>2, <2>4, Zenon
<1> DEFINE X == {x \in Ranking : x.exact}
           D(x, y) == x.distance < y.distance
           S(x, y) == x.score > y.score \/ (x.score = y.score /\ Query!Place(x) < Query!Place(y))
<1>5. ASSUME NEW x \in Ranking, NEW y \in Ranking
      PROVE  Query!Better(x, y) <=> \/ x \in X /\ y \notin X
                                    \/ x \in X /\ y \in X /\ x.distance # y.distance /\ D(x, y)
                                    \/ x \in X /\ y \in X /\ x.distance = y.distance /\ S(x, y)
                                    \/ x \notin X /\ y \notin X /\ S(x, y)
  <2>1. x.exact \in BOOLEAN /\ y.exact \in BOOLEAN
    BY <1>4
  <2>2. (x \in X <=> x.exact) /\ (y \in X <=> y.exact)
    OBVIOUS
  <2> HIDE DEF X
  <2> QED
    BY <2>1, <2>2, Zenon DEF Query!Better
<1>6. ASSUME NEW x \in Ranking, NEW y \in Ranking, NEW z \in Ranking
      PROVE  /\ ~D(x, x) /\ ~S(x, x)
             /\ D(x, y) /\ D(y, z) => D(x, z)
             /\ x.distance = y.distance /\ D(y, z) => D(x, z)
             /\ D(x, y) /\ y.distance = z.distance => D(x, z)
             /\ D(x, z) => x.distance # z.distance
             /\ S(x, y) /\ S(y, z) => S(x, z)
  BY <1>4
<1> HIDE DEF X, D, S
<1>7. \A x \in Ranking : ~Query!Better(x, x)
  BY <1>5, <1>6
<1>8. ASSUME NEW x \in Ranking, NEW y \in Ranking, NEW z \in Ranking,
             Query!Better(x, y), Query!Better(y, z)
      PROVE  Query!Better(x, z)
  BY <1>5, <1>6, <1>8
<1>9. Strict(Ranking, ByHash)
  BY <1>3, <1>7, <1>8 DEF Strict
<1> QED
  BY <1>2, <1>3, <1>4, <1>9

\* The ranking: nothing is before its first hit, so an original makes it exact.
LEMMA RankKeepsSearch ==
    ASSUME SearchInv, Query!Rank
    PROVE  SearchInv'
<1>1. /\ step = "rank" /\ step' = "answered" /\ hits' = Query!Ranked /\ matches' = << >>
      /\ UNCHANGED Query!files /\ UNCHANGED <<cache, query, found, upTo, searches, changed>>
  BY DEF Query!Rank
<1> DEFINE m == Shorter(Ranking, Limit)
<1>2. PICK f : f = Query!First(Ranking, ByHash, Limit)
  OBVIOUS
<1>3. hits' = f
  BY <1>1, <1>2 DEF Query!Ranked, Ranking, ByHash
<1>4. m \in Nat /\ m <= Limit /\ (Ranking # {} => m >= 1)
  <2>1. Cardinality(Ranking) \in Nat /\ (Ranking # {} => Cardinality(Ranking) # 0)
    BY RankingInOrder, FS_CardinalityType, FS_EmptySet
  <2>2. Limit \in Nat /\ Limit >= 1
    BY SearchNumbers
  <2> QED
    BY <2>1, <2>2 DEF Shorter
<1>5. PutsInPlace(f, Ranking, ByHash, Limit)
  BY <1>2, FirstPutsInPlace
<1> HIDE DEF m
<1>6. Len(f) = m
  <2>1. f = [k \in 1 .. m |-> f[k]]
    BY <1>5 DEF PutsInPlace, m
  <2>2. f \in [1 .. m -> {f[k] : k \in 1 .. m}]
    BY <2>1
  <2> QED
    BY <1>4, <2>2, SeqDef
\* The first hit has none before it.
<1>7. ASSUME Ranking # {}
      PROVE  f[1] \in Ranking /\ \A y \in Ranking : ~Query!Better(y, f[1])
  <2>1. PICK x \in Ranking : Earlier(Ranking, ByHash, x) = {}
    BY <1>7, RankingInOrder, SomeoneIsFirst
  <2>2. PlaceIn(Ranking, ByHash, x) = 1 - 1
    BY <2>1, FS_EmptySet DEF PlaceIn
  <2>3. 1 \in 1 .. m
    BY <1>4, <1>7
  <2>4. f[1] \in Ranking /\ PlaceIn(Ranking, ByHash, f[1]) = 1 - 1
    BY <1>5, <2>2, <2>3 DEF PutsInPlace, m
  <2>5. Earlier(Ranking, ByHash, f[1]) = {}
    <3>1. IsFiniteSet(Earlier(Ranking, ByHash, f[1]))
      BY RankingInOrder, FS_Subset DEF Earlier
    <3>2. Cardinality(Earlier(Ranking, ByHash, f[1])) = 0
      BY <2>4 DEF PlaceIn
    <3> QED
      BY <3>1, <3>2, FS_EmptySet
  <2> QED
    BY <2>4, <2>5, RankingInOrder DEF Earlier
<1>8. ASSUME NEW i \in Query!Images \ changed, Query!Original(i)
      PROVE  Query!ExactMatch'
  <2>1. PICK k \in 1 .. Len(matches) : matches[k].id = i
    BY <1>1, <1>8 DEF SearchInv, OriginalIsMatched
  <2>2. /\ backup[i] # Gone /\ hashes[i] # Query!NoHash
        /\ Query!Distance(hashes[i], query.hash) <= Threshold
        /\ hashes[i] # Gone
    BY <1>8 DEF Query!Original, SearchInv, StoresTyped
  <2>3. k \in DOMAIN matches
    BY LenProperties DEF SearchInv, SearchTyped
  <2> DEFINE h == Query!Hit(matches[k])
  <2>4. h \in Ranking
    BY <2>1, <2>2, <2>3 DEF Ranking
  <2>5. h.distance \in 0 .. Threshold
    <3>1. query.hash = QueryHash /\ QueryHash # Query!NoHash
      BY <1>1, SearchNumbers DEF SearchInv, Query!SecondIsLikeTheFirst, Query!Under
    <3>2. h.distance = Query!Distance(hashes[i], query.hash)
      BY <2>1, <2>2, <3>1 DEF Query!Hit
    <3>3. hashes[i] \in Int /\ QueryHash \in Int /\ Threshold \in Nat
      BY <2>2, HashIsInt, SearchNumbers
    <3>4. Query!Distance(hashes[i], QueryHash) \in Nat
      BY <3>3, DistanceIsNat
    <3> QED
      BY <2>2, <3>1, <3>2, <3>3, <3>4
  <2>6. h.exact
    BY <2>1, <2>2, <2>3, <2>5, HitsAreTyped
  <2>7. f[1] \in Ranking /\ ~Query!Better(h, f[1])
    BY <1>7, <2>4
  <2>8. f[1].exact
    <3>1. h.exact \in BOOLEAN /\ f[1].exact \in BOOLEAN
      BY <2>4, <2>7, RankingInOrder
    <3> HIDE DEF h
    <3> QED
      BY <2>6, <2>7, <3>1, Zenon DEF Query!Better
  <2> QED
    BY <1>3, <1>4, <1>6, <2>4, <2>8 DEF Query!ExactMatch
<1>9. StoresTyped'
  BY <1>1 DEF Query!files, SearchInv, StoresTyped
<1>10. SearchTyped'
  <2>1. matches' \in Seq([id : Query!Images, score : Int]) /\ Len(matches') <= Candidates
    BY <1>1, SearchNumbers
  <2>2. Len(hits') <= Limit
    BY <1>3, <1>4, <1>6
  <2> QED
    BY <1>1, <2>1, <2>2 DEF Query!files, SearchInv, SearchTyped, Query!Under
<1>11. Query!OriginalIsFound'
  <2>1. \A i \in Query!Images \ changed : Query!Original(i)' => Query!Original(i)
    BY <1>1 DEF Query!files, Query!Original, Query!Far
  <2> QED
    BY <1>1, <1>8, <2>1 DEF Query!OriginalIsFound
<1>12. Query!NothingNearerIsMissed' /\ OriginalIsMatched' /\ Query!SecondIsLikeTheFirst'
  BY <1>1 DEF SearchInv, Query!NothingNearerIsMissed, OriginalIsMatched,
              Query!SecondIsLikeTheFirst, Query!Under
<1> QED
  BY <1>9, <1>10, <1>11, <1>12 DEF SearchInv

\* Every step of a search, and of what goes on beside it.
LEMMA NextSearchInv == SearchInv /\ [Query!SearchNext]_search => SearchInv'
<1> SUFFICES ASSUME SearchInv, [Query!SearchNext]_search PROVE SearchInv'
  OBVIOUS
<1>1. CASE UNCHANGED search
  <2> USE DEF search
  <2>1. StoresTyped' /\ SearchTyped'
    BY <1>1 DEF SearchInv, StoresTyped, SearchTyped
  <2>2. Query!NothingNearerIsMissed' /\ Query!SecondIsLikeTheFirst'
    BY <1>1 DEF SearchInv, Query!NothingNearerIsMissed, Query!SecondIsLikeTheFirst, Query!Far
  <2>3. \A i \in Query!Images : Query!Original(i)' <=> Query!Original(i)
    BY <1>1 DEF Query!Original, Query!Far
  <2>4. OriginalIsMatched' /\ Query!OriginalIsFound'
    BY <1>1, <2>3 DEF SearchInv, OriginalIsMatched, Query!OriginalIsFound, Query!ExactMatch
  <2> QED
    BY <2>1, <2>2, <2>4 DEF SearchInv
<1>2. CASE Query!SearchNext
  BY <1>2, StoreKeepsSearch, AppendKeepsSearch, DeleteKeepsSearch, CachedQueryKeepsSearch,
     EmbedKeepsSearch, ScanKeepsSearch, RescoreKeepsSearch, RankKeepsSearch DEF Query!SearchNext
<1> QED
  BY <1>1, <1>2

\* The invariant holds what is promised of a search.
LEMMA SearchInvSuffices ==
    SearchInv => /\ Query!SearchTypeOK /\ Query!NothingNearerIsMissed
                 /\ Query!OriginalIsFound /\ Query!SecondIsLikeTheFirst
BY QueryCounts DEF SearchInv, StoresTyped, SearchTyped, Query!SearchTypeOK

\* A scan by any number of goroutines, over any number of slots and while
\* images are stored, appended and deleted, misses nothing nearer than what it
\* found; an original among the candidates comes first in the answer, for any
\* hashes and vectors; and a second search of a picture, from the cache, ranks
\* by its hash like the first.
THEOREM SearchesFind == ImagesSpec => []SearchFinds
<1>1. ImagesInit => (part = "search" => SearchInv)
  BY InitSearchInv DEF ImagesInit
<1>2. (part = "search" => SearchInv) /\ [ImagesNext]_<<part, vars, http, files, search>>
        => (part = "search" => SearchInv)'
  <2> SUFFICES ASSUME part = "search" => SearchInv, part' = "search",
                      [ImagesNext]_<<part, vars, http, files, search>>
               PROVE  SearchInv'
    OBVIOUS
  <2>1. part = "search" /\ [Query!SearchNext]_search
    BY DEF ImagesNext
  <2> QED
    BY <2>1, NextSearchInv
<1>3. (part = "search" => SearchInv) => SearchFinds
  BY SearchInvSuffices DEF SearchFinds
<1> QED
  BY <1>1, <1>2, <1>3, PTL DEF ImagesSpec
=============================================================================
