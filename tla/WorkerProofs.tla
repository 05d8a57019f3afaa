---------------------------- MODULE WorkerProofs ----------------------------
(***************************************************************************)
(* What one worker node runs, as MCWorker composes it: Indexer and its     *)
(* Limiter, the batches of the embedding worker, the network path, and the *)
(* two limits that end or halt its work, for any posts, requests, limits,  *)
(* batch sizes and workers.                                                *)
(***************************************************************************)
EXTENDS MCWorker, FiniteSetTheorems, SequenceTheorems, WellFoundedInduction, TLAPS

-----------------------------------------------------------------------------
(* The slots. *)

\* Debts stand for slots the channel has room for: a resize trades one for
\* the other, and growth beyond them stops at MaxLimit.
SlotInv ==
    /\ LimiterTypeOK
    /\ SlotsConserved
    /\ limit + debt <= MaxLimit

\* An adjustment aims at a limit within the bounds, or at none.
LEMMA GoalInBounds ==
    ASSUME NEW t \in Int, LimiterTypeOK
    PROVE  Goal(t) \in {0} \cup MinLimit .. MaxLimit
BY LimiterAssumption DEF Goal, Clamp, LimiterTypeOK

\* The target of a window is a number.
LEMMA TargetIsInt ==
    ASSUME LimiterTypeOK, NEW w PROVE Target(w) \in Int
BY LimiterAssumption DEF Target, LimiterTypeOK

\* A window with one more outcome is a window.
LEMMA CountedWindow ==
    ASSUME LimiterTypeOK, NEW o \in Outcomes
    PROVE  [window EXCEPT ![o] = @ + 1] \in [Outcomes -> Nat]
BY DEF LimiterTypeOK, Outcomes

\* The empty window is a window.
LEMMA NoWindowTyped == NoWindow \in [Outcomes -> Nat]
BY DEF NoWindow

\* Every step of the limiter keeps the count of slots.
LEMMA LimiterKeepsSlots ==
    ASSUME SlotInv, LimiterNext PROVE SlotInv'
<1> USE LimiterAssumption DEF SlotInv, LimiterTypeOK, SlotsConserved
<1>1. CASE Acquire
  BY <1>1 DEF Acquire
<1>2. CASE PayDebt
  BY <1>2 DEF PayDebt
<1>3. CASE SeeNoDebt
  BY <1>3 DEF SeeNoDebt
<1>4. CASE Push
  <2>1. tokens < MaxLimit
    BY <1>4 DEF Push
  <2> QED
    BY <1>4, <2>1 DEF Push, Pushed
<1>5. ASSUME NEW o \in Outcomes, Report(o) PROVE SlotInv'
  <2>1. window' \in [Outcomes -> Nat]
    BY <1>5, CountedWindow, NoWindowTyped DEF Report, Adjust
  <2>2. goal' \in {0} \cup MinLimit .. MaxLimit
    BY <1>5, GoalInBounds, TargetIsInt DEF Report, Adjust
  <2> QED
    BY <1>5, <2>1, <2>2 DEF Report
<1>6. CASE Tick
  <2>1. goal' \in {0} \cup MinLimit .. MaxLimit
    BY <1>6, GoalInBounds, TargetIsInt DEF Tick, Adjust
  <2> QED
    BY <1>6, <2>1, NoWindowTyped DEF Tick, Adjust
<1>7. ASSUME NEW t \in Nat, SetLimit(t) PROVE SlotInv'
  BY <1>7, GoalInBounds DEF SetLimit
<1>8. CASE Resize
  <2>1. CASE goal > limit /\ GrowBy /\ limit' = limit + 1
    BY <1>8, <2>1 DEF Resize, GrowBy, Pushed
  <2>2. CASE goal < limit /\ ShrinkBy /\ limit' = limit - 1
    BY <1>8, <2>2 DEF Resize, ShrinkBy
  <2> QED
    BY <1>8, <2>1, <2>2 DEF Resize
<1> QED
  BY <1>1, <1>2, <1>3, <1>4, <1>5, <1>6, <1>7, <1>8 DEF LimiterNext

\* A step that leaves the limiter alone keeps it, too.
LEMMA StutterKeepsSlots ==
    ASSUME SlotInv, UNCHANGED limiter PROVE SlotInv'
BY DEF SlotInv, LimiterTypeOK, SlotsConserved, limiter

\* All IndexBatch and the dial do to the slots are steps of the limiter:
\* the goroutines implement it.
LEMMA IndexerMovesLimiter ==
    ASSUME [Next]_vars PROVE [LimiterNext]_limiter
<1>1. CASE UNCHANGED vars
  BY <1>1 DEF vars
<1>2. CASE IndexBatch
  BY <1>2 DEF IndexBatch, Loop, Launch, GiveUp, AllDone, Flush, Take, NothingToSend, Submit,
             LimiterNext
<1>3. ASSUME NEW p \in Post, Goroutine(p) PROVE [LimiterNext]_limiter
  BY <1>3 DEF Goroutine, Process, Release, ReleaseEnds, Drop, AppendToBatch, Flush, Take,
             NothingToSend, Submit, LimiterNext
<1>4. CASE Cancel
  BY <1>4 DEF Cancel
<1>5. CASE Dial
  <2>1. \A t \in 0 .. MaxLimit + 1 : t \in Nat
    BY LimiterAssumption
  <2> QED
    BY <1>5, <2>1 DEF Dial, LimiterNext
<1> QED
  BY <1>1, <1>2, <1>3, <1>4, <1>5 DEF Next

\* At every turn of a resize, with any number of givers between their look
\* at the debt and their push, slots are neither lost nor made up.
LEMMA SlotInvHolds == Spec => []SlotInv
<1>1. Init => SlotInv
  BY LimiterAssumption DEF Init, LimiterInit, SlotInv, LimiterTypeOK, SlotsConserved, NoWindow
<1>2. SlotInv /\ [Next]_vars => SlotInv'
  BY LimiterKeepsSlots, StutterKeepsSlots, IndexerMovesLimiter
<1> QED
  BY <1>1, <1>2, PTL DEF Spec

\* IndexBatch's goroutines and the dial implement the limiter alone.
THEOREM ImplementsLimiter == Spec => LimiterSpec
BY IndexerMovesLimiter, PTL DEF Spec, Init, LimiterSpec

\* No slot is lost or made up, whatever giveBack, the goroutines and a
\* resize do at once (adaptive.go).
THEOREM SlotsAreConserved == Spec => []SlotsConserved
BY SlotInvHolds, PTL DEF SlotInv

\* The default branch of giveBack's select is never taken: whoever saw no
\* debt finds room in the channel.
THEOREM PushFindsRoom == Spec => []NoPushDropped
<1>1. SlotInv => NoPushDropped
  BY LimiterAssumption DEF SlotInv, LimiterTypeOK, SlotsConserved, NoPushDropped
<1> QED
  BY SlotInvHolds, <1>1, PTL

-----------------------------------------------------------------------------
(* The report. *)

\* The types the report's argument needs.
Typed ==
    /\ main \in {"loop", "acquire", "wait", "flush", "returned"}
    /\ main = "acquire" => next \in Post /\ at[next] = "todo"
    /\ at \in [Post -> {"todo", "busy", "leaving", "pushing", "free", "flush", "done"}]
    /\ good \subseteq Post /\ batch \subseteq Post
    /\ ready \in [Flushers -> SUBSET Post]
    /\ saved \subseteq Post /\ failed \subseteq Post
    /\ cancelled \in BOOLEAN

Counted == saved \cup failed
Carried == batch \cup UNION {ready[f] : f \in Flushers}

\* An image is in one place at a time: the batch, one flush, or one list of
\* the report.
OnePlace ==
    /\ saved \cap failed = {}
    /\ batch \cap Counted = {}
    /\ \A f \in Flushers :
         /\ ready[f] \cap (batch \cup Counted) = {}
         /\ \A g \in Flushers : f # g => ready[f] \cap ready[g] = {}

\* What a goroutine has done for its post.
Progress ==
    \A p \in Post :
        /\ at[p] \in {"todo", "busy"} => p \notin good
        /\ at[p] \in {"todo", "busy", "leaving", "pushing", "free"} =>
             p \notin Carried /\ p \notin Counted
        /\ at[p] \in {"flush", "done"} /\ p \in good => p \in Carried \cup Counted
        /\ at[p] \in {"flush", "done"} /\ p \notin good => p \in failed \/ cancelled

\* A flush holds images only while it runs, and behind wg.Wait() there is
\* only the last one.
Waited ==
    /\ \A f \in Flushers : ready[f] # {} => Flushing(f)
    /\ main \in {"flush", "returned"} => \A p \in Post : at[p] \in {"todo", "done"}
    /\ main \in {"wait", "flush", "returned"} /\ ~cancelled => \A p \in Post : at[p] # "todo"
    /\ main = "flush" /\ ready[Main] # {} => batch = {}
    /\ main = "returned" => batch = {}

ReportInv == Typed /\ OnePlace /\ Progress /\ Waited

\* The loop, its slot and the wait for the goroutines.
LEMMA LoopKeepsReport ==
    ASSUME ReportInv, Loop \/ Launch \/ GiveUp \/ AllDone PROVE ReportInv'
<1> USE DEF ReportInv, Typed, OnePlace, Progress, Waited, Carried, Counted, Flushing, Flushers
<1>1. CASE Loop
  BY <1>1, IndexerAssumption DEF Loop
<1>2. CASE Launch
  BY <1>2, IndexerAssumption DEF Launch
<1>3. CASE GiveUp
  BY <1>3, IndexerAssumption DEF GiveUp
<1>4. CASE AllDone
  BY <1>4, IndexerAssumption DEF AllDone
<1> QED
  BY <1>1, <1>2, <1>3, <1>4

\* A goroutine, up to its hand-over to the batch.
LEMMA GoroutineKeepsReport ==
    ASSUME ReportInv, NEW p \in Post,
           Process(p) \/ Release(p) \/ ReleaseEnds(p) \/ Drop(p) \/ AppendToBatch(p)
    PROVE  ReportInv'
<1> USE DEF ReportInv, Typed, OnePlace, Progress, Waited, Carried, Counted, Flushing, Flushers
<1>1. CASE Process(p)
  BY <1>1, IndexerAssumption DEF Process
<1>2. CASE Release(p)
  BY <1>2, IndexerAssumption DEF Release
<1>3. CASE ReleaseEnds(p)
  BY <1>3, IndexerAssumption DEF ReleaseEnds
<1>4. CASE Drop(p)
  BY <1>4, IndexerAssumption DEF Drop
<1>5. CASE AppendToBatch(p)
  BY <1>5, IndexerAssumption DEF AppendToBatch
<1> QED
  BY <1>1, <1>2, <1>3, <1>4, <1>5

\* A flush, by a goroutine or by IndexBatch itself.
LEMMA FlushKeepsReport ==
    ASSUME ReportInv, NEW f \in Flushers, Flush(f) PROVE ReportInv'
<1> USE DEF ReportInv, Typed, OnePlace, Progress, Waited, Carried, Counted, Flushing, Flushers
<1>1. CASE Take(f)
  BY <1>1, IndexerAssumption DEF Take, Rest
<1>2. CASE NothingToSend(f)
  BY <1>2, IndexerAssumption DEF NothingToSend, Over
<1>3. CASE Submit(f)
  BY <1>3, IndexerAssumption DEF Submit, Over, FailedToo
<1> QED
  BY <1>1, <1>2, <1>3 DEF Flush

\* Every step keeps the report's invariant.
LEMMA ReportInvStep == ReportInv /\ [Next]_vars => ReportInv'
<1> SUFFICES ASSUME ReportInv, [Next]_vars PROVE ReportInv'
  OBVIOUS
<1>1. CASE IndexBatch
  BY <1>1, LoopKeepsReport, FlushKeepsReport DEF IndexBatch, Flushers
<1>2. ASSUME NEW p \in Post, Goroutine(p) PROVE ReportInv'
  BY <1>2, GoroutineKeepsReport, FlushKeepsReport DEF Goroutine, Flushers
<1>3. CASE Cancel
  BY <1>3 DEF Cancel, ReportInv, Typed, OnePlace, Progress, Waited, Carried, Counted, Flushing
<1>4. CASE UNCHANGED indexer
  BY <1>4 DEF indexer, ReportInv, Typed, OnePlace, Progress, Waited, Carried, Counted, Flushing
<1> QED
  BY <1>1, <1>2, <1>3, <1>4 DEF Next, Dial, vars

\* Every post is in the report once: none twice, none left out unless the
\* context ended, and no embedded image dropped without a word even then
\* (Indexer.IndexBatch).
THEOREM ReportsAddUp == Spec => []ReportAddsUp
<1>1. Init => ReportInv
  BY IndexerAssumption DEF Init, ReportInv, Typed, OnePlace, Progress, Waited, Carried,
                           Counted, Flushing, Flushers
<1>2. ReportInv => ReportAddsUp
  <2> SUFFICES ASSUME ReportInv PROVE ReportAddsUp
    OBVIOUS
  <2>1. ASSUME main = "returned" PROVE Carried = {}
    BY <2>1, IndexerAssumption DEF ReportInv, Typed, Waited, Carried, Flushing, Flushers
  <2> QED
    BY <2>1 DEF ReportInv, Typed, OnePlace, Progress, Waited, Counted, ReportAddsUp
<1> QED
  BY <1>1, <1>2, ReportInvStep, PTL DEF Spec
-----------------------------------------------------------------------------
(* The types of IndexBatch: the limiter counts what goroutines hold. *)

Holders == {p \in Post : at[p] \in {"busy", "leaving"}}
Returning == {p \in Post : at[p] = "pushing"}

HoldersCounted ==
    /\ IsFiniteSet(Holders) /\ held = Cardinality(Holders)
    /\ IsFiniteSet(Returning) /\ returning = Cardinality(Returning)

GoodOnly == batch \subseteq good /\ \A f \in Flushers : ready[f] \subseteq good

IndexInv == SlotInv /\ ReportInv /\ HoldersCounted /\ GoodOnly

\* A step that moves no goroutine in or out of the limiter.
LEMMA HoldersStay ==
    ASSUME HoldersCounted, UNCHANGED <<held, returning>>, Holders' = Holders, Returning' = Returning
    PROVE  HoldersCounted'
BY DEF HoldersCounted

LEMMA GoroutineKeepsHolders ==
    ASSUME IndexInv, NEW p \in Post,
           Process(p) \/ Release(p) \/ ReleaseEnds(p) \/ Drop(p) \/ AppendToBatch(p)
    PROVE  HoldersCounted'
<1> USE DEF IndexInv, ReportInv, Typed
<1>1. CASE Process(p)
  <2>1. Holders' = Holders /\ Returning' = Returning /\ UNCHANGED <<held, returning>>
    BY <1>1 DEF Process, Report, Holders, Returning
  <2> QED
    BY <2>1, HoldersStay
<1>2. CASE Drop(p) \/ AppendToBatch(p)
  <2>1. Holders' = Holders /\ Returning' = Returning /\ UNCHANGED <<held, returning>>
    BY <1>2 DEF Drop, AppendToBatch, limiter, Holders, Returning
  <2> QED
    BY <2>1, HoldersStay
<1>3. CASE Release(p)
  <2>1. p \in Holders /\ Holders' = Holders \ {p} /\ held' = held - 1
    BY <1>3 DEF Release, PayDebt, SeeNoDebt, Holders
  <2>2. IsFiniteSet(Holders') /\ Cardinality(Holders') = Cardinality(Holders) - 1
    BY <2>1, FS_RemoveElement DEF HoldersCounted
  <2>3. \/ Returning' = Returning /\ returning' = returning
        \/ p \notin Returning /\ Returning' = Returning \cup {p} /\ returning' = returning + 1
    BY <1>3 DEF Release, PayDebt, SeeNoDebt, Returning
  <2>4. IsFiniteSet(Returning') /\ returning' = Cardinality(Returning')
    BY <2>3, FS_AddElement DEF HoldersCounted
  <2> QED
    BY <2>1, <2>2, <2>4 DEF HoldersCounted
<1>4. CASE ReleaseEnds(p)
  <2>1. Holders' = Holders /\ held' = held
    BY <1>4 DEF ReleaseEnds, Push, Holders
  <2>2. p \in Returning /\ Returning' = Returning \ {p} /\ returning' = returning - 1
    BY <1>4 DEF ReleaseEnds, Push, Returning
  <2>3. IsFiniteSet(Returning') /\ Cardinality(Returning') = Cardinality(Returning) - 1
    BY <2>2, FS_RemoveElement DEF HoldersCounted
  <2> QED
    BY <2>1, <2>2, <2>3 DEF HoldersCounted
<1> QED
  BY <1>1, <1>2, <1>3, <1>4

LEMMA FlushKeepsHolders ==
    ASSUME IndexInv, NEW f \in Flushers, Flush(f)
    PROVE  HoldersCounted'
<1>1. /\ UNCHANGED <<held, returning>> /\ at \in [Post -> {"todo", "busy", "leaving", "pushing", "free", "flush", "done"}]
  BY DEF IndexInv, ReportInv, Typed, Flush, Take, NothingToSend, Submit, limiter
<1>2. \/ at' = at
      \/ f # Main /\ at[f] = "flush" /\ at' = [at EXCEPT ![f] = "done"]
  <2>1. CASE Take(f)
    BY <2>1 DEF Take
  <2>2. CASE NothingToSend(f)
    BY <2>2 DEF NothingToSend, Over, Flushing
  <2>3. CASE Submit(f)
    BY <2>3 DEF Submit, Over, IndexInv, ReportInv, Waited, Flushing
  <2> QED
    BY <2>1, <2>2, <2>3 DEF Flush
<1>3. Holders' = Holders /\ Returning' = Returning
  BY <1>1, <1>2 DEF Holders, Returning
<1> QED
  BY <1>1, <1>3, HoldersStay DEF IndexInv

LEMMA LoopKeepsHolders ==
    ASSUME IndexInv, Loop \/ Launch \/ GiveUp \/ AllDone \/ Cancel \/ Dial \/ UNCHANGED vars
    PROVE  HoldersCounted'
<1>1. CASE Launch
  <2>1. next \in Post /\ at[next] = "todo"
    BY <1>1 DEF IndexInv, ReportInv, Typed, Launch
  <2>2. /\ next \notin Holders /\ Holders' = Holders \cup {next} /\ held' = held + 1
        /\ Returning' = Returning /\ returning' = returning
    BY <1>1, <2>1 DEF IndexInv, ReportInv, Typed, Launch, Acquire, Holders, Returning
  <2>3. IsFiniteSet(Holders') /\ Cardinality(Holders') = Cardinality(Holders) + 1
    BY <2>2, FS_AddElement DEF IndexInv, HoldersCounted
  <2> QED
    BY <2>2, <2>3 DEF IndexInv, HoldersCounted
<1>2. ASSUME Loop \/ GiveUp \/ AllDone \/ Cancel \/ Dial \/ UNCHANGED vars
      PROVE  HoldersCounted'
  <2>1. UNCHANGED <<at, held, returning>>
    BY <1>2 DEF Loop, GiveUp, AllDone, Cancel, Dial, Tick, Resize, SetLimit, limiter, indexer, vars
  <2>2. Holders' = Holders /\ Returning' = Returning
    BY <2>1 DEF Holders, Returning
  <2> QED
    BY <2>1, <2>2, HoldersStay DEF IndexInv
<1> QED
  BY <1>1, <1>2

\* Only images that were embedded come into the batch.
LEMMA StepKeepsGood ==
    ASSUME IndexInv, [Next]_vars
    PROVE  GoodOnly'
<1> USE DEF IndexInv, GoodOnly
<1>1. ASSUME NEW p \in Post, Process(p)
      PROVE  GoodOnly'
  BY <1>1 DEF Process
<1>2. ASSUME NEW p \in Post, AppendToBatch(p)
      PROVE  GoodOnly'
  BY <1>2 DEF AppendToBatch
<1>3. ASSUME NEW f \in Flushers, Flush(f)
      PROVE  GoodOnly'
  BY <1>3 DEF Flush, Take, Rest, NothingToSend, Submit, Over, ReportInv, Typed
<1>4. ASSUME UNCHANGED <<good, batch, ready>>
      PROVE  GoodOnly'
  BY <1>4
<1>5. ASSUME NEW p \in Post, Goroutine(p)
      PROVE  GoodOnly'
  BY <1>1, <1>2, <1>3, <1>4, <1>5 DEF Goroutine, Release, ReleaseEnds, Drop, Flushers
<1>6. CASE IndexBatch
  BY <1>3, <1>4, <1>6 DEF IndexBatch, Loop, Launch, GiveUp, AllDone, Flushers
<1> QED
  BY <1>4, <1>5, <1>6 DEF Next, Cancel, Dial, vars, indexer

LEMMA IndexKeeps ==
    ASSUME IndexInv, [Next]_vars
    PROVE  IndexInv'
<1>1. SlotInv'
  BY LimiterKeepsSlots, StutterKeepsSlots, IndexerMovesLimiter DEF IndexInv
<1>2. ReportInv'
  BY ReportInvStep DEF IndexInv
<1>3. HoldersCounted'
  BY GoroutineKeepsHolders, FlushKeepsHolders, LoopKeepsHolders
     DEF Next, IndexBatch, Goroutine, Flushers
<1> QED
  BY <1>1, <1>2, <1>3, StepKeepsGood DEF IndexInv

LEMMA IndexStarts == Init => IndexInv
<1> SUFFICES ASSUME Init PROVE IndexInv
  OBVIOUS
<1>1. SlotInv
  BY LimiterAssumption DEF Init, LimiterInit, SlotInv, LimiterTypeOK, SlotsConserved, NoWindow
<1>2. ReportInv
  BY IndexerAssumption DEF Init, ReportInv, Typed, OnePlace, Progress, Waited, Carried,
                           Counted, Flushing, Flushers
<1>3. Holders = {} /\ Returning = {} /\ held = 0 /\ returning = 0
  BY DEF Init, LimiterInit, Holders, Returning
<1>4. HoldersCounted
  BY <1>3, FS_EmptySet DEF HoldersCounted
<1>5. GoodOnly
  BY DEF Init, GoodOnly
<1> QED
  BY <1>1, <1>2, <1>4, <1>5 DEF IndexInv

LEMMA IndexIsTyped == IndexInv => TypeOK
<1> SUFFICES ASSUME IndexInv PROVE TypeOK
  OBVIOUS
<1>1. /\ held = Cardinality({p \in Post : at[p] \in {"busy", "leaving"}})
      /\ returning = Cardinality({p \in Post : at[p] = "pushing"})
  BY DEF IndexInv, HoldersCounted, Holders, Returning
<1>2. ready \in [Flushers -> SUBSET good]
  BY DEF IndexInv, GoodOnly, ReportInv, Typed
<1> QED
  BY <1>1, <1>2 DEF IndexInv, SlotInv, ReportInv, Typed, GoodOnly, TypeOK

-----------------------------------------------------------------------------
(* The embedding worker: who waits is in one place, the queue or the batch. *)

LEMMA EmbedConstants == Size \in Nat \ {0} /\ Preparers \in Nat \ {0}
BY PartsAssumption DEF Embed!BatcherAssumption

\* A sequence of requests that wait, each once.
InLine(line) ==
    \A i, j \in 1 .. Len(line) :
        caller[line[i]] = "queued" /\ (line[i] = line[j] => i = j)

EachOnce ==
    /\ caller \in [Caller -> {"new", "preparing", "queued", "resolved", "answered"}]
    /\ queue \in Seq(Caller) /\ jobs \in Seq(Caller)
    /\ InLine(queue) /\ InLine(jobs)
    /\ \A i \in 1 .. Len(queue), j \in 1 .. Len(jobs) : queue[i] # jobs[j]

Awaking == {c \in Caller : caller[c] = "resolved"}

InflightCounted ==
    /\ IsFiniteSet(Awaking)
    /\ inflight = Len(queue) + Len(jobs) + Cardinality(Awaking)

TaskInOrder ==
    /\ task \in {"get", "window", "run"} /\ Len(jobs) <= Size
    /\ task = "get" => jobs = <<>>
    /\ task = "window" => Len(jobs) < Size

EmbedInv == EachOnce /\ InflightCounted /\ TaskInOrder

\* The two halves of a queue.
LEMMA Halves ==
    ASSUME NEW q \in Seq(Caller), NEW n \in 0 .. Len(q)
    PROVE  /\ SubSeq(q, 1, n) \in Seq(Caller) /\ Len(SubSeq(q, 1, n)) = n
           /\ \A i \in 1 .. n : SubSeq(q, 1, n)[i] = q[i]
           /\ SubSeq(q, n + 1, Len(q)) \in Seq(Caller)
           /\ Len(SubSeq(q, n + 1, Len(q))) = Len(q) - n
           /\ \A i \in 1 .. Len(q) - n : SubSeq(q, n + 1, Len(q))[i] = q[n + i]
<1>1. Len(q) \in Nat /\ n \in Int /\ \A i \in 1 .. Len(q) : q[i] \in Caller
  OBVIOUS
<1>2. /\ SubSeq(q, 1, n) \in Seq(Caller) /\ Len(SubSeq(q, 1, n)) = n
      /\ \A i \in 1 .. n : SubSeq(q, 1, n)[i] = q[i]
  <2>1. \A i \in 1 .. n : q[i] \in Caller
    BY <1>1
  <2>2. /\ SubSeq(q, 1, n) \in Seq(Caller)
        /\ Len(SubSeq(q, 1, n)) = IF 1 <= n THEN n - 1 + 1 ELSE 0
        /\ \A i \in 1 .. n - 1 + 1 : SubSeq(q, 1, n)[i] = q[1 + i - 1]
    BY <1>1, <2>1, SubSeqProperties
  <2> QED
    BY <1>1, <2>2
<1>3. /\ SubSeq(q, n + 1, Len(q)) \in Seq(Caller)
      /\ Len(SubSeq(q, n + 1, Len(q))) = Len(q) - n
      /\ \A i \in 1 .. Len(q) - n : SubSeq(q, n + 1, Len(q))[i] = q[n + i]
  <2>1. \A i \in n + 1 .. Len(q) : q[i] \in Caller
    BY <1>1
  <2>2. n + 1 \in Int /\ Len(q) \in Int
    BY <1>1
  <2>3. /\ SubSeq(q, n + 1, Len(q)) \in Seq(Caller)
        /\ Len(SubSeq(q, n + 1, Len(q))) = IF n + 1 <= Len(q) THEN Len(q) - (n + 1) + 1 ELSE 0
        /\ \A i \in 1 .. Len(q) - (n + 1) + 1 :
              SubSeq(q, n + 1, Len(q))[i] = q[n + 1 + i - 1]
    BY <2>1, <2>2, SubSeqProperties
  <2> QED
    BY <1>1, <2>3
<1> QED
  BY <1>2, <1>3

\* A sequence without repetitions has as many elements as places.
LEMMA AsManyAsPlaces ==
    ASSUME NEW line \in Seq(Caller), \A i, j \in 1 .. Len(line) : line[i] = line[j] => i = j
    PROVE  LET S == {line[i] : i \in 1 .. Len(line)}
           IN  IsFiniteSet(S) /\ Cardinality(S) = Len(line)
<1> DEFINE N == Len(line)
           S == {line[i] : i \in 1 .. N}
           f == [i \in 1 .. N |-> line[i]]
<1>1. N \in Nat
  OBVIOUS
<1>2. f \in Bijection(1 .. N, S)
  BY DEF Bijection, Injection, Surjection, IsInjective
<1>3. ExistsBijection(1 .. N, S)
  BY <1>2 DEF ExistsBijection
<1>4. IsFiniteSet(S) /\ Cardinality(S) = N
  BY <1>1, <1>3, FS_NatBijection, FS_CountingElements
<1> QED
  BY <1>4

LEMMA EmbedStarts == Embed!BatcherInit => EmbedInv
<1> SUFFICES ASSUME Embed!BatcherInit PROVE EmbedInv
  OBVIOUS
<1>1. /\ caller = [c \in Caller |-> "new"] /\ queue = <<>> /\ inflight = 0
      /\ jobs = <<>> /\ task = "get"
  BY DEF Embed!BatcherInit
<1>2. queue \in Seq(Caller) /\ jobs \in Seq(Caller) /\ Len(queue) = 0 /\ Len(jobs) = 0
  BY <1>1
<1>3. Awaking = {}
  BY <1>1 DEF Awaking
<1>4. EachOnce
  BY <1>1, <1>2 DEF EachOnce, InLine
<1>5. InflightCounted
  BY <1>1, <1>2, <1>3, FS_EmptySet DEF InflightCounted
<1>6. TaskInOrder
  BY <1>1, <1>2, EmbedConstants DEF TaskInOrder
<1> QED
  BY <1>4, <1>5, <1>6 DEF EmbedInv

\* A request prepares its image, is refused, or queues, and wakes up.
LEMMA RequestKeepsEmbed ==
    ASSUME EmbedInv, NEW c \in Caller, Embed!Request(c)
    PROVE  EmbedInv' /\ UNCHANGED task
<1>1. /\ caller \in [Caller -> {"new", "preparing", "queued", "resolved", "answered"}]
      /\ queue \in Seq(Caller) /\ jobs \in Seq(Caller) /\ InLine(queue) /\ InLine(jobs)
      /\ \A i \in 1 .. Len(queue), j \in 1 .. Len(jobs) : queue[i] # jobs[j]
      /\ IsFiniteSet(Awaking) /\ Cardinality(Awaking) \in Nat
      /\ inflight = Len(queue) + Len(jobs) + Cardinality(Awaking)
      /\ Len(queue) \in Nat /\ Len(jobs) \in Nat /\ TaskInOrder
  BY FS_CardinalityType DEF EmbedInv, EachOnce, InflightCounted
<1>2. CASE Embed!Submit(c)
  <2>1. /\ caller[c] = "preparing" /\ inflight' = inflight + 1 /\ queue' = Append(queue, c)
        /\ caller' = [caller EXCEPT ![c] = "queued"] /\ UNCHANGED <<jobs, task>>
    BY <1>2 DEF Embed!Submit
  <2>2. /\ queue' \in Seq(Caller) /\ Len(queue') = Len(queue) + 1
        /\ \A i \in 1 .. Len(queue) : queue'[i] = queue[i] /\ queue'[Len(queue) + 1] = c
    BY <1>1, <2>1
  <2>3. queue'[Len(queue) + 1] = c
    BY <1>1, <2>1
  <2>4. /\ \A i \in 1 .. Len(queue) : queue[i] # c
        /\ \A i \in 1 .. Len(jobs) : jobs[i] # c
    BY <1>1, <2>1 DEF InLine
  <2>5. EachOnce'
    <3>1. InLine(queue)'
      BY <1>1, <2>1, <2>2, <2>3, <2>4 DEF InLine
    <3>2. InLine(jobs)'
      BY <1>1, <2>1, <2>4 DEF InLine
    <3>3. \A i \in 1 .. Len(queue'), j \in 1 .. Len(jobs') : queue'[i] # jobs'[j]
      BY <1>1, <2>1, <2>2, <2>3, <2>4
    <3> QED
      BY <1>1, <2>1, <2>2, <3>1, <3>2, <3>3 DEF EachOnce
  <2>6. Awaking' = Awaking
    BY <1>1, <2>1 DEF Awaking
  <2>7. InflightCounted'
    BY <1>1, <2>1, <2>2, <2>6 DEF InflightCounted
  <2> QED
    BY <1>1, <2>1, <2>5, <2>7 DEF EmbedInv, TaskInOrder
<1>3. ASSUME NEW s \in {"preparing", "answered"},
             caller[c] # "queued", caller' = [caller EXCEPT ![c] = s],
             UNCHANGED <<queue, jobs, task>>,
             IF caller[c] = "resolved" THEN inflight' = inflight - 1 ELSE inflight' = inflight
      PROVE  EmbedInv' /\ UNCHANGED task
  <2>1. /\ \A i \in 1 .. Len(queue) : queue[i] # c
        /\ \A i \in 1 .. Len(jobs) : jobs[i] # c
    BY <1>1, <1>3 DEF InLine
  <2>2. InLine(queue)' /\ InLine(jobs)'
    BY <1>1, <1>3, <2>1 DEF InLine
  <2>3. EachOnce'
    BY <1>1, <1>3, <2>2 DEF EachOnce
  <2>4. Awaking' = Awaking \ {c} /\ (c \in Awaking <=> caller[c] = "resolved")
    BY <1>1, <1>3 DEF Awaking
  <2>5. /\ IsFiniteSet(Awaking')
        /\ Cardinality(Awaking') = IF c \in Awaking THEN Cardinality(Awaking) - 1
                                   ELSE Cardinality(Awaking)
    BY <1>1, <2>4, FS_RemoveElement
  <2>6. InflightCounted'
    BY <1>1, <1>3, <2>4, <2>5 DEF InflightCounted
  <2> QED
    BY <1>1, <1>3, <2>3, <2>6 DEF EmbedInv, TaskInOrder
<1> QED
  BY <1>2, <1>3 DEF Embed!Request, Embed!Prepare, Embed!Refuse, Embed!Answer

\* The task takes a batch when it has none: from a queue that is in line, with
\* what it has delivered before.
LEMMA TakeBatchKeepsEmbed ==
    ASSUME caller' \in [Caller -> {"new", "preparing", "queued", "resolved", "answered"}],
           queue \in Seq(Caller),
           \A i, j \in 1 .. Len(queue) :
              caller'[queue[i]] = "queued" /\ (queue[i] = queue[j] => i = j),
           IsFiniteSet(Awaking'), UNCHANGED inflight,
           inflight = Len(queue) + Cardinality(Awaking'),
           Embed!TakeBatch
    PROVE  EmbedInv' /\ (task' = "window" => Awaking' # {})
<1> DEFINE n == Embed!Atmost(Size, Len(queue))
<1>1. n \in 0 .. Len(queue) /\ n <= Size /\ (n < Size => n = Len(queue)) /\ Len(queue) \in Nat
  BY EmbedConstants DEF Embed!Atmost
<1>2. /\ jobs' = SubSeq(queue, 1, n) /\ queue' = SubSeq(queue, n + 1, Len(queue))
      /\ task' = IF Len(jobs') < Size /\ inflight > Len(jobs') THEN "window" ELSE "run"
  BY DEF Embed!TakeBatch, Embed!Onward, Embed!MoreToCome
<1> HIDE DEF n
<1>3. /\ jobs' \in Seq(Caller) /\ queue' \in Seq(Caller)
      /\ Len(jobs') = n /\ Len(queue') = Len(queue) - n
  BY <1>1, <1>2, Halves
<1>4. PICK who : who = caller'
  OBVIOUS
<1>5. /\ InLine(jobs)' /\ InLine(queue)'
      /\ \A i \in 1 .. Len(queue'), j \in 1 .. Len(jobs') : queue'[i] # jobs'[j]
  <2>1. PICK q \in Seq(Caller) : q = queue
    OBVIOUS
  <2>2. PICK m \in 0 .. Len(q) : m = n
    BY <1>1, <2>1
  <2> DEFINE h == SubSeq(q, 1, m)
             t == SubSeq(q, m + 1, Len(q))
  <2>3. \A i, j \in 1 .. Len(q) : who[q[i]] = "queued" /\ (q[i] = q[j] => i = j)
    BY <1>4, <2>1
  <2>4. /\ \A i, j \in 1 .. Len(h) : who[h[i]] = "queued" /\ (h[i] = h[j] => i = j)
        /\ \A i, j \in 1 .. Len(t) : who[t[i]] = "queued" /\ (t[i] = t[j] => i = j)
        /\ \A i \in 1 .. Len(t), j \in 1 .. Len(h) : t[i] # h[j]
    <3>1. /\ Len(h) = m /\ \A i \in 1 .. m : h[i] = q[i]
          /\ Len(t) = Len(q) - m /\ \A i \in 1 .. Len(q) - m : t[i] = q[m + i]
      BY <2>1, <2>2, Halves
    <3> HIDE DEF h, t
    <3>2. Len(q) \in Nat
      BY <2>1
    <3>3. \A i \in 1 .. m : i \in 1 .. Len(q)
      BY <2>2, <3>2
    <3>4. \A i \in 1 .. Len(q) - m : m + i \in 1 .. Len(q) /\ m + i > m
      BY <2>2, <3>2
    <3>5. \A i, j \in 1 .. Len(h) : who[h[i]] = "queued" /\ (h[i] = h[j] => i = j)
      BY <2>3, <3>1, <3>3
    <3>6. ASSUME NEW i \in 1 .. Len(t), NEW j \in 1 .. Len(t)
          PROVE  who[t[i]] = "queued" /\ (t[i] = t[j] => i = j)
      <4>1. t[i] = q[m + i] /\ t[j] = q[m + j] /\ m + i \in 1 .. Len(q) /\ m + j \in 1 .. Len(q)
        BY <3>1, <3>4
      <4>2. m + i = m + j => i = j
        BY <2>2, <3>1, <3>2
      <4> QED
        BY <2>3, <4>1, <4>2
    <3>7. \A i \in 1 .. Len(t), j \in 1 .. Len(h) : t[i] # h[j]
      BY <2>2, <2>3, <3>1, <3>2, <3>3, <3>4
    <3> QED
      BY <3>5, <3>6, <3>7
  <2>5. jobs' = h /\ queue' = t
    BY <1>2, <2>1, <2>2
  <2> QED
    BY <1>4, <2>4, <2>5 DEF InLine
<1>6. EachOnce'
  BY <1>3, <1>5 DEF EachOnce
<1>7. PICK k \in Nat : k = Cardinality(Awaking')
  BY FS_CardinalityType
<1>8. InflightCounted'
  BY <1>1, <1>3, <1>7 DEF InflightCounted
<1>9. TaskInOrder'
  BY <1>1, <1>2, <1>3, EmbedConstants DEF TaskInOrder
<1>10. ASSUME task' = "window"
       PROVE  Awaking' # {}
  <2>1. n < Size /\ inflight > n
    BY <1>2, <1>3, <1>10
  <2>2. k > 0
    BY <1>1, <1>7, <2>1
  <2> QED
    BY <1>7, <2>2, FS_EmptySet
<1> QED
  BY <1>6, <1>8, <1>9, <1>10 DEF EmbedInv

\* The first batch, and one job more in its window.
LEMMA CollectKeepsEmbed ==
    ASSUME EmbedInv, Embed!Collect \/ Embed!CollectMore \/ Embed!WindowEnds
    PROVE  EmbedInv' /\ (task # "window" /\ task' = "window" => Awaking' # {})
<1>1. /\ caller \in [Caller -> {"new", "preparing", "queued", "resolved", "answered"}]
      /\ queue \in Seq(Caller) /\ jobs \in Seq(Caller) /\ InLine(queue) /\ InLine(jobs)
      /\ \A i \in 1 .. Len(queue), j \in 1 .. Len(jobs) : queue[i] # jobs[j]
      /\ IsFiniteSet(Awaking) /\ Cardinality(Awaking) \in Nat
      /\ inflight = Len(queue) + Len(jobs) + Cardinality(Awaking)
      /\ Len(queue) \in Nat /\ Len(jobs) \in Nat /\ TaskInOrder
  BY FS_CardinalityType DEF EmbedInv, EachOnce, InflightCounted
<1>2. caller' = caller /\ inflight' = inflight /\ Awaking' = Awaking
  BY DEF Embed!Collect, Embed!CollectMore, Embed!WindowEnds, Awaking
<1>3. CASE Embed!Collect
  <2>1. Embed!TakeBatch /\ jobs = <<>> /\ Len(jobs) = 0
    BY <1>1, <1>3 DEF Embed!Collect, TaskInOrder
  <2>2. inflight = Len(queue) + Cardinality(Awaking')
    BY <1>1, <1>2, <2>1
  <2>3. \A i, j \in 1 .. Len(queue) :
            caller'[queue[i]] = "queued" /\ (queue[i] = queue[j] => i = j)
    BY <1>1, <1>2 DEF InLine
  <2> QED
    BY <1>1, <1>2, <2>1, <2>2, <2>3, TakeBatchKeepsEmbed
<1>4. CASE Embed!CollectMore
  <2>1. /\ task = "window" /\ queue # <<>> /\ jobs' = Append(jobs, Head(queue))
        /\ queue' = Tail(queue)
        /\ task' = IF Len(jobs') < Size /\ inflight > Len(jobs') THEN "window" ELSE "run"
    BY <1>4 DEF Embed!CollectMore, Embed!Onward, Embed!MoreToCome
  <2>2. /\ Head(queue) = queue[1] /\ Head(queue) \in Caller /\ queue' \in Seq(Caller)
        /\ Len(queue) > 0 /\ Len(queue') = Len(queue) - 1
        /\ \A i \in 1 .. Len(queue') : queue'[i] = queue[i + 1]
    BY <1>1, <2>1, HeadTailProperties
  <2>3. /\ jobs' \in Seq(Caller) /\ Len(jobs') = Len(jobs) + 1
        /\ \A i \in 1 .. Len(jobs) : jobs'[i] = jobs[i]
    BY <1>1, <2>1, <2>2
  <2>4. jobs'[Len(jobs) + 1] = queue[1]
    BY <1>1, <2>1, <2>2
  <2>5. InLine(jobs)'
    <3> SUFFICES ASSUME NEW i \in 1 .. Len(jobs'), NEW j \in 1 .. Len(jobs')
                 PROVE  caller'[jobs'[i]] = "queued" /\ (jobs'[i] = jobs'[j] => i = j)
      BY DEF InLine
    <3>1. /\ i \in 1 .. Len(jobs) \/ i = Len(jobs) + 1
          /\ j \in 1 .. Len(jobs) \/ j = Len(jobs) + 1
      BY <1>1, <2>3
    <3>2. 1 \in 1 .. Len(queue)
      BY <1>1, <2>2
    <3>5. caller[queue[1]] = "queued" /\ \A k \in 1 .. Len(jobs) : queue[1] # jobs[k]
      BY <1>1, <3>2 DEF InLine
    <3>3. caller'[jobs'[i]] = "queued"
      BY <1>1, <1>2, <2>3, <2>4, <3>1, <3>5 DEF InLine
    <3>4. jobs'[i] = jobs'[j] => i = j
      <4>1. CASE i \in 1 .. Len(jobs) /\ j \in 1 .. Len(jobs)
        BY <1>1, <2>3, <4>1 DEF InLine
      <4>2. CASE i = Len(jobs) + 1 \/ j = Len(jobs) + 1
        BY <2>3, <2>4, <3>1, <3>5, <4>2
      <4> QED
        BY <3>1, <4>1, <4>2
    <3> QED
      BY <3>3, <3>4
  <2>6. \A i \in 1 .. Len(queue') : i + 1 \in 1 .. Len(queue) /\ i + 1 # 1
    BY <1>1, <2>2
  <2>7. InLine(queue)'
    <3> SUFFICES ASSUME NEW i \in 1 .. Len(queue'), NEW j \in 1 .. Len(queue')
                 PROVE  caller'[queue'[i]] = "queued" /\ (queue'[i] = queue'[j] => i = j)
      BY DEF InLine
    <3>1. queue'[i] = queue[i + 1] /\ queue'[j] = queue[j + 1]
      BY <2>2
    <3>2. i + 1 = j + 1 => i = j
      BY <1>1, <2>2
    <3> QED
      BY <1>1, <1>2, <2>6, <3>1, <3>2 DEF InLine
  <2>8. \A i \in 1 .. Len(queue'), j \in 1 .. Len(jobs') : queue'[i] # jobs'[j]
    <3>1. ASSUME NEW i \in 1 .. Len(queue') PROVE queue'[i] # queue[1]
      <4>1. /\ i + 1 \in 1 .. Len(queue) /\ i + 1 # 1 /\ 1 \in 1 .. Len(queue)
            /\ queue'[i] = queue[i + 1]
        BY <1>1, <2>2, <2>6
      <4>2. \A k, l \in 1 .. Len(queue) : queue[k] = queue[l] => k = l
        BY <1>1 DEF InLine
      <4>3. queue[i + 1] = queue[1] => i + 1 = 1
        BY <4>1, <4>2
      <4> QED
        BY <4>1, <4>3
    <3>2. \A j \in 1 .. Len(jobs') : j \in 1 .. Len(jobs) \/ j = Len(jobs) + 1
      BY <1>1, <2>3
    <3>3. ASSUME NEW i \in 1 .. Len(queue'), NEW j \in 1 .. Len(jobs)
          PROVE  queue'[i] # jobs'[j]
      <4>1. i + 1 \in 1 .. Len(queue) /\ queue'[i] = queue[i + 1] /\ jobs'[j] = jobs[j]
        BY <2>2, <2>3, <2>6, <3>3
      <4> QED
        BY <1>1, <4>1
    <3> QED
      BY <2>4, <3>1, <3>2, <3>3
  <2>9. EachOnce'
    BY <1>1, <1>2, <2>2, <2>3, <2>5, <2>7, <2>8 DEF EachOnce
  <2>10. InflightCounted'
    BY <1>1, <1>2, <2>2, <2>3 DEF InflightCounted
  <2>11. TaskInOrder'
    BY <1>1, <2>1, <2>3, EmbedConstants DEF TaskInOrder
  <2> QED
    BY <2>1, <2>9, <2>10, <2>11 DEF EmbedInv
<1>5. CASE Embed!WindowEnds
  <2>1. task' = "run" /\ UNCHANGED <<caller, queue, inflight, jobs>>
    BY <1>5 DEF Embed!WindowEnds
  <2> QED
    BY <1>1, <1>2, <2>1 DEF EmbedInv, EachOnce, InLine, InflightCounted, TaskInOrder
<1> QED
  BY <1>3, <1>4, <1>5

\* What was in the batch gets its answer, and the next batch is taken.
LEMMA InferKeepsEmbed ==
    ASSUME EmbedInv, Embed!Infer
    PROVE  EmbedInv' /\ (task # "window" /\ task' = "window" => Awaking' # {})
<1>1. /\ caller \in [Caller -> {"new", "preparing", "queued", "resolved", "answered"}]
      /\ queue \in Seq(Caller) /\ jobs \in Seq(Caller) /\ InLine(queue) /\ InLine(jobs)
      /\ \A i \in 1 .. Len(queue), j \in 1 .. Len(jobs) : queue[i] # jobs[j]
      /\ IsFiniteSet(Awaking) /\ Cardinality(Awaking) \in Nat
      /\ inflight = Len(queue) + Len(jobs) + Cardinality(Awaking)
      /\ Len(queue) \in Nat /\ Len(jobs) \in Nat /\ TaskInOrder
  BY FS_CardinalityType DEF EmbedInv, EachOnce, InflightCounted
<1>2. /\ inflight' = inflight
      /\ caller' = [c \in Caller |-> IF c \in Embed!Taken THEN "resolved" ELSE caller[c]]
      /\ \/ queue = <<>> /\ jobs' = <<>> /\ task' = "get" /\ queue' = queue
         \/ Embed!TakeBatch
  BY DEF Embed!Infer, Embed!Resolved
<1>3. Embed!Taken \subseteq Caller /\ \A c \in Embed!Taken : caller[c] = "queued"
  BY <1>1 DEF Embed!Taken, InLine
<1>4. IsFiniteSet(Embed!Taken) /\ Cardinality(Embed!Taken) = Len(jobs)
  BY <1>1, AsManyAsPlaces DEF Embed!Taken, InLine
<1>5. /\ IsFiniteSet(Awaking') /\ Cardinality(Awaking') \in Nat
      /\ Cardinality(Awaking') = Cardinality(Awaking) + Len(jobs)
  <2>1. Awaking' = Awaking \cup Embed!Taken /\ Awaking \cap Embed!Taken = {}
    BY <1>2, <1>3 DEF Awaking
  <2>2. /\ IsFiniteSet(Awaking \cup Embed!Taken)
        /\ Cardinality(Awaking \cup Embed!Taken)
             = Cardinality(Awaking) + Cardinality(Embed!Taken) - Cardinality({})
    BY <1>1, <1>4, <2>1, FS_Union
  <2> QED
    BY <1>1, <1>4, <2>1, <2>2, FS_EmptySet
<1>6. caller' \in [Caller -> {"new", "preparing", "queued", "resolved", "answered"}]
  BY <1>1, <1>2
<1>7. \A i, j \in 1 .. Len(queue) :
          caller'[queue[i]] = "queued" /\ (queue[i] = queue[j] => i = j)
  <2>1. \A i \in 1 .. Len(queue) : queue[i] \in Caller /\ queue[i] \notin Embed!Taken
    BY <1>1 DEF Embed!Taken
  <2> QED
    BY <1>1, <1>2, <2>1 DEF InLine
<1>8. inflight = Len(queue) + Cardinality(Awaking')
  BY <1>1, <1>5
<1>9. CASE Embed!TakeBatch
  BY <1>1, <1>2, <1>5, <1>6, <1>7, <1>8, <1>9, TakeBatchKeepsEmbed
<1>10. CASE queue = <<>> /\ jobs' = <<>> /\ task' = "get" /\ queue' = queue
  <2>1. Len(jobs') = 0 /\ Len(queue') = 0 /\ jobs' \in Seq(Caller) /\ queue' \in Seq(Caller)
    BY <1>1, <1>10
  <2>2. EachOnce'
    BY <1>6, <1>10, <2>1 DEF EachOnce, InLine
  <2>3. InflightCounted'
    <3>1. Len(queue) = 0
      BY <1>10, <2>1
    <3> QED
      BY <1>2, <1>5, <1>8, <2>1, <3>1 DEF InflightCounted
  <2>4. TaskInOrder'
    BY <1>10, <2>1, EmbedConstants DEF TaskInOrder
  <2> QED
    BY <1>10, <2>2, <2>3, <2>4 DEF EmbedInv
<1> QED
  BY <1>2, <1>9, <1>10

LEMMA EmbedKeeps ==
    ASSUME EmbedInv, Embed!BatcherNext \/ UNCHANGED embed
    PROVE  EmbedInv' /\ (task # "window" /\ task' = "window" => Awaking' # {})
<1>1. CASE UNCHANGED embed
  <2>1. UNCHANGED <<caller, queue, inflight, jobs, task>>
    BY <1>1 DEF embed
  <2>2. Awaking' = Awaking
    BY <2>1 DEF Awaking
  <2>3. EachOnce'
    BY <2>1 DEF EmbedInv, EachOnce, InLine
  <2>4. InflightCounted' /\ TaskInOrder'
    BY <2>1, <2>2 DEF EmbedInv, InflightCounted, TaskInOrder
  <2> QED
    BY <2>1, <2>3, <2>4 DEF EmbedInv
<1>2. ASSUME NEW c \in Caller, Embed!Request(c)
      PROVE  EmbedInv' /\ (task # "window" /\ task' = "window" => Awaking' # {})
  BY <1>2, RequestKeepsEmbed
<1>3. CASE Embed!Loop
  BY <1>3, CollectKeepsEmbed, InferKeepsEmbed DEF Embed!Loop, Embed!InferFails
<1> QED
  BY <1>1, <1>2, <1>3 DEF Embed!BatcherNext

LEMMA EmbedIsTyped == EmbedInv => Embed!BatcherTypeOK
<1> SUFFICES ASSUME EmbedInv PROVE Embed!BatcherTypeOK
  OBVIOUS
<1>1. Embed!At("resolved") = Awaking
  BY DEF Embed!At, Awaking
<1>2. Embed!Cardinality(Awaking) = Cardinality(Awaking)
  BY DEF Embed!Cardinality, Cardinality, Embed!IsFiniteSet, IsFiniteSet
<1> QED
  BY <1>1, <1>2 DEF EmbedInv, EachOnce, InflightCounted, TaskInOrder, Embed!BatcherTypeOK
-----------------------------------------------------------------------------
(* The network path. *)

\* Its types, and where a request stands: a path that has carried it is still
\* among those to try, so that what is remembered then is one of the chain's,
\* and a lookup is for the ECH path only.
Standing(r) ==
    /\ req[r] = "carried" => todo[r] # {}
    /\ req[r] = "looking" => Path!Turn(r) = Ech

PathTyped == Path!NetPathTypeOK /\ \A r \in Requester : Standing(r)

LEMMA PathConstants ==
    /\ Unready \subseteq Path!Mode /\ Path!Clients # {} /\ None \notin Path!Mode
    /\ Path!Clients = Path!Mode \ Unready
BY PartsAssumption DEF Path!NetPathAssumption, Path!Clients

\* A set of numbers from below has a least,
LEMMA HasLeast ==
    ASSUME NEW S \in SUBSET Nat, S # {}
    PROVE  \E x \in S : \A y \in S : x <= y
<1>1. PICK x \in S : \A y \in S : ~(<<y, x>> \in OpToRel(<, Nat))
  BY NatLessThanWellFounded, WFMin, Zenon
<1>2. \A y \in S : ~(y < x)
  BY <1>1 DEF OpToRel
<1> QED
  BY <1>2

\* so the first of some paths is one of them,
LEMMA FirstIsOneOf ==
    ASSUME NEW ms \in SUBSET Path!Mode, ms # {}
    PROVE  Path!FirstOf(ms) \in ms
<1> DEFINE places == {Path!Place(m) : m \in ms}
<1>1. Len(Order) = 3
  BY DEF Order
<1>2. \A m \in Path!Mode : Path!Place(m) \in Nat
  BY <1>1 DEF Path!Mode, Path!Place
<1>3. places \in SUBSET Nat /\ places # {}
  BY <1>2
<1>4. PICK i \in places : \A j \in places : i <= j
  BY <1>3, HasLeast
<1>5. \E m \in ms : \A o \in ms : Path!Place(m) <= Path!Place(o)
  BY <1>4
<1> QED
  BY <1>5 DEF Path!FirstOf

\* and a request tries one it has not tried.
LEMMA TurnIsToDo ==
    ASSUME PathTyped, NEW r \in Requester, todo[r] # {}
    PROVE  Path!Turn(r) \in todo[r] /\ Path!Turn(r) \in Path!Clients
<1>1. todo[r] \in SUBSET Path!Mode /\ todo[r] \subseteq Path!Clients
  BY PathConstants DEF PathTyped, Path!NetPathTypeOK
<1> QED
  BY <1>1, FirstIsOneOf DEF Path!Turn

\* What an attempt finds in the resolver's cache, or leaves there.
LEMMA FoundIsEntry ==
    ASSUME PathTyped, NEW r \in Requester, NEW e \in Path!Found(r)
    PROVE  todo[r] # {} /\ Path!Entry(r, e) \in {"none", "config", "without"}
BY DEF Path!Found, Path!Entry, PathTyped, Standing, Path!NetPathTypeOK

LEMMA PathStarts == Path!NetPathInit => PathTyped
BY PathConstants DEF Path!NetPathInit, PathTyped, Standing, Path!NetPathTypeOK

LEMMA RowKeepsTable ==
    ASSUME PathTyped, NEW m, NEW seen \in {"none", "ok", "failed"},
           Path!Row(m, seen) \/ UNCHANGED probes
    PROVE  probes' \in [Path!Mode -> {"none", "ok", "failed"}]
BY DEF PathTyped, Path!NetPathTypeOK, Path!Row

\* Requests that a step leaves alone stand as they did.
LEMMA OthersStand ==
    ASSUME PathTyped, NEW Q \in SUBSET Requester,
           \A q \in Q : req'[q] = req[q] /\ lead'[q] = lead[q] /\ todo'[q] = todo[q]
    PROVE  \A q \in Q : Standing(q)'
<1>1. ASSUME NEW q \in Q
      PROVE  Standing(q)'
  <2>1. Path!Turn(q)' = IF lead'[q] \in todo'[q] THEN lead'[q] ELSE Path!FirstOf(todo'[q])
    BY DEF Path!Turn, Path!FirstOf, Path!Place
  <2>2. Path!Turn(q)' = Path!Turn(q)
    BY <2>1 DEF Path!Turn
  <2> QED
    BY <2>2 DEF PathTyped, Standing
<1> QED
  BY <1>1

\* What one request does.
LEMMA RequestKeepsPath ==
    ASSUME PathTyped, NEW r \in Requester, Path!DoStep(r) \/ Path!End(r)
    PROVE  PathTyped'
<1> DEFINE Kept == Path!NetPathTypeOK' /\ Standing(r)'
<1>1. ASSUME Path!Ask(r) PROVE Kept
  <2>1. Path!FirstOf(Path!Clients) \in Path!Clients
    BY PathConstants, FirstIsOneOf
  <2>2. Path!Preferred \in Path!Mode
    BY <2>1, PathConstants DEF Path!Preferred, PathTyped, Path!NetPathTypeOK
  <2> QED
    BY <1>1, <2>2, PathConstants
       DEF Path!Ask, Path!Candidates, PathTyped, Standing, Path!NetPathTypeOK
<1>2. ASSUME Path!LookUp(r) PROVE Kept
  <2>1. Path!Turn(r)' = Path!Turn(r)
    BY <1>2 DEF Path!LookUp, Path!Turn, Path!FirstOf, Path!Place
  <2> QED
    BY <1>2, <2>1 DEF Path!LookUp, PathTyped, Standing, Path!NetPathTypeOK
<1>3. ASSUME Path!Carry(r) PROVE Kept
  <2>1. /\ todo[r] # {} /\ ech' \in {"none", "config", "without"}
        /\ answered' = answered \cup {Path!Turn(r)} /\ req' = [req EXCEPT ![r] = "carried"]
        /\ UNCHANGED <<open, chosen, probes, lead, todo, refused>>
    BY <1>3, FoundIsEntry DEF Path!Carry
  <2>2. Path!Turn(r) \in Path!Mode
    BY <2>1, TurnIsToDo, PathConstants
  <2> QED
    BY <2>1, <2>2 DEF PathTyped, Standing, Path!NetPathTypeOK
<1>4. ASSUME Path!Remember(r) PROVE Kept
  <2>1. Path!Turn(r) \in Path!Clients
    BY <1>4, TurnIsToDo DEF Path!Remember, PathTyped, Standing
  <2>2. probes' \in [Path!Mode -> {"none", "ok", "failed"}]
    BY <1>4, RowKeepsTable DEF Path!Remember
  <2> QED
    BY <1>4, <2>1, <2>2, PathConstants
       DEF Path!Remember, Path!Remembered, Path!Done, PathTyped, Standing, Path!NetPathTypeOK
<1>5. ASSUME Path!Descend(r) PROVE Kept
  <2>1. todo[r] # {} /\ ech' \in {"none", "config", "without"}
    BY <1>5, FoundIsEntry DEF Path!Descend
  <2>2. Path!Turn(r) \in Path!Clients
    BY <2>1, TurnIsToDo
  <2>3. probes' \in [Path!Mode -> {"none", "ok", "failed"}]
    BY <1>5, RowKeepsTable DEF Path!Descend
  <2> QED
    BY <1>5, <2>1, <2>2, <2>3, PathConstants
       DEF Path!Descend, PathTyped, Standing, Path!NetPathTypeOK
<1>6. ASSUME Path!GiveUp(r) PROVE Kept
  BY <1>6 DEF Path!GiveUp, PathTyped, Standing, Path!NetPathTypeOK
<1>7. ASSUME Path!AskAgain(r) \/ Path!End(r) PROVE Kept
  BY <1>7, PathConstants
     DEF Path!AskAgain, Path!End, Path!Done, PathTyped, Standing, Path!NetPathTypeOK
<1>8. Kept
  BY <1>1, <1>2, <1>3, <1>4, <1>5, <1>6, <1>7 DEF Path!DoStep
<1>9. \A q \in Requester \ {r} :
        req'[q] = req[q] /\ lead'[q] = lead[q] /\ todo'[q] = todo[q]
  BY DEF Path!DoStep, Path!Ask, Path!LookUp, Path!Carry, Path!Remember, Path!Descend, Path!GiveUp,
         Path!AskAgain, Path!End, Path!Done, PathTyped, Path!NetPathTypeOK
<1>10. \A q \in Requester \ {r} : Standing(q)'
  BY <1>9, OthersStand
<1> QED
  BY <1>8, <1>10 DEF PathTyped

\* A step of the path, or none.
LEMMA PathKeeps ==
    ASSUME PathTyped, Path!NetPathNext \/ UNCHANGED path
    PROVE  PathTyped'
<1>1. ASSUME UNCHANGED <<req, lead, todo>>
      PROVE  \A r \in Requester : Standing(r)'
  BY <1>1, OthersStand
<1>2. ASSUME NEW m \in Path!Mode, Path!Probe(m) \/ Path!Age(m)
      PROVE  PathTyped'
  <2>1. probes' \in [Path!Mode -> {"none", "ok", "failed"}]
    BY <1>2, RowKeepsTable DEF Path!Probe, Path!Age
  <2> QED
    BY <1>1, <1>2, <2>1 DEF Path!Probe, Path!Age, PathTyped, Path!NetPathTypeOK
<1>3. CASE Path!EchExpires \/ Path!Changes
  BY <1>1, <1>3 DEF Path!EchExpires, Path!Changes, PathTyped, Path!NetPathTypeOK
<1>4. CASE Path!Restart
  <2>1. chosen' \in {None} \cup Path!Clients
    BY <1>4, PathConstants DEF Path!Restart, Path!BestPaths, Path!Primed
  <2> QED
    BY <1>4, <2>1, PathConstants DEF Path!Restart, PathTyped, Standing, Path!NetPathTypeOK
<1>5. CASE UNCHANGED path
  BY <1>1, <1>5 DEF path, PathTyped, Path!NetPathTypeOK
<1> QED
  BY <1>2, <1>3, <1>4, <1>5, RequestKeepsPath DEF Path!NetPathNext

-----------------------------------------------------------------------------
(* The limit of a run.  What the workers have in hand is added up by a fold; *)
(* the facts about it come from least counterexamples.                       *)

InHand == [w \in Crawler |-> IF stage[w] = "indexing" THEN share[w] ELSE 0]

One(s) == CHOOSE x \in s : TRUE

\* f adds h up, set by set.
AddsUp(f, h) == f = [s \in SUBSET Crawler |-> IF s = {} THEN 0 ELSE h[One(s)] + f[s \ {One(s)}]]

\* The same as far as sets of n workers.
AddsUpTo(f, h, n) ==
    \A s \in SUBSET Crawler : Cardinality(s) <= n =>
        f[s] = IF s = {} THEN 0 ELSE h[One(s)] + f[s \ {One(s)}]

TotalOf(h) == (CHOOSE f : AddsUp(f, h))[Crawler]

\* The invariant in these words.
LEMMA LimitInTotals ==
    Budget!LimitHolds <=> reserved <= MaxImages /\ done + TotalOf(InHand) <= reserved
BY ZenonT(90) DEF Budget!LimitHolds, Budget!MapThenSumSet, Budget!MapThenFoldSet, TotalOf, AddsUp, One, InHand

LEMMA LimitInTotalsNext ==
    Budget!LimitHolds' <=> reserved' <= MaxImages /\ done' + TotalOf(InHand') <= reserved'
BY ZenonT(90) DEF Budget!LimitHolds, Budget!MapThenSumSet, Budget!MapThenFoldSet, TotalOf, AddsUp, One, InHand

LEMMA CrawlersAreFinite ==
    /\ IsFiniteSet(Crawler)
    /\ \A s \in SUBSET Crawler : IsFiniteSet(s) /\ Cardinality(s) \in Nat
<1>1. IsFiniteSet(Crawler)
  BY PartsAssumption DEF Budget!CrawlBudgetAssumption, Budget!IsFiniteSet, IsFiniteSet
<1> QED
  BY <1>1, FS_Subset, FS_CardinalityType

\* Without one of them a set has one worker less.
LEMMA OneLess ==
    ASSUME NEW s \in SUBSET Crawler, s # {}
    PROVE  /\ One(s) \in s /\ s \ {One(s)} \in SUBSET Crawler
           /\ Cardinality(s \ {One(s)}) = Cardinality(s) - 1
<1>1. One(s) \in s
  BY DEF One
<1> QED
  BY <1>1, CrawlersAreFinite, FS_RemoveElement

\* Of the sets with a property one has the fewest workers.
LEMMA Fewest ==
    ASSUME NEW B \in SUBSET SUBSET Crawler, B # {}
    PROVE  \E s \in B : \A t \in B : Cardinality(s) <= Cardinality(t)
<1> DEFINE C == {Cardinality(s) : s \in B}
<1>1. C \in SUBSET Nat /\ C # {}
  BY CrawlersAreFinite
<1>2. PICK x \in C : \A y \in C : x <= y
  BY <1>1, HasLeast
<1> QED
  BY <1>2

\* Whatever is in hand can be added up.
LEMMA SumsExist ==
    ASSUME NEW h \in [Crawler -> Int]
    PROVE  \E f \in [SUBSET Crawler -> Int] : AddsUp(f, h)
<1> DEFINE Ok(n) == \E f \in [SUBSET Crawler -> Int] : AddsUpTo(f, h, n)
           Bad == {n \in Nat : ~Ok(n)}
<1>1. Bad = {}
  <2> SUFFICES ASSUME Bad # {} PROVE FALSE
    OBVIOUS
  <2>1. Bad \in SUBSET Nat
    OBVIOUS
  <2> HIDE DEF Bad
  <2>2. PICK n \in Bad : \A k \in Bad : n <= k
    BY <2>1, HasLeast
  <2> USE DEF Bad
  <2>3. n # 0
    <3>1. AddsUpTo([s \in SUBSET Crawler |-> 0], h, 0)
      <4> SUFFICES ASSUME NEW s \in SUBSET Crawler, Cardinality(s) <= 0, s # {} PROVE FALSE
        BY DEF AddsUpTo
      <4> QED
        BY CrawlersAreFinite, FS_EmptySet
    <3>2. [s \in SUBSET Crawler |-> 0] \in [SUBSET Crawler -> Int]
      OBVIOUS
    <3>3. Ok(0)
      BY <3>1, <3>2
    <3> QED
      BY <3>3, <2>2
  <2>4. n - 1 \in Nat /\ Ok(n - 1)
    <3>1. n - 1 \in Nat /\ ~(n <= n - 1)
      BY <2>2, <2>3
    <3>2. n - 1 \notin Bad
      BY <2>2, <3>1
    <3> HIDE DEF Ok
    <3> QED
      BY <3>1, <3>2
  <2>5. PICK g \in [SUBSET Crawler -> Int] : AddsUpTo(g, h, n - 1)
    BY <2>4
  <2> DEFINE f == [s \in SUBSET Crawler |-> IF s = {} THEN 0 ELSE h[One(s)] + g[s \ {One(s)}]]
  <2>6. f \in [SUBSET Crawler -> Int]
    <3>1. ASSUME NEW s \in SUBSET Crawler, s # {}
          PROVE  h[One(s)] + g[s \ {One(s)}] \in Int
      <4>1. One(s) \in Crawler /\ s \ {One(s)} \in SUBSET Crawler
        BY <3>1, OneLess
      <4>2. h[One(s)] \in Int /\ g[s \ {One(s)}] \in Int
        BY <4>1, Zenon
      <4> QED
        BY <4>2
    <3>2. \A s \in SUBSET Crawler :
             (IF s = {} THEN 0 ELSE h[One(s)] + g[s \ {One(s)}]) \in Int
      BY <3>1
    <3> QED
      BY <3>2, Zenon
  <2>7. \A s \in SUBSET Crawler : Cardinality(s) <= n - 1 => f[s] = g[s]
    BY <2>5 DEF AddsUpTo
  <2>8. ASSUME NEW s \in SUBSET Crawler, Cardinality(s) <= n, s # {}
        PROVE  f[s] = h[One(s)] + f[s \ {One(s)}]
    <3>1. Cardinality(s \ {One(s)}) <= n - 1 /\ s \ {One(s)} \in SUBSET Crawler
      BY <2>8, <2>4, OneLess, CrawlersAreFinite
    <3>2. f[s \ {One(s)}] = g[s \ {One(s)}]
      BY <3>1, <2>7
    <3> QED
      BY <2>8, <3>2
  <2>9. AddsUpTo(f, h, n)
    BY <2>8 DEF AddsUpTo
  <2> QED
    BY <2>2, <2>6, <2>9
<1>2. Cardinality(Crawler) \in Nat
  BY CrawlersAreFinite
<1>3. PICK f \in [SUBSET Crawler -> Int] : AddsUpTo(f, h, Cardinality(Crawler))
  BY <1>1, <1>2
<1>4. \A s \in SUBSET Crawler : Cardinality(s) <= Cardinality(Crawler)
  BY CrawlersAreFinite, FS_Subset
<1>5. AddsUp(f, h)
  BY <1>3, <1>4, OneLess DEF AddsUp, AddsUpTo
<1> QED
  BY <1>5

\* The total is that of a sum over all sets of workers.
LEMMA TotalIsOne ==
    ASSUME NEW h \in [Crawler -> Int]
    PROVE  \E f : AddsUp(f, h) /\ TotalOf(h) = f[Crawler]
BY SumsExist DEF TotalOf

\* The values of a sum.
LEMMA SumsAreInts ==
    ASSUME NEW h \in [Crawler -> Int], NEW f, AddsUp(f, h)
    PROVE  \A s \in SUBSET Crawler : f[s] \in Int
<1> DEFINE B == {s \in SUBSET Crawler : f[s] \notin Int}
<1> SUFFICES ASSUME B # {} PROVE FALSE
  OBVIOUS
<1>1. PICK s \in B : \A t \in B : Cardinality(s) <= Cardinality(t)
  BY Fewest
<1>2. f[s] = IF s = {} THEN 0 ELSE h[One(s)] + f[s \ {One(s)}]
  BY <1>1 DEF AddsUp
<1>3. s # {}
  BY <1>1, <1>2
<1>4. f[s \ {One(s)}] \in Int
  BY <1>1, <1>3, OneLess, CrawlersAreFinite
<1> QED
  BY <1>1, <1>2, <1>3, <1>4, OneLess

\* With empty hands the total is zero.
LEMMA TotalOfNothing ==
    ASSUME NEW h \in [Crawler -> Int], \A w \in Crawler : h[w] = 0
    PROVE  TotalOf(h) = 0
<1>1. PICK f : AddsUp(f, h) /\ TotalOf(h) = f[Crawler]
  BY TotalIsOne
<1> DEFINE B == {s \in SUBSET Crawler : f[s] # 0}
<1>2. B = {}
  <2> SUFFICES ASSUME B # {} PROVE FALSE
    OBVIOUS
  <2>1. PICK s \in B : \A t \in B : Cardinality(s) <= Cardinality(t)
    BY Fewest
  <2>2. f[s] = IF s = {} THEN 0 ELSE h[One(s)] + f[s \ {One(s)}]
    BY <1>1, <2>1 DEF AddsUp
  <2>3. s # {}
    BY <2>1, <2>2
  <2>4. f[s \ {One(s)}] = 0
    BY <2>1, <2>3, OneLess, CrawlersAreFinite
  <2> QED
    BY <2>1, <2>2, <2>3, <2>4, OneLess
<1> QED
  BY <1>1, <1>2

\* When one worker's hand changes, the total changes by as much.
LEMMA TotalMoves ==
    ASSUME NEW h \in [Crawler -> Int], NEW w \in Crawler, NEW n \in Int
    PROVE  /\ TotalOf(h) \in Int
           /\ TotalOf([h EXCEPT ![w] = n]) = TotalOf(h) + n - h[w]
<1> DEFINE k == [h EXCEPT ![w] = n]
<1>1. k \in [Crawler -> Int] /\ k[w] = n /\ \A v \in Crawler : v # w => k[v] = h[v]
  OBVIOUS
<1> HIDE DEF k
<1>2. PICK f : AddsUp(f, h) /\ TotalOf(h) = f[Crawler]
  BY TotalIsOne
<1>3. PICK g : AddsUp(g, k) /\ TotalOf(k) = g[Crawler]
  BY <1>1, TotalIsOne
<1>4. \A s \in SUBSET Crawler : f[s] \in Int /\ g[s] \in Int
  BY <1>1, <1>2, <1>3, SumsAreInts
<1> DEFINE Moved(s) == g[s] = f[s] + (IF w \in s THEN n - h[w] ELSE 0)
           B == {s \in SUBSET Crawler : ~Moved(s)}
<1>5. B = {}
  <2> SUFFICES ASSUME B # {} PROVE FALSE
    OBVIOUS
  <2>1. PICK s \in B : \A t \in B : Cardinality(s) <= Cardinality(t)
    BY Fewest
  <2>2. /\ f[s] = IF s = {} THEN 0 ELSE h[One(s)] + f[s \ {One(s)}]
        /\ g[s] = IF s = {} THEN 0 ELSE k[One(s)] + g[s \ {One(s)}]
    BY <1>2, <1>3, <2>1 DEF AddsUp
  <2>3. s # {}
    BY <2>1, <2>2
  <2>4. Moved(s \ {One(s)})
    <3>1. Cardinality(s \ {One(s)}) = Cardinality(s) - 1 /\ Cardinality(s) \in Nat
      BY <2>1, <2>3, OneLess, CrawlersAreFinite
    <3>2. s \ {One(s)} \notin B
      BY <2>1, <3>1
    <3> QED
      BY <2>1, <2>3, <3>2, OneLess
  <2>5. One(s) \in s /\ One(s) \in Crawler /\ s \ {One(s)} \in SUBSET Crawler
    BY <2>1, <2>3, OneLess
  <2>6. CASE One(s) = w
    <3>1. g[s \ {w}] = f[s \ {w}]
      BY <2>4, <2>5, <2>6, <1>4
    <3>2. g[s] = n + f[s \ {w}] /\ f[s] = h[w] + f[s \ {w}]
      BY <1>1, <2>2, <2>3, <2>6, <3>1
    <3>3. f[s \ {w}] \in Int /\ w \in s
      BY <1>4, <2>5, <2>6
    <3> QED
      BY <2>1, <3>2, <3>3
  <2>7. CASE One(s) # w
    <3>1. k[One(s)] = h[One(s)]
      BY <1>1, <2>5, <2>7
    <3>2. w \in s <=> w \in s \ {One(s)}
      BY <2>7
    <3>3. f[s \ {One(s)}] \in Int /\ h[One(s)] \in Int
      BY <1>4, <2>5
    <3> QED
      BY <2>1, <2>2, <2>3, <2>4, <3>1, <3>2, <3>3
  <2> QED
    BY <2>6, <2>7
<1>6. Crawler \in SUBSET Crawler /\ w \in Crawler
  OBVIOUS
<1>7. Moved(Crawler)
  BY <1>5, <1>6
<1> QED
  BY <1>2, <1>3, <1>4, <1>6, <1>7 DEF k

-----------------------------------------------------------------------------
(* The limit of a run: the invariant and its steps. *)

\* The counter only grows, and whoever ends the run has seen it full.
StopMeansFull == stopped => reserved >= MaxImages

\* How what a worker was given fits its range, by the place it is at.
ShareFits(w) ==
    /\ stage[w] \in {"idle", "fetched"} => share[w] = 0
    /\ stage[w] = "indexing" /\ result[w] # "cut" => share[w] = size[w]
    /\ stage[w] \in {"noting", "settling"} /\ result[w] \in {"completed", "empty"}
         => share[w] = size[w]

BudgetInv ==
    /\ Budget!BudgetTypeOK
    /\ reserved <= MaxImages /\ done + TotalOf(InHand) <= reserved
    /\ StopMeansFull
    /\ \A w \in Crawler : ShareFits(w)
    /\ Budget!NoRangeHurtByLimit

BudgetConstants == MaxImages \in Nat \ {0} /\ MaxPosts \in Nat \ {0} /\ MaxRanges \in Nat

LEMMA BudgetHasConstants == BudgetConstants
BY PartsAssumption DEF Budget!CrawlBudgetAssumption, BudgetConstants

LEMMA HandsAreTyped ==
    ASSUME Budget!BudgetTypeOK PROVE InHand \in [Crawler -> Int]
<1> SUFFICES ASSUME NEW w \in Crawler
             PROVE  (IF stage[w] = "indexing" THEN share[w] ELSE 0) \in Int
  BY DEF InHand
<1> QED
  BY BudgetHasConstants DEF Budget!BudgetTypeOK, BudgetConstants

\* A step of w moves the total by what changes in its hand.
LEMMA TotalFollows ==
    ASSUME Budget!BudgetTypeOK, NEW w \in Crawler, NEW n \in Int,
           InHand' = [InHand EXCEPT ![w] = n]
    PROVE  TotalOf(InHand) \in Int /\ TotalOf(InHand') = TotalOf(InHand) + n - InHand[w]
BY HandsAreTyped, TotalMoves

LEMMA BudgetStarts == Budget!BudgetInit => BudgetInv
<1> SUFFICES ASSUME Budget!BudgetInit PROVE BudgetInv
  OBVIOUS
<1>1. Budget!BudgetTypeOK
  BY BudgetHasConstants DEF Budget!BudgetInit, Budget!BudgetTypeOK, Budget!Results, BudgetConstants
<1>2. \A w \in Crawler : InHand[w] = 0
  BY DEF Budget!BudgetInit, InHand
<1>3. TotalOf(InHand) = 0
  BY <1>1, <1>2, HandsAreTyped, TotalOfNothing
<1> QED
  BY <1>1, <1>3, BudgetHasConstants
     DEF Budget!BudgetInit, BudgetInv, StopMeansFull, ShareFits, Budget!NoRangeHurtByLimit,
         BudgetConstants

\* Steps of a worker that has nothing in hand before or after.
LEMMA IdleHands ==
    ASSUME NEW w \in Crawler, stage[w] # "indexing", stage'[w] # "indexing",
           \A v \in Crawler \ {w} : stage'[v] = stage[v] /\ share'[v] = share[v]
    PROVE  InHand' = InHand
BY DEF InHand

LEMMA AcquireKeepsBudget ==
    ASSUME BudgetInv, NEW w \in Crawler, Budget!Acquire(w) PROVE BudgetInv'
<1> USE DEF BudgetInv, Budget!BudgetTypeOK, Budget!Results
<1>1. Budget!BudgetTypeOK'
  BY BudgetHasConstants DEF Budget!Acquire, BudgetConstants
<1>2. InHand' = InHand
  BY IdleHands DEF Budget!Acquire
<1>3. \A v \in Crawler : ShareFits(v)'
  BY DEF Budget!Acquire, ShareFits
<1> QED
  BY <1>1, <1>2, <1>3 DEF Budget!Acquire, StopMeansFull, Budget!NoRangeHurtByLimit

LEMMA ReserveKeepsBudget ==
    ASSUME BudgetInv, NEW w \in Crawler, Budget!Reserve(w) PROVE BudgetInv'
<1> USE DEF BudgetInv, Budget!BudgetTypeOK, Budget!Results
<1>1. PICK n \in Int : n = Budget!Take(size[w])
  BY BudgetHasConstants DEF Budget!Take, BudgetConstants
<1>2. 0 <= n /\ n <= size[w] /\ n <= MaxImages - reserved
  BY <1>1, BudgetHasConstants DEF Budget!Take, BudgetConstants
<1>3. /\ stage[w] = "fetched"
      /\ share' = [share EXCEPT ![w] = n]
      /\ reserved' = reserved + n
      /\ result' = [result EXCEPT ![w] = IF n < size[w] THEN "cut" ELSE "none"]
      /\ stage' = [stage EXCEPT ![w] = IF n = 0 THEN "settling" ELSE "indexing"]
      /\ UNCHANGED <<done, stopped, size, handed, closed>>
  BY <1>1 DEF Budget!Reserve, Budget!Cut
<1>4. Budget!BudgetTypeOK'
  BY <1>2, <1>3, BudgetHasConstants DEF BudgetConstants
<1>5. InHand' = [InHand EXCEPT ![w] = n] /\ InHand[w] = 0
  BY <1>3 DEF InHand
<1>6. TotalOf(InHand) \in Int /\ TotalOf(InHand') = TotalOf(InHand) + n - 0
  BY <1>5, TotalFollows
<1>7. reserved' <= MaxImages /\ done' + TotalOf(InHand') <= reserved'
  BY <1>2, <1>3, <1>6, BudgetHasConstants DEF BudgetConstants
<1>8. \A v \in Crawler : ShareFits(v)'
  BY <1>2, <1>3 DEF ShareFits
<1>9. StopMeansFull'
  BY <1>2, <1>3, BudgetHasConstants DEF StopMeansFull, BudgetConstants
<1> QED
  BY <1>3, <1>4, <1>7, <1>8, <1>9 DEF Budget!NoRangeHurtByLimit

LEMMA IndexBatchKeepsBudget ==
    ASSUME BudgetInv, NEW w \in Crawler, Budget!IndexBatch(w) PROVE BudgetInv'
<1> USE DEF BudgetInv, Budget!BudgetTypeOK, Budget!Results
<1>1. PICK n \in 0 .. share[w], r \in Budget!Results :
        /\ share' = [share EXCEPT ![w] = n]
        /\ done' = done + n
        /\ result' = [result EXCEPT ![w] = r]
        /\ r \in {"completed", "empty"} => n = share[w] /\ result[w] # "cut"
  BY BudgetHasConstants DEF Budget!IndexBatch, Budget!Verdict, BudgetConstants
<1>2. /\ stage[w] = "indexing"
      /\ stage' = [stage EXCEPT ![w] = "noting"]
      /\ UNCHANGED <<reserved, stopped, size, handed, closed>>
  BY DEF Budget!IndexBatch
<1>3. n \in Nat /\ n <= share[w] /\ share[w] \in 0 .. MaxPosts
  BY <1>1
<1>4. Budget!BudgetTypeOK'
  BY <1>1, <1>2, <1>3, BudgetHasConstants DEF BudgetConstants
<1>5. InHand' = [InHand EXCEPT ![w] = 0] /\ InHand[w] = share[w]
  BY <1>1, <1>2 DEF InHand
<1>6. TotalOf(InHand) \in Int /\ TotalOf(InHand') = TotalOf(InHand) + 0 - share[w]
  <2>1. 0 \in Int /\ Budget!BudgetTypeOK
    OBVIOUS
  <2>2. TotalOf(InHand) \in Int /\ TotalOf(InHand') = TotalOf(InHand) + 0 - InHand[w]
    BY <1>5, <2>1, TotalFollows
  <2> QED
    BY <1>5, <2>2
<1>7. done' + TotalOf(InHand') <= reserved'
  BY <1>1, <1>2, <1>3, <1>6
<1>8. \A v \in Crawler : ShareFits(v)'
  BY <1>1, <1>2, <1>3 DEF ShareFits
<1> QED
  BY <1>2, <1>4, <1>7, <1>8 DEF StopMeansFull, Budget!NoRangeHurtByLimit

LEMMA NoteKeepsBudget ==
    ASSUME BudgetInv, NEW w \in Crawler, Budget!Note(w) \/ Budget!Leave(w) PROVE BudgetInv'
<1> USE DEF BudgetInv, Budget!BudgetTypeOK, Budget!Results
<1>1. Budget!BudgetTypeOK'
  BY DEF Budget!Note, Budget!Leave
<1>2. InHand' = InHand
  BY IdleHands DEF Budget!Note, Budget!Leave
<1>3. \A v \in Crawler : ShareFits(v)'
  BY DEF Budget!Note, Budget!Leave, ShareFits
<1>4. StopMeansFull'
  BY DEF Budget!Note, Budget!Leave, StopMeansFull, Budget!Full
<1> QED
  BY <1>1, <1>2, <1>3, <1>4 DEF Budget!Note, Budget!Leave, Budget!NoRangeHurtByLimit

LEMMA SettleKeepsBudget ==
    ASSUME BudgetInv, NEW w \in Crawler, Budget!Settle(w) PROVE BudgetInv'
<1> USE DEF BudgetInv, Budget!BudgetTypeOK, Budget!Results
<1>1. Budget!BudgetTypeOK'
  BY BudgetHasConstants DEF Budget!Settle, BudgetConstants
<1>2. InHand' = InHand
  BY IdleHands DEF Budget!Settle
<1>3. \A v \in Crawler : ShareFits(v)'
  BY DEF Budget!Settle, ShareFits
<1>4. Budget!NoRangeHurtByLimit'
  <2>1. CASE result[w] = "cut" \/ Budget!SelfStopped
    BY <2>1 DEF Budget!Settle, Budget!NoRangeHurtByLimit
  <2>2. CASE ~(result[w] = "cut" \/ Budget!SelfStopped)
    <3>1. ~stopped
      BY <2>2 DEF StopMeansFull, Budget!SelfStopped
    <3>2. closed' = closed \cup {<<result[w], share[w] = size[w]>>}
      BY <2>2, <3>1 DEF Budget!Settle
    <3>3. result[w] \in {"completed", "empty"} => share[w] = size[w]
      BY DEF Budget!Settle, ShareFits
    <3>4. result[w] # "abandoned"
      OBVIOUS
    <3>5. \A c \in closed' : c \in closed \/ c = <<result[w], share[w] = size[w]>>
      BY <3>2
    <3>6. \A c \in closed' : (c[1] \in {"completed", "empty"} => c[2]) /\ c[1] # "abandoned"
      <4> SUFFICES ASSUME NEW c \in closed'
                   PROVE  (c[1] \in {"completed", "empty"} => c[2]) /\ c[1] # "abandoned"
        OBVIOUS
      <4>1. CASE c \in closed
        BY <4>1 DEF Budget!NoRangeHurtByLimit
      <4>2. CASE c = <<result[w], share[w] = size[w]>>
        <5>1. c[1] = result[w] /\ c[2] = (share[w] = size[w])
          BY <4>2, Zenon
        <5> QED
          BY <3>3, <3>4, <5>1
      <4> QED
        BY <3>5, <4>1, <4>2
    <3> QED
      BY <3>6 DEF Budget!NoRangeHurtByLimit
  <2> QED
    BY <2>1, <2>2
<1> QED
  BY <1>1, <1>2, <1>3, <1>4 DEF Budget!Settle, StopMeansFull

LEMMA BudgetKeeps ==
    ASSUME BudgetInv, Budget!BudgetNext \/ UNCHANGED budget
    PROVE  BudgetInv'
<1>1. CASE UNCHANGED budget
  <2>1. InHand' = InHand
    BY <1>1 DEF budget, InHand
  <2> QED
    BY <1>1, <2>1 DEF budget, BudgetInv, Budget!BudgetTypeOK, StopMeansFull, ShareFits,
                      Budget!NoRangeHurtByLimit
<1> QED
  BY <1>1, AcquireKeepsBudget, ReserveKeepsBudget, IndexBatchKeepsBudget, NoteKeepsBudget,
     SettleKeepsBudget DEF Budget!BudgetNext, Budget!ProcessRange

-----------------------------------------------------------------------------
(* The limit of the index: two gates that count. *)

\* A remembered count is at most what is stored by now.
IsPast(n) == n \in {Room!Unknown} \cup Nat /\ n <= stored

\* Work that was taken by a count had room for a whole batch.
TakenWithRoom ==
    \A w \in Room!Sender :
        doing[w] = "submitting" /\ basis[w] # Room!Unknown => basis[w] + BatchSize <= MaxIndexed

RoomInv ==
    /\ Room!CapacityTypeOK
    /\ IsPast(nodeCount) /\ IsPast(roomCount) /\ \A w \in Room!Sender : IsPast(basis[w])
    /\ basis \in [Room!Sender -> {Room!Unknown} \cup Nat]
    /\ TakenWithRoom
    /\ Room!GatesAgree

LEMMA RoomStarts == Room!CapacityInit => RoomInv
<1> SUFFICES ASSUME Room!CapacityInit PROVE RoomInv
  OBVIOUS
<1> USE PartsAssumption DEF Room!CapacityAssumption, Room!CapacityInit, Room!Unknown
<1>1. Room!CapacityTypeOK
  <2>1. 1 \in 1 .. BatchSize /\ 0 \in 0 .. Errors /\ stored \in Nat
    OBVIOUS
  <2>2. batchOf \in [Room!Sender -> 1 .. BatchSize]
    BY <2>1
  <2>3. doing \in [Room!Sender -> {"idle", "submitting", "storing"}]
    BY Zenon
  <2> QED
    BY <2>1, <2>2, <2>3 DEF Room!CapacityTypeOK
<1>2. \A w \in Room!Sender : doing[w] = "idle" /\ basis[w] = -1
  OBVIOUS
<1>3. stored \in Nat
  OBVIOUS
<1>4. TakenWithRoom
  BY <1>2 DEF TakenWithRoom
<1> QED
  BY <1>1, <1>2, <1>3, <1>4 DEF RoomInv, IsPast, Room!GatesAgree

LEMMA SenderKeepsRoom ==
    ASSUME RoomInv, NEW w \in Room!Sender,
           Room!TakeWork(w) \/ Room!Rest(w) \/ Room!Submission(w)
    PROVE  RoomInv'
<1> USE PartsAssumption DEF Room!CapacityAssumption, RoomInv, Room!CapacityTypeOK, Room!Unknown
<1>1. CASE Room!TakeWork(w)
  <2>1. PICK b \in {Room!Unknown} \cup Nat :
          /\ basis' = [basis EXCEPT ![w] = b]
          /\ IsPast(b)
          /\ b # Room!Unknown => b + BatchSize <= MaxIndexed
          /\ nodeCount' \in {b, nodeCount}
          /\ errors' \in 0 .. Errors
    BY <1>1 DEF Room!TakeWork, Room!Counted, Room!MayFail, Room!Headroom, IsPast
  <2> QED
    BY <1>1, <2>1 DEF Room!TakeWork, IsPast, TakenWithRoom, Room!GatesAgree
<1>2. CASE Room!Rest(w)
  BY <1>2 DEF Room!Rest, Room!Counted, IsPast, TakenWithRoom, Room!GatesAgree
<1>3. CASE Room!Admit(w)
  BY <1>3 DEF Room!Admit, Room!Counted, Room!MayFail, IsPast, TakenWithRoom, Room!GatesAgree
<1>4. CASE Room!Store(w)
  <2>1. PICK n \in Nat : stored' = stored + n
    BY <1>4 DEF Room!Store
  <2>2. stored' \in Nat /\ stored <= stored'
    BY <2>1
  <2> QED
    BY <1>4, <2>2 DEF Room!Store, Room!Idle, IsPast, TakenWithRoom, Room!GatesAgree
<1>5. CASE Room!Refuse(w)
  <2>1. PICK count \in Nat :
          count <= stored /\ count + batchOf[w] > MaxIndexed /\ roomCount' = count
    BY <1>5 DEF Room!Refuse, Room!Counted, Room!Fits, IsPast
  <2>2. basis[w] # stored
    BY <1>5, <2>1 DEF Room!Refuse, TakenWithRoom
  <2>3. grudge' = FALSE
    BY <1>5, <2>2 DEF Room!Refuse, Room!GatesAgree
  <2> QED
    BY <1>5, <2>1, <2>3 DEF Room!Refuse, Room!Idle, IsPast, TakenWithRoom, Room!GatesAgree
<1> QED
  BY <1>1, <1>2, <1>3, <1>4, <1>5 DEF Room!Submission

LEMMA RoomKeeps ==
    ASSUME RoomInv, Room!CapacityNext \/ UNCHANGED room
    PROVE  RoomInv'
<1>1. CASE UNCHANGED room
  BY <1>1 DEF room, RoomInv, Room!CapacityTypeOK, IsPast, TakenWithRoom, Room!GatesAgree
<1>2. CASE Room!NodeCountAges \/ Room!RoomCountAges
  BY <1>2 DEF Room!NodeCountAges, Room!RoomCountAges, RoomInv, Room!CapacityTypeOK, IsPast,
              TakenWithRoom, Room!GatesAgree, Room!Unknown
<1> QED
  BY <1>1, <1>2, SenderKeepsRoom DEF Room!CapacityNext

-----------------------------------------------------------------------------
(* The worker: its parts move one at a time. *)

WorkerInv == IndexInv /\ EmbedInv /\ PathTyped /\ BudgetInv /\ RoomInv

LEMMA WorkerStarts == WorkerInit => WorkerInv
BY IndexStarts, EmbedStarts, PathStarts, BudgetStarts, RoomStarts DEF WorkerInit, WorkerInv

\* A step of one part leaves the others as they are.
LEMMA WorkerKeeps ==
    ASSUME WorkerInv, [WorkerNext]_all
    PROVE  /\ WorkerInv'
           /\ task # "window" /\ task' = "window" => Awaking' # {}
<1>1. /\ [Next]_vars
      /\ Embed!BatcherNext \/ UNCHANGED embed
      /\ Path!NetPathNext \/ UNCHANGED path
      /\ Budget!BudgetNext \/ UNCHANGED budget
      /\ Room!CapacityNext \/ UNCHANGED room
  BY DEF WorkerNext, InIndex, InEmbed, InPath, InBudget, InRoom, all
<1>2. IndexInv'
  BY <1>1, IndexKeeps DEF WorkerInv
<1>3. EmbedInv' /\ (task # "window" /\ task' = "window" => Awaking' # {})
  BY <1>1, EmbedKeeps DEF WorkerInv
<1>4. PathTyped'
  BY <1>1, PathKeeps DEF WorkerInv
<1>5. BudgetInv' /\ RoomInv'
  BY <1>1, BudgetKeeps, RoomKeeps DEF WorkerInv
<1> QED
  BY <1>2, <1>3, <1>4, <1>5 DEF WorkerInv

\* The parts keep to their types: the limiter stays within its bounds
\* (Limiter.Resize), inflight counts the requests that wait or have their
\* answer and none that still prepares its image (service.py), and no path is
\* preferred that the chain could not build (netpath.Chain).
THEOREM PartsAreTyped == WorkerSpec => []PartsTypeOK
<1>1. WorkerInv => PartsTypeOK
  BY IndexIsTyped, EmbedIsTyped DEF WorkerInv, PathTyped, PartsTypeOK
<1>2. WorkerInv /\ [WorkerNext]_all => WorkerInv'
  BY WorkerKeeps
<1> QED
  BY <1>1, <1>2, WorkerStarts, PTL DEF WorkerSpec

\* The batcher's window opens over a request that has its answer and has not
\* woken up yet, never for one on its way to the queue (service.py's run loop).
THEOREM WindowOpensForTheAnswered == WorkerSpec => WindowIsForTheAnswered
<1>1. WorkerInv /\ [WorkerNext]_all => WorkerInv'
  BY WorkerKeeps
<1>2. WorkerInv /\ [WorkerNext]_all
      => [task # "window" /\ task' = "window" => Embed!At("resolved")' # {}]_(Embed!batcher)
  <2>1. Embed!At("resolved")' = Awaking'
    BY DEF Embed!At, Awaking
  <2> QED
    BY <2>1, WorkerKeeps
<1> QED
  BY <1>1, <1>2, WorkerStarts, PTL DEF WorkerSpec, WindowIsForTheAnswered, Embed!WindowIsForTheAnswered

\* However many workers take shares of -limit at once, no more than it is
\* processed, and neither the limit nor its cancel costs a range anything
\* (reserve, finishOrRelease); work a node took by a count is not refused by
\* the same count (atCapacity, checkRoom).
THEOREM LimitsHold == WorkerSpec => []LimitsAreKept
<1>1. WorkerInv => LimitsAreKept
  BY LimitInTotals DEF WorkerInv, BudgetInv, RoomInv, LimitsAreKept
<1>2. WorkerInv /\ [WorkerNext]_all => WorkerInv'
  BY WorkerKeeps
<1> QED
  BY <1>1, <1>2, WorkerStarts, PTL DEF WorkerSpec

=============================================================================
