-------------------------- MODULE RangeLeaseProofs --------------------------
(***************************************************************************)
(* Proofs about RangeLease, for any number of nodes, workers, rows and     *)
(* attempts, any latest post, floors and sizes.                            *)
(*                                                                         *)
(* Exclusive is not inductive: a fence compares the lease's token with the *)
(* row's attempts, and attempts also falls (ReleaseRange).  What carries   *)
(* it is that tokens on one row are pairwise different and that no holder  *)
(* is ahead of the row, so the one whose token equals attempts is unique   *)
(* and a release leaves every other token behind.                          *)
(*                                                                         *)
(* Base is the part of that invariant an operator's resets leave alone, as *)
(* they set attempts back and tokens may repeat.  The last part proves     *)
(* from it, resets included, that no id of the backfill is lost.           *)
(***************************************************************************)
EXTENDS RangeLease, TLAPS

LiveNodes == \A n \in Node : life[n] # "down" => floor[n] \in Floors

LiveWorkers == \A w \in Worker : pc[w] # "idle" => life[NodeOf[w]] # "down"

FreshRows == \A r \in RowId : r >= nextRow => rows[r].status = "none"

RowsInRange == \A r \in Used : rows[r].lower >= 1 /\ rows[r].upper <= Latest - 1

LeaseOnRow(w) ==
    /\ lease[w].row \in Used
    /\ lease[w].lower >= 1
    /\ lease[w].upper <= Latest - 1
    /\ pc[w] = "splitting" => FloorOf(w) <= lease[w].upper

LeasesOnRows ==
    \A w \in Worker : /\ Holds(w) => LeaseOnRow(w)
                      /\ pc[w] = "resting" => lease[w].row \in Used

\* What an operator's resets leave alone.
Base == /\ TypeOK
        /\ LiveNodes
        /\ LiveWorkers
        /\ FreshRows
        /\ RowsInRange
        /\ LeasesOnRows

TokensBehind ==
    \A w \in Worker : Holds(w) => lease[w].token <= rows[lease[w].row].attempts

TokensDistinct ==
    \A v, w \in Worker :
        v # w /\ Holds(v) /\ Holds(w) /\ lease[v].row = lease[w].row
            => lease[v].token # lease[w].token

IInv == Base /\ TokensBehind /\ TokensDistinct

-----------------------------------------------------------------------------
(* The row transformers keep a row a row, and say what they change. *)

\* The empty row and the empty lease are a row and a lease.
LEMMA NoRowType == NoRow \in Row /\ NoLease \in Lease
  BY ConstantsAssumption DEF NoRow, Row, NoLease, Lease, Status

\* Leasing a row raises its token by one and keeps its bounds.
LEMMA LeasedRow ==
  ASSUME NEW row \in Row, NEW n \in Node
  PROVE  /\ Leased(row, n) \in Row
         /\ Leased(row, n).status = "running"
         /\ Leased(row, n).attempts = row.attempts + 1
         /\ Leased(row, n).lower = row.lower
         /\ Leased(row, n).upper = row.upper
<1> DEFINE k == row.attempts + 1
<1>1. k \in Nat
  BY DEF Row
<1>2. Leased(row, n) = [row EXCEPT !.status = "running", !.attempts = k, !.node = n,
                                 !.stale = FALSE]
  BY Zenon DEF Leased
<1> HIDE DEF k
<1>3. /\ Leased(row, n) \in Row
      /\ Leased(row, n).status = "running"
      /\ Leased(row, n).attempts = k
      /\ Leased(row, n).lower = row.lower
      /\ Leased(row, n).upper = row.upper
  BY <1>1, <1>2 DEF Row, Status
<1> QED
  BY <1>3 DEF k

\* A reported outcome keeps the token and the bounds.
LEMMA ReportedRow ==
  ASSUME NEW row \in Row, NEW s \in Closed \cup {"failed"}
  PROVE  /\ Reported(row, s) \in Row
         /\ Reported(row, s).status = s
         /\ Reported(row, s).attempts = row.attempts
         /\ Reported(row, s).lower = row.lower
         /\ Reported(row, s).upper = row.upper
  BY DEF Reported, Row, Status, Closed

\* Giving a row back never raises its token, and it is open again.
LEMMA GivenBackRow ==
  ASSUME NEW row \in Row
  PROVE  /\ GivenBack(row) \in Row
         /\ GivenBack(row).status = "failed"
         /\ GivenBack(row).attempts = IF row.attempts > 0 THEN row.attempts - 1 ELSE 0
         /\ GivenBack(row).lower = row.lower
         /\ GivenBack(row).upper = row.upper
<1> DEFINE k == IF row.attempts > 0 THEN row.attempts - 1 ELSE 0
<1>1. k \in Nat
  BY DEF Row
<1>2. GivenBack(row) = [row EXCEPT !.status = "failed", !.attempts = k, !.node = None,
                                 !.ready = TRUE, !.stale = FALSE]
  BY Zenon DEF GivenBack
<1> HIDE DEF k
<1>3. /\ GivenBack(row) \in Row
      /\ GivenBack(row).status = "failed"
      /\ GivenBack(row).attempts = k
      /\ GivenBack(row).lower = row.lower
      /\ GivenBack(row).upper = row.upper
  BY <1>1, <1>2 DEF Row, Status
<1> QED
  BY <1>3 DEF k

\* A reclaimed row keeps its token and its bounds.
LEMMA TakenBackRow ==
  ASSUME NEW row \in Row
  PROVE  /\ TakenBack(row) \in Row
         /\ TakenBack(row).status = "failed"
         /\ TakenBack(row).attempts = row.attempts
         /\ TakenBack(row).lower = row.lower
         /\ TakenBack(row).upper = row.upper
  BY DEF TakenBack, Row, Status

\* The row splitAtFloor inserts.
LEMMA FailedRowType ==
  ASSUME NEW lo \in Nat, NEW up \in Nat
  PROVE  /\ FailedRow(lo, up) \in Row
         /\ FailedRow(lo, up).status = "failed"
         /\ FailedRow(lo, up).lower = lo
         /\ FailedRow(lo, up).upper = up
  BY DEF FailedRow, NoRow, Row, Status

\* The clock flags change nothing but themselves.
LEMMA FlaggedRow ==
  ASSUME NEW row \in Row, NEW b \in BOOLEAN,
         NEW new \in {[row EXCEPT !.stale = b], [row EXCEPT !.ready = b]}
  PROVE  /\ new \in Row
         /\ new.status = row.status
         /\ new.attempts = row.attempts
         /\ new.lower = row.lower
         /\ new.upper = row.upper
  BY DEF Row, Status

-----------------------------------------------------------------------------
(* Most steps leave the bounds of every row alone, create no row and give   *)
(* out no lease; of these, most leave the tokens of the rows alone too.     *)

PcState == {"idle", "carving", "splitting", "working", "resting"}

SameShape(r) ==
    /\ rows'[r].lower = rows[r].lower
    /\ rows'[r].upper = rows[r].upper
    /\ rows'[r].status = "none" <=> rows[r].status = "none"

KeptOrDropped(w) ==
    \/ pc'[w] = pc[w] /\ lease'[w] = lease[w]
    \/ pc'[w] = "resting" /\ Holds(w) /\ lease'[w] = lease[w]
    \/ pc'[w] \in {"idle", "carving"}

LooseStep ==
    /\ rows' \in [RowId -> Row]
    /\ \A r \in RowId : SameShape(r)
    /\ pc' \in [Worker -> PcState]
    /\ lease' \in [Worker -> Lease]
    /\ \A w \in Worker : KeptOrDropped(w)
    /\ life' \in [Node -> {"down", "starting", "up"}]
    /\ floor' \in [Node -> Floors \cup {0}]
    /\ LiveNodes'
    /\ \A w \in Worker : pc'[w] # "idle" =>
          /\ life'[NodeOf[w]] # "down"
          /\ floor'[NodeOf[w]] = floor[NodeOf[w]]
    /\ UNCHANGED <<nextRow, before>>
    /\ crawled' \in SUBSET (1..Latest - 1)

SameTokens == \A r \in RowId : rows'[r].attempts = rows[r].attempts

MildStep == LooseStep /\ SameTokens

\* What a mild step does to the rows.
SameRows ==
    /\ rows' \in [RowId -> Row]
    /\ \A r \in RowId : SameShape(r)
    /\ SameTokens

\* A step that leaves bounds alone and gives out no lease keeps Base.
LEMMA LooseStepKeepsBase ==
  ASSUME Base, LooseStep
  PROVE  Base'
<1> USE DEF LooseStep
<1>1. TypeOK'
  BY DEF Base, TypeOK, PcState
<1>2. LiveNodes' /\ LiveWorkers'
  BY DEF LiveWorkers
<1>3. FreshRows'
  BY DEF Base, FreshRows, SameShape
<1>4. RowsInRange'
  BY DEF Base, RowsInRange, Used, SameShape
<1>5. Used' = Used
  BY DEF Used, SameShape
<1>6. ASSUME NEW w \in Worker, Holds(w)'
      PROVE  LeaseOnRow(w)'
  <2>1. Holds(w) /\ pc'[w] = pc[w] /\ lease'[w] = lease[w] /\ FloorOf(w)' = FloorOf(w)
    BY <1>6 DEF Holds, KeptOrDropped, FloorOf
  <2>2. LeaseOnRow(w)
    BY <2>1 DEF Base, LeasesOnRows
  <2> QED
    BY <2>1, <2>2, <1>5 DEF LeaseOnRow
<1>7. ASSUME NEW w \in Worker, pc'[w] = "resting"
      PROVE  lease'[w].row \in Used'
  BY <1>5, <1>7 DEF Base, LeasesOnRows, LeaseOnRow, KeptOrDropped
<1> QED
  BY <1>1, <1>2, <1>3, <1>4, <1>6, <1>7 DEF Base, LeasesOnRows

\* Tokens stay behind and distinct while rows keep theirs and holders only go.
LEMMA TokensStay ==
  ASSUME IInv,
         \A r \in Used : rows'[r].attempts = rows[r].attempts,
         \A w \in Worker : Holds(w)' => /\ Holds(w)
                                        /\ lease'[w].row = lease[w].row
                                        /\ lease'[w].token = lease[w].token
  PROVE  TokensBehind' /\ TokensDistinct'
<1>1. \A w \in Worker : Holds(w) => lease[w].row \in Used
  BY DEF IInv, Base, LeasesOnRows, LeaseOnRow
<1>2. TokensBehind'
  BY <1>1 DEF IInv, TokensBehind
<1>3. TokensDistinct'
  BY DEF IInv, TokensDistinct
<1> QED
  BY <1>2, <1>3

LEMMA MildStepKeepsIInv ==
  ASSUME IInv, MildStep
  PROVE  IInv'
<1>1. Base'
  BY LooseStepKeepsBase DEF IInv, MildStep
<1>2. \A w \in Worker : Holds(w)' => Holds(w) /\ lease'[w] = lease[w]
  BY DEF MildStep, LooseStep, KeptOrDropped, Holds
<1>3. \A r \in Used : rows'[r].attempts = rows[r].attempts
  BY DEF MildStep, SameTokens, Used
<1> QED
  BY <1>1, <1>2, <1>3, TokensStay DEF IInv

-----------------------------------------------------------------------------
(* The mild steps: reports, renewals, the nodes' and the clock's actions.  *)

\* A worker that lets its lease go disturbs no other.
LEMMA DropIsMild ==
  ASSUME Base, NEW w \in Worker, Drop(w)
  PROVE  /\ pc' \in [Worker -> PcState]
         /\ lease' \in [Worker -> Lease]
         /\ \A v \in Worker : KeptOrDropped(v)
         /\ \A v \in Worker : pc'[v] # "idle" => pc[v] # "idle"
  BY NoRowType DEF Base, TypeOK, Drop, PcState, KeptOrDropped

\* An update behind the fence touches the leased row only.
LEMMA FencedUpdateShape ==
  ASSUME Base, NEW w \in Worker, Holds(w) \/ pc[w] = "resting", NEW new \in Row,
         new.lower = rows[lease[w].row].lower,
         new.upper = rows[lease[w].row].upper,
         new.attempts = rows[lease[w].row].attempts,
         new.status # "none",
         rows' = WhenFenced(w, new)
  PROVE  SameRows
<1>1. lease[w].row \in Used
  BY DEF Base, LeasesOnRows, LeaseOnRow
<1> QED
  BY <1>1 DEF Base, TypeOK, WhenFenced, SameRows, SameTokens, SameShape, Used

\* FinishRange, accepted or not.
LEMMA FinishIsMild ==
  ASSUME Base, NEW w \in Worker, NEW s \in Closed \cup {"failed"}, Finish(w, s)
  PROVE  MildStep
<1>1. Holds(w) /\ lease[w].row \in Used /\ LeaseOnRow(w)
  BY DEF Finish, Holds, Base, LeasesOnRows, LeaseOnRow
<1>2. rows[lease[w].row] \in Row
  BY <1>1 DEF Base, TypeOK, Used
<1>3. SameRows
  BY <1>1, <1>2, ReportedRow, FencedUpdateShape DEF Finish, Closed
<1>4. crawled' \in SUBSET (1..Latest - 1)
  <2>1. lease[w] \in Lease
    BY DEF Base, TypeOK
  <2>2. LeasedIds(w) \subseteq 1..Latest - 1
    BY <1>1, <2>1, ConstantsAssumption DEF LeasedIds, LeaseOnRow, Lease
  <2> QED
    BY <2>2 DEF Finish, Base, TypeOK
<1> QED
  BY <1>3, <1>4, DropIsMild
  DEF Finish, MildStep, LooseStep, SameRows, Base, TypeOK, LiveNodes, LiveWorkers

\* Rows that do not change keep their shape.
LEMMA RowsUnchangedShape ==
  ASSUME Base, UNCHANGED rows
  PROVE  SameRows
  BY DEF Base, TypeOK, SameRows, SameTokens, SameShape

\* Steps that end a lease without a statement.
LEMMA LetGoIsMild ==
  ASSUME Base, NEW w \in Worker, Wake(w) \/ Abandon(w) \/ NoWork(w)
  PROVE  MildStep
<1>1. Drop(w) /\ UNCHANGED <<rows, nextRow, before, life, floor, crawled>>
  BY DEF Wake, Abandon, NoWork
<1> QED
  BY <1>1, RowsUnchangedShape, DropIsMild
  DEF MildStep, LooseStep, SameRows, Base, TypeOK, LiveNodes, LiveWorkers

\* Raising or clearing a clock flag.
LEMMA FlagIsMild ==
  ASSUME Base, NEW r \in RowId, NEW b \in BOOLEAN,
         NEW new \in {[rows[r] EXCEPT !.stale = b], [rows[r] EXCEPT !.ready = b]},
         rows' = [rows EXCEPT ![r] = new],
         UNCHANGED <<nextRow, before, life, floor, pc, lease, crawled>>
  PROVE  MildStep
<1>1. rows[r] \in Row
  BY DEF Base, TypeOK
<1>2. /\ new \in Row
      /\ new.status = rows[r].status
      /\ new.attempts = rows[r].attempts
      /\ new.lower = rows[r].lower
      /\ new.upper = rows[r].upper
  BY <1>1, FlaggedRow, ZenonT(60)
<1>3. SameRows
  BY <1>2 DEF Base, TypeOK, SameRows, SameTokens, SameShape
<1> QED
  BY <1>3
  DEF MildStep, LooseStep, SameRows, Base, TypeOK, LiveNodes, LiveWorkers, KeptOrDropped,
      PcState

\* RenewRange.
LEMMA RenewIsMild ==
  ASSUME Base, NEW w \in Worker, Renew(w)
  PROVE  MildStep
<1>1. lease[w].row \in RowId
  BY DEF Renew, Holds, Base, LeasesOnRows, LeaseOnRow, Used
<1>2. rows' = [rows EXCEPT ![lease[w].row] = [rows[lease[w].row] EXCEPT !.stale = FALSE]]
  BY DEF Renew
<1> QED
  BY <1>1, <1>2, FlagIsMild DEF Renew

\* The clock.
LEMMA ClockIsMild ==
  ASSUME Base, NEW r \in RowId, Expire(r) \/ BackoffOver(r)
  PROVE  MildStep
<1>1. CASE Expire(r)
  <2>1. rows' = [rows EXCEPT ![r] = [rows[r] EXCEPT !.stale = TRUE]]
    BY <1>1 DEF Expire
  <2> QED
    BY <1>1, <2>1, FlagIsMild DEF Expire
<1>2. CASE BackoffOver(r)
  <2>1. rows' = [rows EXCEPT ![r] = [rows[r] EXCEPT !.ready = TRUE]]
    BY <1>2 DEF BackoffOver
  <2> QED
    BY <1>2, <2>1, FlagIsMild DEF BackoffOver
<1> QED
  BY <1>1, <1>2

\* reclaim keeps tokens and bounds of every row.
LEMMA ReclaimShape ==
  ASSUME Base, NEW n \in Node, rows' = Reclaimed(n)
  PROVE  SameRows
<1>1. ASSUME NEW r \in RowId
      PROVE  rows'[r] \in Row /\ SameShape(r) /\ rows'[r].attempts = rows[r].attempts
  <2>1. rows[r] \in Row
    BY DEF Base, TypeOK
  <2>2. CASE rows[r].status = "running" /\ rows[r].node = n
    BY <2>1, <2>2, TakenBackRow DEF Reclaimed, SameShape
  <2>3. CASE ~(rows[r].status = "running" /\ rows[r].node = n)
    BY <2>1, <2>3 DEF Reclaimed, SameShape
  <2> QED
    BY <2>2, <2>3
<1>2. rows' = [r \in RowId |-> rows'[r]]
  BY DEF Reclaimed
<1> QED
  BY <1>1, <1>2 DEF SameRows, SameTokens

\* Register, the second Register, and the sweep.
LEMMA UpIsMild ==
  ASSUME Base, NEW n \in Node, Start(n) \/ Reregister(n) \/ Sweep(n)
  PROVE  MildStep
<1>1. SameRows
  BY ReclaimShape DEF Start, Reregister, Sweep
<1>2. CASE Start(n)
  <2>1. PICK f \in Floors : floor' = [floor EXCEPT ![n] = f]
    BY <1>2 DEF Start
  <2>2. \A w \in Worker : pc[w] # "idle" => NodeOf[w] # n /\ NodeOf[w] \in Node
    BY <1>2, ConstantsAssumption DEF Start, Base, LiveWorkers
  <2> QED
    BY <1>1, <1>2, <2>1, <2>2
    DEF Start, MildStep, LooseStep, SameRows, Base, TypeOK, LiveNodes, LiveWorkers,
        KeptOrDropped, PcState
<1>3. CASE Reregister(n)
  BY <1>1, <1>3, ConstantsAssumption
  DEF Reregister, MildStep, LooseStep, SameRows, Base, TypeOK, LiveNodes, LiveWorkers,
      KeptOrDropped, PcState
<1>4. CASE Sweep(n)
  BY <1>1, <1>4, ConstantsAssumption
  DEF Sweep, MildStep, LooseStep, SameRows, Base, TypeOK, LiveNodes, LiveWorkers,
      KeptOrDropped, PcState
<1> QED
  BY <1>2, <1>3, <1>4

\* A crash, and an orderly stop.
LEMMA DownIsMild ==
  ASSUME Base, NEW n \in Node, Crash(n) \/ Shutdown(n)
  PROVE  MildStep
<1>1. SameRows
  BY ReclaimShape, RowsUnchangedShape DEF Crash, Shutdown
<1>2. /\ life' = [life EXCEPT ![n] = "down"]
      /\ floor' = [floor EXCEPT ![n] = 0]
      /\ StopWorkers(n)
      /\ UNCHANGED <<nextRow, before, crawled>>
  BY DEF Crash, Shutdown
<1>3. /\ pc' \in [Worker -> PcState]
      /\ lease' \in [Worker -> Lease]
      /\ \A w \in Worker : KeptOrDropped(w)
      /\ \A w \in Worker : pc'[w] # "idle" => pc[w] # "idle" /\ NodeOf[w] # n
  BY <1>2, NoRowType DEF StopWorkers, Base, TypeOK, PcState, KeptOrDropped
<1> QED
  BY <1>1, <1>2, <1>3, ConstantsAssumption
  DEF MildStep, LooseStep, SameRows, Base, TypeOK, LiveNodes, LiveWorkers

\* reuseRange found nothing.
LEMMA NothingToReuseIsMild ==
  ASSUME Base, NEW w \in Worker, NothingToReuse(w)
  PROVE  MildStep
<1>1. /\ pc' \in [Worker -> PcState]
      /\ \A v \in Worker : KeptOrDropped(v)
      /\ \A v \in Worker : pc'[v] # "idle" => v = w \/ pc[v] # "idle"
  BY DEF NothingToReuse, Base, TypeOK, PcState, KeptOrDropped
<1> QED
  BY <1>1, RowsUnchangedShape
  DEF NothingToReuse, MildStep, LooseStep, SameRows, Base, TypeOK, LiveNodes, LiveWorkers

-----------------------------------------------------------------------------
(* The steps that hand out tokens, move bounds or lower attempts. *)

\* ReleaseRange leaves bounds alone, and only the holder of the row's token
\* lowers it.
LEMMA ReleaseIsLoose ==
  ASSUME Base, NEW w \in Worker, NEW next \in {"idle", "resting"}, Release(w, next)
  PROVE  /\ LooseStep
         /\ Holds(w) /\ ~Holds(w)'
         /\ \A q \in RowId : q # lease[w].row => rows'[q] = rows[q]
         /\ LET r == lease[w].row IN
              \/ rows'[r].attempts = rows[r].attempts
              \/ /\ rows[r].attempts = lease[w].token
                 /\ rows'[r].attempts = IF rows[r].attempts > 0 THEN rows[r].attempts - 1 ELSE 0
<1> DEFINE r == lease[w].row
<1>1. /\ Holds(w) /\ LeaseOnRow(w) /\ r \in Used /\ r \in RowId /\ pc[w] = "working"
      /\ UNCHANGED <<nextRow, before, life, floor, crawled>>
  BY DEF Release, Holds, Base, LeasesOnRows, LeaseOnRow, Used
<1>2. rows[r] \in Row /\ rows[r].attempts \in Nat /\ lease[w] \in Lease
  BY <1>1 DEF Base, TypeOK, Row
<1>3. /\ lease' \in [Worker -> Lease]
      /\ pc' = [pc EXCEPT ![w] = next]
      /\ pc' \in [Worker -> PcState]
      /\ \A v \in Worker : KeptOrDropped(v)
      /\ \A v \in Worker : pc'[v] # "idle" => pc[v] # "idle"
  BY <1>1, <1>2, NoRowType DEF Release, Base, TypeOK, PcState, KeptOrDropped
<1>4. ~Holds(w)'
  BY <1>3 DEF Holds, Base, TypeOK
<1>5. /\ rows' \in [RowId -> Row]
      /\ \A q \in RowId : q # r => rows'[q] = rows[q]
      /\ rows'[r].lower = rows[r].lower /\ rows'[r].upper = rows[r].upper
      /\ rows'[r].status # "none"
      /\ \/ rows'[r].attempts = rows[r].attempts
         \/ /\ rows[r].attempts = lease[w].token
            /\ rows'[r].attempts = IF rows[r].attempts > 0 THEN rows[r].attempts - 1 ELSE 0
  <2>1. CASE Fenced(w)
    <3>1. rows' = [rows EXCEPT ![r] = GivenBack(rows[r])] /\ rows[r].attempts = lease[w].token
      BY <2>1 DEF Release, WhenFenced, Fenced
    <3> QED
      BY <1>1, <1>2, <3>1, GivenBackRow DEF Base, TypeOK
  <2>2. CASE ~Fenced(w)
    BY <1>1, <2>2 DEF Release, WhenFenced, Base, TypeOK, Used
  <2> QED
    BY <2>1, <2>2
<1>6. \A q \in RowId : SameShape(q)
  BY <1>1, <1>5 DEF SameShape, Used
<1>7. LooseStep
  BY <1>1, <1>3, <1>5, <1>6 DEF LooseStep, Base, TypeOK, LiveNodes, LiveWorkers
<1> QED
  BY <1>1, <1>4, <1>5, <1>7

\* The lease that held the lowered token is gone: every other stays behind.
LEMMA ReleaseKeepsTokens ==
  ASSUME IInv, NEW w \in Worker, NEW next \in {"idle", "resting"}, Release(w, next)
  PROVE  TokensBehind' /\ TokensDistinct'
<1> DEFINE r == lease[w].row
<1>1. /\ LooseStep /\ Holds(w) /\ ~Holds(w)'
      /\ \A q \in RowId : q # r => rows'[q] = rows[q]
      /\ \/ rows'[r].attempts = rows[r].attempts
         \/ /\ rows[r].attempts = lease[w].token
            /\ rows'[r].attempts = IF rows[r].attempts > 0 THEN rows[r].attempts - 1 ELSE 0
  BY ReleaseIsLoose DEF IInv
<1>2. \A v \in Worker : Holds(v)' => v # w /\ Holds(v) /\ lease'[v] = lease[v]
  BY <1>1 DEF LooseStep, KeptOrDropped, Holds
<1>3. ASSUME NEW v \in Worker, Holds(v)'
      PROVE  lease'[v].token <= rows'[lease'[v].row].attempts
  <2>1. v # w /\ Holds(v) /\ lease'[v] = lease[v] /\ lease[v].token <= rows[lease[v].row].attempts
    BY <1>2, <1>3 DEF IInv, TokensBehind
  <2>2. lease[v].token \in Nat /\ lease[w].token \in Nat /\ lease[v].row \in RowId
    BY <2>1 DEF IInv, Base, TypeOK, Lease, LeasesOnRows, LeaseOnRow, Used
  <2>3. rows[lease[v].row].attempts \in Nat
    BY <2>2 DEF IInv, Base, TypeOK, Row
  <2>4. lease[v].row = r => lease[v].token # lease[w].token
    BY <1>1, <2>1 DEF IInv, TokensDistinct
  <2>5. CASE lease[v].row = r
    BY <1>1, <2>1, <2>2, <2>3, <2>4, <2>5
  <2>6. CASE lease[v].row # r
    BY <1>1, <2>1, <2>2, <2>6
  <2> QED
    BY <2>5, <2>6
<1>4. TokensBehind'
  BY <1>3 DEF TokensBehind
<1>5. TokensDistinct'
  BY <1>2 DEF IInv, TokensDistinct
<1> QED
  BY <1>4, <1>5

\* A worker is granted a row whose token is now above all that were given out.
Grants(w, r) ==
    /\ r \in RowId
    /\ rows' \in [RowId -> Row]
    /\ \A q \in RowId : q # r => rows'[q] = rows[q]
    /\ r \in Used => rows'[r].attempts > rows[r].attempts
    /\ rows'[r].status = "running"
    /\ rows'[r].lower >= 1 /\ rows'[r].upper <= Latest - 1
    /\ lease' \in [Worker -> Lease] /\ pc' \in [Worker -> PcState]
    /\ \A v \in Worker : v # w => pc'[v] = pc[v] /\ lease'[v] = lease[v]
    /\ lease'[w].row = r /\ lease'[w].token = rows'[r].attempts
    /\ lease'[w].lower = rows'[r].lower /\ lease'[w].upper = rows'[r].upper
    /\ pc'[w] \in {"splitting", "working"}
    /\ pc'[w] = "splitting" => rows'[r].lower < FloorOf(w) /\ FloorOf(w) <= rows'[r].upper
    /\ life[NodeOf[w]] # "down"
    /\ UNCHANGED <<life, floor, crawled>>

LEMMA GrantKeepsLeases ==
  ASSUME Base, NEW w \in Worker, NEW r, Grants(w, r)
  PROVE  Used' = Used \cup {r} /\ RowsInRange' /\ LeasesOnRows' /\ LiveWorkers'
<1> USE DEF Grants
<1>1. Used' = Used \cup {r}
  BY DEF Used
<1>2. RowsInRange'
  BY <1>1 DEF Base, RowsInRange, Used
<1>3. LeaseOnRow(w)'
  BY <1>1 DEF LeaseOnRow, FloorOf
<1>4. ASSUME NEW v \in Worker, v # w, Holds(v)'
      PROVE  LeaseOnRow(v)'
  <2>1. LeaseOnRow(v) /\ pc'[v] = pc[v] /\ lease'[v] = lease[v]
    BY <1>4 DEF Holds, Base, LeasesOnRows
  <2> QED
    BY <1>1, <2>1 DEF LeaseOnRow, FloorOf
<1>5. ASSUME NEW v \in Worker, pc'[v] = "resting"
      PROVE  lease'[v].row \in Used'
  BY <1>1, <1>5 DEF Base, LeasesOnRows
<1>6. LeasesOnRows'
  BY <1>3, <1>4, <1>5 DEF LeasesOnRows
<1>7. LiveWorkers'
  BY DEF Base, LiveWorkers
<1> QED
  BY <1>1, <1>2, <1>6, <1>7

LEMMA GrantKeepsTokens ==
  ASSUME IInv, NEW w \in Worker, NEW r, Grants(w, r)
  PROVE  TokensBehind' /\ TokensDistinct'
<1>1. ASSUME NEW v \in Worker, v # w, Holds(v)'
      PROVE  /\ Holds(v) /\ lease'[v] = lease[v] /\ lease[v].row \in Used
             /\ lease[v].token <= rows[lease[v].row].attempts
  BY <1>1 DEF Grants, Holds, IInv, Base, LeasesOnRows, LeaseOnRow, TokensBehind
<1>2. ASSUME NEW v \in Worker, v # w, Holds(v)'
      PROVE  /\ lease'[v].token <= rows'[lease'[v].row].attempts
             /\ lease'[v].row = r => lease'[v].token < lease'[w].token
  <2>1. lease[v].token \in Nat /\ lease[v].row \in RowId
    BY <1>1, <1>2 DEF IInv, Base, TypeOK, Lease, Used
  <2>2. rows[lease[v].row].attempts \in Nat /\ rows'[lease[v].row].attempts \in Nat
    BY <2>1 DEF Grants, IInv, Base, TypeOK, Row
  <2> QED
    BY <1>1, <1>2, <2>1, <2>2 DEF Grants
<1>3. rows'[r].attempts \in Nat
  BY DEF Grants, Row
<1>4. TokensBehind'
  BY <1>2, <1>3 DEF Grants, TokensBehind
<1>5. TokensDistinct'
  <2>1. ASSUME NEW v \in Worker, NEW u \in Worker, v # u, v # w, u # w, Holds(v)', Holds(u)',
               lease'[v].row = lease'[u].row
        PROVE  lease'[v].token # lease'[u].token
    BY <1>1, <2>1 DEF IInv, TokensDistinct
  <2>2. ASSUME NEW v \in Worker, v # w, Holds(v)', lease'[v].row = lease'[w].row
        PROVE  lease'[v].token # lease'[w].token
    <3>1. lease'[v].token < lease'[w].token
      BY <1>2, <2>2 DEF Grants
    <3>2. lease'[v].token \in Nat /\ lease'[w].token \in Nat
      BY DEF Grants, Lease
    <3> QED
      BY <3>1, <3>2
  <2> QED
    BY <2>1, <2>2 DEF TokensDistinct
<1> QED
  BY <1>4, <1>5

\* reuseRange: the new token is above every token given out on the row.
LEMMA ReuseGrants ==
  ASSUME Base, NEW w \in Worker, Reuse(w)
  PROVE  /\ \E r \in Used : /\ Grants(w, r)
                            /\ rows'[r].lower = rows[r].lower /\ rows'[r].upper = rows[r].upper
         /\ UNCHANGED <<nextRow, before>>
<1>1. PICK r \in RowId :
        /\ Candidate(r, FloorOf(w))
        /\ rows' = [rows EXCEPT ![r] = Leased(rows[r], NodeOf[w])]
        /\ lease' = [lease EXCEPT ![w] = [row |-> r, token |-> rows[r].attempts + 1,
                                          lower |-> rows[r].lower, upper |-> rows[r].upper]]
        /\ pc' = [pc EXCEPT ![w] = IF rows[r].lower < FloorOf(w) THEN "splitting" ELSE "working"]
  BY DEF Reuse
<1>2. life[NodeOf[w]] # "down" /\ UNCHANGED <<nextRow, before, life, floor, crawled>>
  BY DEF Reuse
<1>3. rows[r] \in Row /\ NodeOf[w] \in Node /\ RowId \subseteq 0..MaxRows
  BY ConstantsAssumption DEF Base, TypeOK, RowId
<1>4. rows[r].attempts \in Nat /\ rows[r].lower \in Nat /\ rows[r].upper \in Nat
  BY <1>3 DEF Row
<1>5. r \in Used /\ FloorOf(w) <= rows[r].upper /\ rows[r].lower >= 1 /\ rows[r].upper <= Latest - 1
  BY <1>1, <1>4 DEF Candidate, Used, Base, RowsInRange
<1>6. /\ rows' \in [RowId -> Row]
      /\ \A q \in RowId : q # r => rows'[q] = rows[q]
      /\ rows'[r].status = "running"
      /\ rows'[r].attempts = rows[r].attempts + 1
      /\ rows'[r].lower = rows[r].lower
      /\ rows'[r].upper = rows[r].upper
  BY <1>1, <1>3, LeasedRow DEF Base, TypeOK
<1>7. /\ lease' \in [Worker -> Lease]
      /\ pc' \in [Worker -> PcState]
      /\ \A v \in Worker : v # w => pc'[v] = pc[v] /\ lease'[v] = lease[v]
      /\ lease'[w].row = r /\ lease'[w].token = rows[r].attempts + 1
      /\ lease'[w].lower = rows[r].lower /\ lease'[w].upper = rows[r].upper
      /\ pc'[w] \in {"splitting", "working"}
      /\ pc'[w] = "splitting" => rows[r].lower < FloorOf(w)
  BY <1>1, <1>3, <1>4 DEF Base, TypeOK, Lease, PcState
<1> QED
  BY <1>2, <1>4, <1>5, <1>6, <1>7 DEF Grants

LEMMA ReuseKeepsBase ==
  ASSUME Base, NEW w \in Worker, Reuse(w)
  PROVE  Base'
<1>1. PICK r \in Used : Grants(w, r)
  BY ReuseGrants
<1>2. UNCHANGED <<nextRow, before>>
  BY ReuseGrants
<1>3. RowsInRange' /\ LeasesOnRows' /\ LiveWorkers'
  BY <1>1, GrantKeepsLeases
<1>4. TypeOK' /\ LiveNodes'
  BY <1>1, <1>2 DEF Grants, Base, TypeOK, LiveNodes, PcState
<1>5. FreshRows'
  BY <1>1, <1>2 DEF Grants, Base, FreshRows, Used
<1> QED
  BY <1>3, <1>4, <1>5 DEF Base

\* carveRange: the new row is nobody's yet.
LEMMA CarveGrants ==
  ASSUME Base, NEW w \in Worker, Carve(w)
  PROVE  /\ Grants(w, nextRow) /\ nextRow \notin Used
         /\ nextRow' = nextRow + 1 /\ before' \in 1..Latest
         /\ before' = rows'[nextRow].lower /\ rows'[nextRow].upper = before - 1
<1>1. PICK size \in Sizes :
        LET upper == before - 1
            lower == CarveLower(upper, size, FloorOf(w))
        IN
        /\ rows' = [rows EXCEPT ![nextRow] =
                      [NoRow EXCEPT !.lower = lower, !.upper = upper, !.status = "running",
                                    !.attempts = 1, !.node = NodeOf[w]]]
        /\ before' = lower
        /\ lease' = [lease EXCEPT ![w] = [row |-> nextRow, token |-> 1,
                                          lower |-> lower, upper |-> upper]]
  BY DEF Carve
<1> DEFINE upper == before - 1
           lower == CarveLower(upper, size, FloorOf(w))
           new == [NoRow EXCEPT !.lower = lower, !.upper = upper, !.status = "running",
                                !.attempts = 1, !.node = NodeOf[w]]
<1>2. /\ pc[w] = "carving" /\ upper >= FloorOf(w) /\ nextRow \in RowId
      /\ nextRow' = nextRow + 1
      /\ pc' = [pc EXCEPT ![w] = "working"]
      /\ UNCHANGED <<life, floor, crawled>>
  BY ConstantsAssumption DEF Carve, Base, TypeOK, RowId
<1>3. life[NodeOf[w]] # "down" /\ NodeOf[w] \in Node /\ FloorOf(w) \in Nat \ {0}
  BY <1>2, ConstantsAssumption DEF Base, LiveWorkers, LiveNodes, FloorOf
<1>4. /\ lower \in Nat /\ upper \in Nat /\ lower >= 1 /\ lower <= before
      /\ upper <= Latest - 1 /\ before' = lower /\ lower \in 1..Latest
  BY <1>1, <1>2, <1>3, ConstantsAssumption DEF CarveLower, Base, TypeOK
<1> HIDE DEF lower, upper
<1>5. new \in Row /\ new.status = "running" /\ new.attempts = 1
      /\ new.lower = lower /\ new.upper = upper
  BY <1>3, <1>4 DEF NoRow, Row, Status
<1>6. /\ rows' = [rows EXCEPT ![nextRow] = new]
      /\ lease' = [lease EXCEPT ![w] = [row |-> nextRow, token |-> 1,
                                        lower |-> lower, upper |-> upper]]
  BY <1>1 DEF lower, upper
<1> HIDE DEF new
<1>7. /\ rows' \in [RowId -> Row] /\ rows'[nextRow] = new
      /\ \A r \in RowId : r # nextRow => rows'[r] = rows[r]
  BY <1>2, <1>5, <1>6 DEF Base, TypeOK
<1>8. nextRow \notin Used
  BY <1>2 DEF Used, Base, FreshRows, RowId, TypeOK
<1>9. /\ lease' \in [Worker -> Lease]
      /\ pc' \in [Worker -> PcState] /\ pc'[w] = "working"
      /\ \A v \in Worker : v # w => pc'[v] = pc[v] /\ lease'[v] = lease[v]
      /\ lease'[w].row = nextRow /\ lease'[w].token = 1
      /\ lease'[w].lower = lower /\ lease'[w].upper = upper
  BY <1>2, <1>4, <1>6, ConstantsAssumption DEF Base, TypeOK, Lease, PcState, RowId
<1>10. upper = before - 1
  BY DEF upper
<1> QED
  BY <1>2, <1>3, <1>4, <1>5, <1>7, <1>8, <1>9, <1>10 DEF Grants

LEMMA CarveKeepsBase ==
  ASSUME Base, NEW w \in Worker, Carve(w)
  PROVE  Base'
<1>1. /\ Grants(w, nextRow) /\ nextRow \notin Used
      /\ nextRow' = nextRow + 1 /\ before' \in 1..Latest
  BY CarveGrants
<1>2. RowsInRange' /\ LeasesOnRows' /\ LiveWorkers'
  BY <1>1, GrantKeepsLeases
<1>3. nextRow \in 1..MaxRows /\ nextRow' \in 1..MaxRows + 1
  BY <1>1, ConstantsAssumption DEF Grants, RowId
<1>4. TypeOK' /\ LiveNodes'
  BY <1>1, <1>3 DEF Grants, Base, TypeOK, LiveNodes, PcState
<1>5. FreshRows'
  BY <1>1, <1>3 DEF Grants, Base, FreshRows, RowId
<1> QED
  BY <1>2, <1>4, <1>5 DEF Base

\* splitAtFloor raises the leased row's lower bound, and the part below the
\* floor is in a row: a new one, nobody's yet, or one with just these bounds.
Divides(w) ==
    LET r == lease[w].row
        f == FloorOf(w)
    IN
    /\ Holds(w) /\ pc[w] = "splitting" /\ LeaseOnRow(w) /\ life[NodeOf[w]] # "down"
    /\ f \in Nat \ {0} /\ f <= Latest - 1
    /\ r \in Used /\ rows[r] \in Row /\ rows[r].status = "running"
    /\ rows' \in [RowId -> Row]
    /\ rows'[r].lower = f /\ rows'[r].upper = rows[r].upper
    /\ rows'[r].status = "running" /\ rows'[r].attempts = rows[r].attempts
    /\ IF Kept(w)
       THEN \A q \in RowId : q # r => rows'[q] = rows[q]
       ELSE /\ nextRow \in RowId \ Used
            /\ rows'[nextRow].status = "failed"
            /\ rows'[nextRow].lower = lease[w].lower /\ rows'[nextRow].upper = f - 1
            /\ \A q \in RowId : q \notin {r, nextRow} => rows'[q] = rows[q]
    /\ nextRow' = IF Kept(w) THEN nextRow ELSE nextRow + 1
    /\ lease' \in [Worker -> Lease] /\ pc' \in [Worker -> PcState] /\ pc'[w] = "working"
    /\ \A v \in Worker : v # w => pc'[v] = pc[v] /\ lease'[v] = lease[v]
    /\ lease'[w].row = r /\ lease'[w].token = lease[w].token
    /\ lease'[w].lower = f /\ lease'[w].upper = lease[w].upper
    /\ UNCHANGED <<before, life, floor, crawled>>

LEMMA SplitDividesRow ==
  ASSUME Base, NEW w \in Worker, Split(w)
  PROVE  Divides(w)
<1> DEFINE r == lease[w].row
           raised == RaiseLower(rows[r], FloorOf(w))
<1>1. /\ pc[w] = "splitting" /\ rows[r].status = "running"
      /\ Kept(w) \/ nextRow <= MaxRows
      /\ rows' = [KeepBelow(w) EXCEPT ![r] = raised]
      /\ nextRow' = IF Kept(w) THEN nextRow ELSE nextRow + 1
      /\ lease' = [lease EXCEPT ![w].lower = FloorOf(w)]
      /\ pc' = [pc EXCEPT ![w] = "working"]
      /\ UNCHANGED <<before, life, floor, crawled>>
  BY DEF Split, StillRunning
<1>2. /\ Holds(w) /\ LeaseOnRow(w)
      /\ r \in Used /\ r \in RowId
      /\ lease[w] \in Lease /\ rows[r] \in Row
  BY <1>1 DEF Holds, Base, LeasesOnRows, LeaseOnRow, TypeOK, Used
<1>3. life[NodeOf[w]] # "down" /\ FloorOf(w) \in Nat \ {0} /\ FloorOf(w) <= Latest - 1
  BY <1>1, <1>2, ConstantsAssumption DEF Base, LiveWorkers, LiveNodes, FloorOf, LeaseOnRow, Lease
<1>4. /\ raised \in Row /\ raised.lower = FloorOf(w) /\ raised.upper = rows[r].upper
      /\ raised.attempts = rows[r].attempts /\ raised.status = rows[r].status
  BY <1>2, <1>3 DEF RaiseLower, Row
<1>5. BelowFloor(w) \in Row /\ BelowFloor(w).status = "failed" /\ BelowFloor(w).lower = lease[w].lower
      /\ BelowFloor(w).upper = FloorOf(w) - 1
  <2>1. lease[w].lower \in Nat /\ FloorOf(w) - 1 \in Nat
    BY <1>2, <1>3 DEF Lease
  <2> QED
    BY <2>1, FailedRowType DEF BelowFloor
<1> HIDE DEF raised
<1>6. ~Kept(w) => nextRow \in RowId /\ nextRow \notin Used /\ nextRow # r
  BY <1>1, <1>2, ConstantsAssumption DEF Base, FreshRows, TypeOK, RowId, Used
<1>7. /\ rows' \in [RowId -> Row]
      /\ rows'[r] = raised
      /\ ~Kept(w) => rows'[nextRow] = BelowFloor(w)
      /\ \A q \in RowId : q # r /\ (Kept(w) \/ q # nextRow) => rows'[q] = rows[q]
  BY <1>1, <1>2, <1>4, <1>5, <1>6 DEF KeepBelow, Base, TypeOK
<1>8. /\ lease' \in [Worker -> Lease]
      /\ pc' \in [Worker -> PcState] /\ pc'[w] = "working"
      /\ \A v \in Worker : v # w => pc'[v] = pc[v] /\ lease'[v] = lease[v]
      /\ lease'[w].row = r /\ lease'[w].token = lease[w].token
      /\ lease'[w].lower = FloorOf(w) /\ lease'[w].upper = lease[w].upper
  BY <1>1, <1>2, <1>3 DEF Base, TypeOK, Lease, PcState
<1> QED
  BY <1>1, <1>2, <1>3, <1>4, <1>5, <1>6, <1>7, <1>8 DEF Divides

LEMMA SplitKeepsBase ==
  ASSUME Base, NEW w \in Worker, Split(w)
  PROVE  Base'
<1> DEFINE r == lease[w].row
           f == FloorOf(w)
<1> USE DEF Divides
<1>0. Divides(w)
  BY SplitDividesRow
<1>1. nextRow \in Nat /\ nextRow' \in 1..MaxRows + 1 /\ nextRow' >= nextRow
      /\ (~Kept(w) => nextRow' > nextRow)
  BY <1>0, ConstantsAssumption DEF Base, TypeOK, RowId
<1>2. TypeOK' /\ LiveNodes' /\ LiveWorkers'
  BY <1>0, <1>1 DEF Base, TypeOK, LiveNodes, LiveWorkers, PcState
<1>3. Used' = Used \cup (IF Kept(w) THEN {} ELSE {nextRow})
  BY <1>0 DEF Used
<1>4. FreshRows'
  <2> SUFFICES ASSUME NEW q \in RowId, q >= nextRow'
               PROVE  rows'[q].status = "none"
    BY DEF FreshRows
  <2>1. q >= nextRow /\ (~Kept(w) => q # nextRow)
    BY <1>1 DEF RowId
  <2>2. rows[q].status = "none" /\ q # r
    BY <1>0, <2>1 DEF Base, FreshRows, Used
  <2> QED
    BY <1>0, <2>1, <2>2
<1>5. lease[w].lower >= 1 /\ f >= 1 /\ f - 1 <= Latest - 1 /\ f <= Latest - 1
  BY <1>0, ConstantsAssumption DEF LeaseOnRow
<1>6. RowsInRange'
  <2> SUFFICES ASSUME NEW q \in Used'
               PROVE  rows'[q].lower >= 1 /\ rows'[q].upper <= Latest - 1
    BY DEF RowsInRange
  <2>1. CASE q = r
    BY <1>0, <1>5, <2>1 DEF Base, RowsInRange
  <2>2. CASE q \in Used /\ q # r
    BY <1>0, <2>2 DEF Base, RowsInRange, Used
  <2>3. CASE q \notin Used
    BY <1>0, <1>3, <1>5, <2>3
  <2> QED
    BY <2>1, <2>2, <2>3
<1>7. ASSUME NEW v \in Worker, Holds(v)'
      PROVE  LeaseOnRow(v)'
  <2>1. LeaseOnRow(v) /\ Holds(v)
    BY <1>0, <1>7 DEF Holds, Base, LeasesOnRows
  <2> QED
    BY <1>0, <1>3, <1>5, <2>1 DEF LeaseOnRow, FloorOf
<1>8. ASSUME NEW v \in Worker, pc'[v] = "resting"
      PROVE  lease'[v].row \in Used'
  BY <1>0, <1>3, <1>8 DEF Base, LeasesOnRows
<1> QED
  BY <1>2, <1>4, <1>6, <1>7, <1>8 DEF Base, LeasesOnRows

\* The tokens of rows in use stay, and the holders keep theirs.
LEMMA SplitKeepsTokens ==
  ASSUME IInv, NEW w \in Worker, Split(w)
  PROVE  TokensBehind' /\ TokensDistinct'
<1>1. Divides(w)
  BY SplitDividesRow DEF IInv
<1>2. \A q \in Used : rows'[q].attempts = rows[q].attempts
  BY <1>1 DEF Divides, Used
<1>3. \A v \in Worker : Holds(v)' => /\ Holds(v)
                                     /\ lease'[v].row = lease[v].row
                                     /\ lease'[v].token = lease[v].token
  BY <1>1 DEF Divides, Holds
<1> QED
  BY <1>2, <1>3, TokensStay

-----------------------------------------------------------------------------
\* The initial state.
LEMMA InitIInv == Init => IInv
<1> SUFFICES ASSUME Init PROVE IInv
  OBVIOUS
<1>1. Used = {} /\ \A w \in Worker : pc[w] = "idle" /\ NodeOf[w] \in Node
  BY ConstantsAssumption DEF Init, Used, NoRow
<1>2. TypeOK
  BY NoRowType, ConstantsAssumption DEF Init, TypeOK
<1>3. LiveNodes /\ LiveWorkers /\ FreshRows /\ RowsInRange /\ LeasesOnRows
  BY <1>1 DEF Init, LiveNodes, LiveWorkers, FreshRows, RowsInRange, LeasesOnRows, Holds, NoRow
<1>4. TokensBehind /\ TokensDistinct
  BY <1>1 DEF TokensBehind, TokensDistinct, Holds
<1> QED
  BY <1>2, <1>3, <1>4 DEF IInv, Base

\* The steps that are neither.
Moves(w) == \/ Reuse(w) \/ Carve(w) \/ Split(w)
            \/ \E next \in {"idle", "resting"} : Release(w, next)

\* Every other step of a worker, a node or the clock is mild.
LEMMA OtherStepsAreMild ==
  ASSUME Base, Next
  PROVE  MildStep \/ \E w \in Worker : Moves(w)
<1>1. ASSUME NEW w \in Worker, WorkerNext(w)
      PROVE  MildStep \/ Moves(w)
  BY <1>1, NothingToReuseIsMild, LetGoIsMild, FinishIsMild, RenewIsMild
  DEF WorkerNext, Acquire, Report, GiveBack, Moves
<1>2. ASSUME NEW n \in Node, NodeNext(n)
      PROVE  MildStep
  BY <1>2, UpIsMild, DownIsMild DEF NodeNext
<1>3. CASE ClockNext
  BY <1>3, ClockIsMild DEF ClockNext
<1> QED
  BY <1>1, <1>2, <1>3 DEF Next

LEMMA StutterIsMild ==
  ASSUME Base, UNCHANGED vars
  PROVE  MildStep
  BY RowsUnchangedShape
  DEF vars, MildStep, LooseStep, SameRows, Base, TypeOK, LiveNodes, LiveWorkers, KeptOrDropped,
      PcState

LEMMA MovesKeepBase ==
  ASSUME Base, NEW w \in Worker, Moves(w)
  PROVE  Base'
  BY ReuseKeepsBase, CarveKeepsBase, SplitKeepsBase, ReleaseIsLoose, LooseStepKeepsBase DEF Moves

LEMMA MovesKeepTokens ==
  ASSUME IInv, NEW w \in Worker, Moves(w)
  PROVE  TokensBehind' /\ TokensDistinct'
<1>1. CASE Reuse(w)
  BY <1>1, ReuseGrants, GrantKeepsTokens DEF IInv
<1>2. CASE Carve(w)
  BY <1>2, CarveGrants, GrantKeepsTokens DEF IInv
<1> QED
  BY <1>1, <1>2, SplitKeepsTokens, ReleaseKeepsTokens DEF Moves

\* Every step.
LEMMA NextIInv == IInv /\ [Next]_vars => IInv'
<1> SUFFICES ASSUME IInv, [Next]_vars PROVE IInv'
  OBVIOUS
<1>1. Base
  BY DEF IInv
<1>2. CASE MildStep
  BY <1>2, MildStepKeepsIInv
<1>3. ASSUME NEW w \in Worker, Moves(w)
      PROVE  IInv'
  BY <1>1, <1>3, MovesKeepBase, MovesKeepTokens DEF IInv
<1> QED
  BY <1>1, <1>2, <1>3, OtherStepsAreMild, StutterIsMild

\* The inductive invariant, in every behaviour without an operator's resets.
THEOREM IInvHolds == Spec => []IInv
  BY InitIInv, NextIInv, PTL DEF Spec

\* Every variable has its type: in particular no row, lease or crawled id
\* ever leaves 1 .. Latest - 1, whatever the floors and sizes (carveRange's
\* clamp, splitAtFloor's new bounds).
THEOREM TypeCorrect == Spec => []TypeOK
<1>1. IInv => TypeOK
  BY DEF IInv, Base
<1> QED
  BY <1>1, IInvHolds, PTL

\* The fencing of lease.go: two workers that both believe in a lease on one
\* row are never both able to finish, release or renew it.
THEOREM FencingIsExclusive == Spec => []Exclusive
<1>1. IInv => Exclusive
  BY DEF IInv, TokensDistinct, Exclusive, Fenced
<1> QED
  BY <1>1, IInvHolds, PTL

-----------------------------------------------------------------------------
\* No step changes a closed row.
LEMMA ClosedStep ==
  ASSUME IInv, [Next]_vars, NEW r \in RowId, rows[r].status \in Closed
  PROVE  rows'[r] = rows[r]
<1>1. rows \in [RowId -> Row] /\ rows[r].status \notin {"none", "running", "failed"}
  BY DEF IInv, Base, TypeOK, Closed
<1>2. ASSUME NEW w \in Worker, Reuse(w)
      PROVE  rows'[r] = rows[r]
  BY <1>1, <1>2 DEF Reuse, Candidate
<1>3. ASSUME NEW w \in Worker, Split(w)
      PROVE  rows'[r] = rows[r]
  <2>1. r # lease[w].row
    BY <1>1, <1>3 DEF Split, StillRunning
  <2>2. nextRow \in RowId => r # nextRow
    BY <1>1 DEF IInv, Base, FreshRows, RowId
  <2>3. KeepBelow(w) \in [RowId -> {KeepBelow(w)[q] : q \in RowId}] /\ KeepBelow(w)[r] = rows[r]
    BY <1>1, <2>2 DEF KeepBelow
  <2> QED
    BY <1>3, <2>1, <2>3 DEF Split
<1>4. ASSUME NEW w \in Worker, Carve(w)
      PROVE  rows'[r] = rows[r]
  <2>1. r # nextRow
    BY <1>1 DEF IInv, Base, FreshRows, RowId
  <2> QED
    BY <1>1, <1>4, <2>1 DEF Carve
<1>5. ASSUME NEW w \in Worker, NEW new, rows' = WhenFenced(w, new)
      PROVE  rows'[r] = rows[r]
  BY <1>1, <1>5 DEF WhenFenced, Fenced
<1>6. ASSUME NEW w \in Worker, Renew(w)
      PROVE  rows'[r] = rows[r]
  BY <1>1, <1>6 DEF Renew, Fenced
<1>7. ASSUME NEW n \in Node, rows' = Reclaimed(n)
      PROVE  rows'[r] = rows[r]
  BY <1>1, <1>7 DEF Reclaimed
<1>8. ASSUME NEW w \in Worker, WorkerNext(w)
      PROVE  rows'[r] = rows[r]
  BY <1>2, <1>3, <1>4, <1>5, <1>6, <1>8
  DEF WorkerNext, Acquire, Report, GiveBack, NothingToReuse, NoWork, Finish, Release, Wake, Abandon
<1>9. ASSUME NEW n \in Node, NodeNext(n)
      PROVE  rows'[r] = rows[r]
  BY <1>7, <1>9 DEF NodeNext, Start, Reregister, Crash, Shutdown, Sweep
<1>10. CASE ClockNext
  BY <1>1, <1>10 DEF ClockNext, Expire, BackoffOver
<1> QED
  BY <1>8, <1>9, <1>10 DEF Next, vars

\* Without an operator a completed or empty row never changes again: no late
\* report, split, reclaim or reuse reaches it.
THEOREM ClosedRowsAreFinal == Spec => ClosedForGood
<1>1. IInv /\ [Next]_vars
        => [\A r \in RowId : rows[r].status \in Closed => rows'[r] = rows[r]]_vars
  BY ClosedStep
<1> QED
  BY <1>1, IInvHolds, PTL DEF Spec, ClosedForGood

\* What the proofs of LedgerProofs and the operator's resets build on.
THEOREM BaseHolds == Spec => []Base
<1>1. IInv => Base
  BY DEF IInv
<1> QED
  BY <1>1, IInvHolds, PTL

-----------------------------------------------------------------------------
(* No id is lost, whatever the floors of the nodes and the resets of the    *)
(* operator.  A late split can raise a row another node has split already,  *)
(* or lower it again, and a report closes the row over whatever bounds it   *)
(* has by then.  What carries the claim is that a row's ids outside a       *)
(* holder's lease are accounted for in rows that end further down, so that  *)
(* neither closing nor raising the row loses them.                          *)

\* The id is crawled, or in an open row that ends at u or below.
Covered(i, u) == i \in crawled \/ \E x \in Open : i \in Ids(x) /\ rows[x].upper <= u

RowsCovered == \A q \in Used : \A i \in Ids(q) : Covered(i, rows[q].upper)

\* The ids below the lease that are in its row, which a report would close with
\* it, and those a late split would put back into the row.
CoveredBelow(w) ==
    \A i \in rows[lease[w].row].lower .. lease[w].lower - 1 :
        Covered(i, rows[lease[w].row].upper - 1)
CoveredAbove(w) ==
    \A i \in lease[w].lower .. rows[lease[w].row].lower - 1 :
        Covered(i, rows[lease[w].row].upper - 1)

LeaseCovered(w) ==
    /\ lease[w].upper = rows[lease[w].row].upper
    /\ CoveredBelow(w)
    /\ pc[w] = "splitting" => lease[w].lower < FloorOf(w) /\ CoveredAbove(w)

CoverInv ==
    /\ RowsCovered
    /\ \A w \in Worker : Holds(w) => LeaseCovered(w)
    /\ \A i \in before .. Latest - 1 : Covered(i, Latest - 1)

StaysCovered == \A i, u \in Int : Covered(i, u) => Covered(i, u)'

\* Bounds are numbers.
LEMMA Bounds ==
  ASSUME Base
  PROVE  /\ before \in Int /\ Latest \in Int
         /\ \A r \in RowId : rows[r].lower \in Int /\ rows[r].upper \in Int
         /\ \A w \in Worker : lease[w].lower \in Int /\ lease[w].upper \in Int
  BY ConstantsAssumption DEF Base, TypeOK, Row, Lease

\* A bound further up covers as well.
LEMMA CoveredUpwards ==
  ASSUME Base, NEW i \in Int, NEW u \in Int, NEW v \in Int, u <= v, Covered(i, u)
  PROVE  Covered(i, v)
  BY Bounds DEF Covered, Open

\* What stays in an open row, with its bounds, stays covered.
LEMMA OpenRowsCover ==
  ASSUME \A r \in Open : r \in Open' /\ SameShape(r), crawled \subseteq crawled'
  PROVE  StaysCovered
  BY DEF StaysCovered, Covered, Ids, SameShape

\* A lease granted now has its row's bounds.
Matches(w) ==
    /\ lease'[w].row \in RowId
    /\ lease'[w].lower = rows'[lease'[w].row].lower
    /\ lease'[w].upper = rows'[lease'[w].row].upper
    /\ pc'[w] = "splitting" => lease'[w].lower < FloorOf(w)'

Keeps(w) == Holds(w) /\ pc'[w] = pc[w] /\ lease'[w] = lease[w] /\ FloorOf(w)' = FloorOf(w)

LEMMA MatchingIsCovered ==
  ASSUME Base', NEW w \in Worker, Matches(w)
  PROVE  LeaseCovered(w)'
<1>1. rows'[lease'[w].row].lower \in Int /\ lease'[w].lower \in Int
  BY DEF Base, TypeOK, Row, Lease, Matches
<1> QED
  BY <1>1 DEF Matches, LeaseCovered, CoveredBelow, CoveredAbove

\* A holder of a row whose bounds stay.
LEMMA KeptIsCovered ==
  ASSUME Base, CoverInv, StaysCovered, NEW w \in Worker, Keeps(w),
         lease[w].row \in RowId, SameShape(lease[w].row)
  PROVE  LeaseCovered(w)'
<1> DEFINE r == lease[w].row
<1>1. LeaseCovered(w) /\ rows[r].upper \in Int /\ rows[r].lower \in Int /\ lease[w].lower \in Int
  BY Bounds DEF CoverInv, Keeps
<1> PICK u \in Int : u = rows[r].upper - 1
  BY <1>1
<1>2. /\ rows'[lease'[w].row].lower = rows[r].lower
      /\ rows'[lease'[w].row].upper = rows[r].upper
      /\ lease'[w] = lease[w]
  BY DEF Keeps, SameShape
<1>3. \A i \in Int : Covered(i, u) => Covered(i, u)'
  BY DEF StaysCovered
<1>4. CoveredBelow(w)'
  BY <1>1, <1>2, <1>3 DEF LeaseCovered, CoveredBelow
<1>5. pc'[w] = "splitting" => lease'[w].lower < FloorOf(w)' /\ CoveredAbove(w)'
  BY <1>1, <1>2, <1>3 DEF LeaseCovered, CoveredAbove, Keeps
<1> QED
  BY <1>1, <1>2, <1>4, <1>5 DEF LeaseCovered

\* Steps that move no bounds of a row.
LEMMA SameBoundsKeepCover ==
  ASSUME Base, Base', CoverInv, StaysCovered, before' = before,
         \A r \in RowId : SameShape(r),
         \A w \in Worker : Holds(w)' => Keeps(w) \/ Matches(w)
  PROVE  CoverInv'
<1>1. Used' = Used
  BY DEF Used, SameShape
<1>2. ASSUME NEW q \in Used, NEW i \in Ids(q)'
      PROVE  Covered(i, rows[q].upper)' /\ rows'[q].upper = rows[q].upper
  <2>1. q \in RowId /\ SameShape(q)
    BY DEF Used
  <2>2. i \in Ids(q) /\ i \in Int /\ rows[q].upper \in Int
    BY <2>1, Bounds DEF Ids, SameShape
  <2>3. PICK u \in Int : u = rows[q].upper
    BY <2>2
  <2>4. Covered(i, u)
    BY <2>2, <2>3 DEF CoverInv, RowsCovered
  <2>5. Covered(i, u)'
    BY <2>2, <2>4 DEF StaysCovered
  <2> QED
    BY <2>1, <2>3, <2>5 DEF SameShape
<1>3. RowsCovered'
  BY <1>1, <1>2 DEF RowsCovered
<1>4. ASSUME NEW w \in Worker, Holds(w)'
      PROVE  LeaseCovered(w)'
  <2>1. CASE Keeps(w)
    <3>1. lease[w].row \in RowId
      BY <2>1 DEF Keeps, Base, LeasesOnRows, LeaseOnRow, Used
    <3> QED
      BY <2>1, <3>1, KeptIsCovered
  <2>2. CASE Matches(w)
    BY <2>2, MatchingIsCovered
  <2> QED
    BY <1>4, <2>1, <2>2
<1>5. ASSUME NEW i \in before' .. Latest - 1
      PROVE  Covered(i, Latest - 1)'
  <2>1. i \in Int /\ Latest - 1 \in Int /\ Covered(i, Latest - 1)
    BY Bounds DEF CoverInv
  <2> QED
    BY <2>1 DEF StaysCovered
<1> QED
  BY <1>3, <1>4, <1>5 DEF CoverInv

\* A report closes a row over its bounds: what the lease did not cover is
\* further down.
LEMMA FinishStaysCovered ==
  ASSUME Base, CoverInv, NEW w \in Worker, NEW s \in Closed \cup {"failed"}, Finish(w, s)
  PROVE  StaysCovered
<1> DEFINE r == lease[w].row
<1>1. /\ LeaseCovered(w) /\ r \in RowId
      /\ rows' = WhenFenced(w, Reported(rows[r], s))
      /\ crawled \subseteq crawled'
      /\ s \in Closed => LeasedIds(w) \subseteq crawled'
      /\ SameRows
  BY FinishIsMild DEF Finish, Holds, CoverInv, Base, LeasesOnRows, LeaseOnRow, Used, MildStep,
                      LooseStep, SameRows
<1>2. \A x \in Open : x \in RowId /\ SameShape(x) /\ (x # r => x \in Open')
  BY <1>1 DEF SameRows, Open, WhenFenced, Base, TypeOK
<1>3. CASE r \in Open => r \in Open'
  BY <1>1, <1>2, <1>3, OpenRowsCover
<1>4. CASE r \in Open /\ r \notin Open'
  <2>1. rows[r] \in Row /\ Fenced(w) /\ rows'[r] = Reported(rows[r], s)
    BY <1>1, <1>4 DEF WhenFenced, Base, TypeOK, Open
  <2>2. s \in Closed
    BY <1>1, <1>4, <2>1, ReportedRow DEF Open
  <2> SUFFICES ASSUME NEW i \in Int, NEW u \in Int, Covered(i, u)
               PROVE  Covered(i, u)'
    BY DEF StaysCovered
  <2>3. CASE i \in crawled
    BY <1>1, <2>3 DEF Covered
  <2>4. ASSUME NEW x \in Open, x # r, i \in Ids(x), rows[x].upper <= u
        PROVE  Covered(i, u)'
    BY <1>2, <2>4 DEF Covered, Ids, SameShape
  <2>5. CASE i \in Ids(r) /\ rows[r].upper <= u
    <3>1. i \in rows[r].lower .. rows[r].upper /\ rows[r].upper \in Int /\ rows[r].lower \in Int
          /\ lease[w].lower \in Int /\ lease[w].upper = rows[r].upper
      BY <1>1, <2>5, Bounds DEF Ids, LeaseCovered
    <3>2. CASE i >= lease[w].lower
      <4>1. i \in LeasedIds(w)
        BY <3>1, <3>2 DEF LeasedIds
      <4> QED
        BY <1>1, <2>2, <4>1 DEF Covered
    <3>3. CASE i < lease[w].lower
      <4>1. Covered(i, rows[r].upper - 1)
        BY <1>1, <3>1, <3>3 DEF LeaseCovered, CoveredBelow
      <4>2. CASE i \in crawled
        BY <2>3, <4>2
      <4>3. ASSUME NEW y \in Open, i \in Ids(y), rows[y].upper <= rows[r].upper - 1
            PROVE  Covered(i, u)'
        <5>1. rows[y].upper \in Int /\ y # r
          BY <3>1, <4>3, Bounds, <1>2
        <5>2. rows[y].upper <= u
          BY <2>5, <3>1, <4>3, <5>1
        <5> QED
          BY <2>4, <4>3, <5>1, <5>2
      <4> QED
        BY <4>1, <4>2, <4>3 DEF Covered
    <3> QED
      BY <3>1, <3>2, <3>3
  <2> QED
    BY <2>3, <2>4, <2>5 DEF Covered
<1> QED
  BY <1>3, <1>4

\* The ids a split takes out of the row are in rows that end further down.
LEMMA SplitCovers ==
  ASSUME Base, CoverInv, NEW w \in Worker, Divides(w),
         NEW i \in Int, rows[lease[w].row].lower <= i, i < FloorOf(w)
  PROVE  \/ i \in crawled
         \/ \E y \in Open' : i \in Ids(y)' /\ rows'[y].upper < rows[lease[w].row].upper
<1> DEFINE r == lease[w].row
           f == FloorOf(w)
<1>1. /\ LeaseCovered(w) /\ r \in RowId /\ f \in Int /\ f <= lease[w].upper
      /\ rows[r].upper \in Int /\ rows[r].lower \in Int /\ lease[w].lower \in Int
      /\ lease[w].upper = rows[r].upper
  BY Bounds DEF Divides, CoverInv, LeaseOnRow, LeaseCovered, Used
<1>2. ASSUME NEW y \in Open, i \in Ids(y), rows[y].upper < rows[r].upper
      PROVE  y \in Open' /\ i \in Ids(y)' /\ rows'[y].upper < rows[r].upper
  <2>1. y \in RowId /\ y # r /\ y \in Used
    BY <1>1, <1>2 DEF Open, Used
  <2>2. rows'[y] = rows[y]
    BY <2>1 DEF Divides
  <2> QED
    BY <1>2, <2>1, <2>2 DEF Open, Ids
<1>3. ASSUME NEW u \in Int, u < rows[r].upper, Covered(i, u)
      PROVE  \/ i \in crawled
             \/ \E y \in Open' : i \in Ids(y)' /\ rows'[y].upper < rows[r].upper
  <2>1. CASE i \in crawled
    BY <2>1
  <2>2. ASSUME NEW y \in Open, i \in Ids(y), rows[y].upper <= u
        PROVE  \E z \in Open' : i \in Ids(z)' /\ rows'[z].upper < rows[r].upper
    <3>1. rows[y].upper < rows[r].upper
      BY <1>1, <1>3, <2>2, Bounds DEF Open
    <3> QED
      BY <1>2, <2>2, <3>1
  <2> QED
    BY <1>3, <2>1, <2>2 DEF Covered
<1>4. CASE i < lease[w].lower
  <2>1. Covered(i, rows[r].upper - 1)
    BY <1>1, <1>4 DEF LeaseCovered, CoveredBelow
  <2> QED
    BY <1>1, <1>3, <2>1
<1>5. CASE lease[w].lower <= i /\ Kept(w)
  <2>1. PICK q \in Used : SameBounds(rows[q], BelowFloor(w))
    BY <1>5 DEF Kept
  <2>2. BelowFloor(w).lower = lease[w].lower /\ BelowFloor(w).upper = f - 1
    BY DEF BelowFloor, FailedRow, NoRow
  <2>3. rows[q].lower = lease[w].lower /\ rows[q].upper = f - 1
    BY <2>1, <2>2 DEF SameBounds
  <2>4. Covered(i, f - 1)
    BY <1>1, <1>5, <2>3 DEF Ids, CoverInv, RowsCovered
  <2> QED
    BY <1>1, <1>3, <2>4
<1>6. CASE lease[w].lower <= i /\ ~Kept(w)
  <2>1. PICK n \in RowId : /\ rows'[n].status = "failed" /\ rows'[n].lower = lease[w].lower
                           /\ rows'[n].upper = f - 1
    BY <1>6 DEF Divides
  <2>2. n \in Open' /\ i \in Ids(n)'
    BY <1>1, <1>6, <2>1 DEF Open, Ids
  <2> QED
    BY <1>1, <2>1, <2>2
<1> QED
  BY <1>1, <1>4, <1>5, <1>6

LEMMA SplitStaysCovered ==
  ASSUME Base, CoverInv, NEW w \in Worker, Divides(w)
  PROVE  StaysCovered
<1> DEFINE r == lease[w].row
<1> SUFFICES ASSUME NEW i \in Int, NEW u \in Int, Covered(i, u)
             PROVE  Covered(i, u)'
  BY DEF StaysCovered
<1>1. crawled' = crawled /\ r \in RowId /\ rows[r].upper \in Int /\ FloorOf(w) \in Int
  BY Bounds DEF Divides, Used
<1>2. CASE i \in crawled
  BY <1>1, <1>2 DEF Covered
<1>3. ASSUME NEW x \in Open, i \in Ids(x), rows[x].upper <= u, x # r
      PROVE  Covered(i, u)'
  <2>1. x \in RowId /\ x \in Used
    BY DEF Open, Used
  <2>2. rows'[x] = rows[x]
    BY <1>3, <2>1 DEF Divides
  <2> QED
    BY <1>3, <2>1, <2>2 DEF Covered, Open, Ids
<1>4. CASE i \in Ids(r) /\ rows[r].upper <= u /\ i >= FloorOf(w)
  <2>1. PICK q \in RowId : q = r
    BY <1>1
  <2>2. q \in Open' /\ i \in Ids(q)' /\ rows'[q].upper <= u
    BY <1>1, <1>4, <2>1 DEF Divides, Open, Ids
  <2> QED
    BY <2>2 DEF Covered
<1>5. CASE i \in Ids(r) /\ rows[r].upper <= u /\ i < FloorOf(w)
  <2>1. rows[r].lower <= i
    BY <1>1, <1>5, Bounds DEF Ids
  <2>2. CASE i \in crawled
    BY <1>2, <2>2
  <2>3. ASSUME NEW y \in Open', i \in Ids(y)', rows'[y].upper < rows[r].upper
        PROVE  Covered(i, u)'
    <3>1. rows'[y].upper \in Int
      BY DEF Divides, Open, Row
    <3> QED
      BY <1>1, <1>5, <2>3, <3>1 DEF Covered
  <2> QED
    BY <1>5, <2>1, <2>2, <2>3, SplitCovers
<1> QED
  BY <1>1, <1>2, <1>3, <1>4, <1>5 DEF Covered

LEMMA SplitKeepsCover ==
  ASSUME Base, Base', CoverInv, NEW w \in Worker, Split(w)
  PROVE  CoverInv'
<1> PICK r \in Used : r = lease[w].row
  BY SplitDividesRow DEF Divides
<1> PICK f \in Nat : f = FloorOf(w)
  BY SplitDividesRow DEF Divides
<1> PICK u \in Int : u = rows[r].upper
  BY Bounds DEF Used
<1>1. Divides(w) /\ LeaseCovered(w) /\ StaysCovered /\ r \in RowId
  BY SplitDividesRow, SplitStaysCovered DEF Divides, CoverInv, Used
<1>2. /\ rows'[r].lower = f /\ rows'[r].upper = u /\ lease[w].lower < f
      /\ rows[r].lower \in Int /\ lease[w].lower \in Int /\ u - 1 \in Int
  BY <1>1, Bounds DEF Divides, LeaseCovered
<1>3. ASSUME NEW i \in Int, rows[r].lower <= i, i < f
      PROVE  Covered(i, u - 1)'
  <2>1. CASE i \in crawled
    BY <1>1, <2>1 DEF Divides, Covered
  <2>2. ASSUME NEW y \in Open', i \in Ids(y)', rows'[y].upper < u
        PROVE  Covered(i, u - 1)'
    <3>1. rows'[y].upper \in Int
      BY <1>1 DEF Divides, Open, Row
    <3> QED
      BY <2>2, <3>1 DEF Covered
  <2> QED
    BY <1>1, <1>3, <2>1, <2>2, SplitCovers
<1>4. ASSUME NEW i \in Int, f <= i, i < rows[r].lower
      PROVE  Covered(i, u - 1)'
  <2>1. Covered(i, u - 1)
    BY <1>1, <1>2, <1>4 DEF LeaseCovered, CoveredAbove, Divides
  <2> QED
    BY <1>1, <1>2, <2>1 DEF StaysCovered
<1>5. ASSUME NEW q \in Used', NEW i \in Ids(q)'
      PROVE  Covered(i, rows[q].upper)'
  <2>0. q \in RowId /\ i \in Int /\ rows'[q].upper \in Int /\ rows'[q].lower \in Int
    BY Bounds DEF Ids, Used, Base, TypeOK, Row
  <2>1. CASE q \in Open'
    BY <1>5, <2>0, <2>1 DEF Covered
  <2>2. CASE q \notin Open'
    <3>1. q # r /\ rows'[q] = rows[q] /\ q \in Used /\ i \in Ids(q)
      BY <1>1, <1>5, <2>0, <2>2 DEF Divides, Open, Used, Ids
    <3>2. PICK t \in Int : t = rows[q].upper
      BY <2>0, <3>1
    <3>3. Covered(i, t)'
      BY <1>1, <2>0, <3>1, <3>2 DEF CoverInv, RowsCovered, StaysCovered
    <3> QED
      BY <3>1, <3>2, <3>3
  <2> QED
    BY <2>1, <2>2
<1>6. RowsCovered'
  BY <1>5 DEF RowsCovered
<1>7. LeaseCovered(w)'
  <2>1. lease'[w].row = r /\ lease'[w].lower = f /\ lease'[w].upper = u /\ pc'[w] = "working"
    BY <1>1, <1>2 DEF Divides, LeaseCovered
  <2> QED
    BY <1>2, <2>1 DEF LeaseCovered, CoveredBelow
<1>8. ASSUME NEW v \in Worker, v # w, Holds(v)'
      PROVE  LeaseCovered(v)'
  <2>1. /\ Keeps(v) /\ LeaseCovered(v) /\ lease[v].row \in RowId /\ lease[v].row \in Used
        /\ lease[v].lower \in Int
    BY <1>1, <1>8, Bounds DEF Divides, Keeps, Holds, FloorOf, CoverInv, Base, LeasesOnRows,
                             LeaseOnRow, Used
  <2>2. CASE lease[v].row # r
    <3>1. rows'[lease[v].row] = rows[lease[v].row]
      BY <1>1, <2>1, <2>2 DEF Divides
    <3> QED
      BY <1>1, <2>1, <3>1, KeptIsCovered DEF SameShape
  <2>3. CASE lease[v].row = r
    <3>1. /\ lease'[v] = lease[v] /\ pc'[v] = pc[v] /\ FloorOf(v)' = FloorOf(v)
          /\ lease[v].upper = u
      BY <2>1, <2>3 DEF Keeps, LeaseCovered
    <3>2. ASSUME NEW i \in f .. lease[v].lower - 1
          PROVE  Covered(i, u - 1)'
      <4>1. CASE i < rows[r].lower
        BY <1>4, <4>1
      <4>2. CASE i >= rows[r].lower
        <5>1. Covered(i, u - 1)
          BY <1>2, <2>1, <2>3, <4>2 DEF LeaseCovered, CoveredBelow
        <5> QED
          BY <1>1, <1>2, <5>1 DEF StaysCovered
      <4> QED
        BY <1>2, <4>1, <4>2
    <3>3. ASSUME NEW i \in lease[v].lower .. f - 1, pc[v] = "splitting"
          PROVE  Covered(i, u - 1)'
      <4>1. CASE i >= rows[r].lower
        BY <1>3, <4>1
      <4>2. CASE i < rows[r].lower
        <5>1. Covered(i, u - 1)
          BY <1>2, <2>1, <2>3, <3>3, <4>2 DEF LeaseCovered, CoveredAbove
        <5> QED
          BY <1>1, <1>2, <5>1 DEF StaysCovered
      <4> QED
        BY <1>2, <4>1, <4>2
    <3> QED
      BY <1>2, <2>1, <2>3, <3>1, <3>2, <3>3 DEF LeaseCovered, CoveredBelow, CoveredAbove
  <2> QED
    BY <2>2, <2>3
<1>9. ASSUME NEW i \in before' .. Latest - 1
      PROVE  Covered(i, Latest - 1)'
  BY <1>1, Bounds DEF CoverInv, StaysCovered, Divides
<1> QED
  BY <1>6, <1>7, <1>8, <1>9 DEF CoverInv

\* reuseRange gives out the bounds of the row, carveRange a new row.
LEMMA ReuseKeepsCover ==
  ASSUME Base, Base', CoverInv, NEW w \in Worker, Reuse(w)
  PROVE  CoverInv'
<1>1. PICK r \in Used : /\ Grants(w, r)
                        /\ rows'[r].lower = rows[r].lower /\ rows'[r].upper = rows[r].upper
  BY ReuseGrants
<1>2. \A q \in RowId : SameShape(q)
  BY <1>1 DEF Grants, SameShape, Used
<1>3. StaysCovered
  <2>1. \A q \in Open : q \in Open'
    BY <1>1 DEF Grants, Open
  <2> QED
    BY <1>1, <1>2, <2>1, OpenRowsCover DEF Grants, Open
<1>4. Matches(w)
  BY <1>1 DEF Grants, Matches, FloorOf
<1>5. \A v \in Worker : v # w /\ Holds(v)' => Keeps(v)
  BY <1>1 DEF Grants, Keeps, Holds, FloorOf
<1> QED
  BY <1>2, <1>3, <1>4, <1>5, SameBoundsKeepCover, ReuseGrants

LEMMA CarveKeepsCover ==
  ASSUME Base, Base', CoverInv, NEW w \in Worker, Carve(w)
  PROVE  CoverInv'
<1> PICK n \in RowId : n = nextRow
  BY CarveGrants DEF Grants
<1>1. /\ Grants(w, n) /\ n \notin Used
      /\ before' = rows'[n].lower /\ rows'[n].upper = before - 1
      /\ Used' = Used \cup {n}
  BY CarveGrants, GrantKeepsLeases
<1>2. n \in Open' /\ rows'[n].lower \in Int /\ rows'[n].upper \in Int
  BY <1>1 DEF Grants, Open, Row
<1>3. \A q \in Used : q # n /\ q \in RowId /\ rows'[q] = rows[q]
  BY <1>1 DEF Grants, Used
<1>4. StaysCovered
  <2>1. \A q \in Open : q \in Open' /\ SameShape(q)
    BY <1>3 DEF Open, Used, SameShape
  <2> QED
    BY <1>1, <2>1, OpenRowsCover DEF Grants
<1>5. ASSUME NEW q \in Used', NEW i \in Ids(q)'
      PROVE  Covered(i, rows[q].upper)'
  <2>1. CASE q = n
    BY <1>2, <1>5, <2>1 DEF Covered
  <2>2. CASE q \in Used
    <3>1. rows'[q] = rows[q] /\ i \in Ids(q) /\ i \in Int /\ rows[q].upper \in Int
      BY <1>3, <1>5, <2>2, Bounds DEF Ids
    <3>2. PICK t \in Int : t = rows[q].upper
      BY <3>1
    <3>3. Covered(i, t)'
      BY <1>4, <2>2, <3>1, <3>2 DEF CoverInv, RowsCovered, StaysCovered
    <3> QED
      BY <3>1, <3>2, <3>3
  <2> QED
    BY <1>1, <2>1, <2>2
<1>6. RowsCovered'
  BY <1>5 DEF RowsCovered
<1>7. LeaseCovered(w)'
  <2>1. Matches(w)
    BY <1>1 DEF Grants, Matches, FloorOf
  <2> QED
    BY <2>1, MatchingIsCovered
<1>8. ASSUME NEW v \in Worker, v # w, Holds(v)'
      PROVE  LeaseCovered(v)'
  <2>1. Keeps(v) /\ lease[v].row \in Used
    BY <1>1, <1>8 DEF Grants, Keeps, Holds, FloorOf, Base, LeasesOnRows, LeaseOnRow
  <2>2. lease[v].row \in RowId /\ SameShape(lease[v].row)
    BY <1>3, <2>1 DEF SameShape
  <2> QED
    BY <1>4, <2>1, <2>2, KeptIsCovered
<1>9. ASSUME NEW i \in before' .. Latest - 1
      PROVE  Covered(i, Latest - 1)'
  <2>0. before \in Int /\ Latest - 1 \in Int /\ i \in Int /\ before - 1 <= Latest - 1
    BY Bounds, ConstantsAssumption DEF Base, TypeOK
  <2>1. CASE i >= before
    BY <1>4, <2>0, <2>1 DEF CoverInv, StaysCovered
  <2>2. CASE i < before
    <3>1. i \in Ids(n)' /\ rows'[n].upper <= Latest - 1
      BY <1>1, <1>2, <1>9, <2>0, <2>2 DEF Ids
    <3> QED
      BY <1>2, <3>1 DEF Covered
  <2> QED
    BY <2>0, <2>1, <2>2
<1> QED
  BY <1>6, <1>7, <1>8, <1>9 DEF CoverInv

\* A loose step that closes no row.
LEMMA OpeningKeepsCover ==
  ASSUME Base, Base', CoverInv, LooseStep, Open \subseteq Open', crawled \subseteq crawled'
  PROVE  CoverInv'
<1>1. StaysCovered
  BY OpenRowsCover DEF LooseStep, Open
<1>2. \A v \in Worker : Holds(v)' => Keeps(v)
  BY DEF LooseStep, KeptOrDropped, Keeps, Holds, FloorOf
<1> QED
  BY <1>1, <1>2, SameBoundsKeepCover DEF LooseStep

\* The operator's commands change tokens, backoffs and one row's status.
LEMMA OperatorOpens ==
  ASSUME Base, OperatorNext
  PROVE  LooseStep /\ Open \subseteq Open' /\ crawled' = crawled
<1>1. UNCHANGED <<nextRow, before, life, floor, pc, lease, crawled>>
  BY DEF OperatorNext, ResetRange, ResetExhaustedRanges, RetryFailedRanges
<1>2. /\ rows' \in [RowId -> Row]
      /\ \A r \in RowId : SameShape(r)
      /\ Open \subseteq Open'
  <2>1. ASSUME NEW r \in RowId, ResetRange(r)
        PROVE  <1>2!1 /\ <1>2!2 /\ <1>2!3
    <3>1. rows[r] \in Row /\ TakenBack(rows[r]) \in Row
      BY TakenBackRow DEF Base, TypeOK
    <3>2. PICK row \in Row : row = TakenBack(rows[r])
      BY <3>1
    <3>3. rows' = [rows EXCEPT ![r] = [row EXCEPT !.attempts = 0]]
      BY <2>1, <3>2 DEF ResetRange
    <3>4. row.lower = rows[r].lower /\ row.upper = rows[r].upper /\ row.status = "failed"
      BY <3>1, <3>2, TakenBackRow
    <3> QED
      BY <2>1, <3>1, <3>3, <3>4 DEF ResetRange, Base, TypeOK, SameShape, Open, Row
  <2>2. CASE ResetExhaustedRanges
    BY <2>2 DEF ResetExhaustedRanges, Base, TypeOK, SameShape, Open, Row
  <2>3. CASE RetryFailedRanges
    <3>1. ASSUME NEW r \in RowId
          PROVE  /\ rows'[r] \in Row /\ SameShape(r)
                 /\ rows'[r].status = rows[r].status
      <4>1. rows[r] \in Row
        BY DEF Base, TypeOK
      <4>2. [rows[r] EXCEPT !.attempts = 0, !.ready = TRUE] \in Row
        BY <4>1, ConstantsAssumption DEF Row
      <4>3. rows'[r] \in {rows[r], [rows[r] EXCEPT !.attempts = 0, !.ready = TRUE]}
        BY <2>3 DEF RetryFailedRanges
      <4> QED
        BY <4>1, <4>2, <4>3 DEF SameShape, Row
    <3>2. rows' = [r \in RowId |-> rows'[r]]
      BY <2>3 DEF RetryFailedRanges
    <3> QED
      BY <3>1, <3>2 DEF Open
  <2> QED
    BY <2>1, <2>2, <2>3 DEF OperatorNext
<1> QED
  BY <1>1, <1>2 DEF LooseStep, Base, TypeOK, LiveNodes, LiveWorkers, KeptOrDropped, PcState

\* Of the mild steps only reports close a row.
LEMMA OnlyReportsClose ==
  ASSUME Base, Next \/ UNCHANGED vars
  PROVE  \/ Open \subseteq Open' /\ crawled' = crawled
         \/ \E w \in Worker : Reuse(w) \/ Carve(w) \/ Split(w)
         \/ \E w \in Worker, s \in Closed \cup {"failed"} : Finish(w, s)
<1>1. ASSUME UNCHANGED <<rows, crawled>>
      PROVE  Open \subseteq Open' /\ crawled' = crawled
  BY <1>1 DEF Open
<1>2. ASSUME NEW w \in Worker, NEW next \in {"idle", "resting"}, Release(w, next)
      PROVE  Open \subseteq Open' /\ crawled' = crawled
  <2>1. \A r \in RowId : rows[r] \in Row /\ GivenBack(rows[r]).status = "failed"
    BY GivenBackRow DEF Base, TypeOK
  <2> QED
    BY <1>2, <2>1 DEF Release, WhenFenced, Open, Base, TypeOK
<1>3. ASSUME NEW w \in Worker, Renew(w)
      PROVE  Open \subseteq Open' /\ crawled' = crawled
  BY <1>3 DEF Renew, Open, Base, TypeOK, Row
<1>4. ASSUME NEW n \in Node, rows' = Reclaimed(n)
      PROVE  Open \subseteq Open'
  <2>1. \A r \in RowId : rows[r] \in Row /\ TakenBack(rows[r]).status = "failed"
    BY TakenBackRow DEF Base, TypeOK
  <2> QED
    BY <1>4, <2>1 DEF Reclaimed, Open
<1>5. ASSUME NEW r \in RowId, Expire(r) \/ BackoffOver(r)
      PROVE  Open \subseteq Open' /\ crawled' = crawled
  BY <1>5 DEF Expire, BackoffOver, Open, Base, TypeOK, Row
<1>6. ASSUME NEW n \in Node, NodeNext(n)
      PROVE  Open \subseteq Open' /\ crawled' = crawled
  BY <1>1, <1>4, <1>6 DEF NodeNext, Start, Reregister, Crash, Shutdown, Sweep
<1>7. ASSUME NEW w \in Worker, NothingToReuse(w) \/ NoWork(w) \/ Wake(w) \/ Abandon(w)
      PROVE  Open \subseteq Open' /\ crawled' = crawled
  BY <1>1, <1>7 DEF NothingToReuse, NoWork, Wake, Abandon
<1> QED
  BY <1>1, <1>2, <1>3, <1>5, <1>6, <1>7
  DEF Next, WorkerNext, Acquire, Report, GiveBack, ClockNext, vars

LEMMA NextKeepsCover ==
  ASSUME Base, CoverInv, Next \/ OperatorNext \/ UNCHANGED vars
  PROVE  Base' /\ CoverInv'
<1>1. CASE OperatorNext
  BY <1>1, OperatorOpens, LooseStepKeepsBase, OpeningKeepsCover
<1>2. ASSUME NEW w \in Worker, Moves(w)
      PROVE  Base' /\ CoverInv'
  <2>1. Base'
    BY <1>2, MovesKeepBase
  <2>2. ASSUME NEW next \in {"idle", "resting"}, Release(w, next)
        PROVE  LooseStep /\ Open \subseteq Open' /\ crawled' = crawled
    <3>1. \A r \in RowId : rows[r] \in Row /\ GivenBack(rows[r]).status = "failed"
      BY GivenBackRow DEF Base, TypeOK
    <3> QED
      BY <2>2, <3>1, ReleaseIsLoose DEF Release, WhenFenced, Open, Base, TypeOK
  <2> QED
    BY <1>2, <2>1, <2>2, ReuseKeepsCover, CarveKeepsCover, SplitKeepsCover, OpeningKeepsCover
    DEF Moves
<1>3. CASE MildStep /\ (Next \/ UNCHANGED vars)
  <2>1. LooseStep /\ Base'
    BY <1>3, LooseStepKeepsBase DEF MildStep
  <2>2. CASE Open \subseteq Open' /\ crawled' = crawled
    BY <2>1, <2>2, OpeningKeepsCover
  <2>3. ASSUME NEW w \in Worker, NEW s \in Closed \cup {"failed"}, Finish(w, s)
        PROVE  CoverInv'
    <3>1. StaysCovered
      BY <2>3, FinishStaysCovered
    <3>2. \A v \in Worker : Holds(v)' => Keeps(v)
      BY <2>1 DEF LooseStep, KeptOrDropped, Keeps, Holds, FloorOf
    <3> QED
      BY <2>1, <3>1, <3>2, SameBoundsKeepCover DEF LooseStep
  <2>4. ASSUME NEW w \in Worker, Reuse(w) \/ Carve(w) \/ Split(w)
        PROVE  CoverInv'
    BY <1>2, <2>4 DEF Moves
  <2> QED
    BY <1>3, <2>1, <2>2, <2>3, <2>4, OnlyReportsClose
<1> QED
  BY <1>1, <1>2, <1>3, OtherStepsAreMild, StutterIsMild

LEMMA InitCovered == Init => Base /\ CoverInv
<1> SUFFICES ASSUME Init PROVE Base /\ CoverInv
  OBVIOUS
<1>1. Used = {}
  BY DEF Init, Used, NoRow
<1> QED
  BY <1>1, InitIInv, ConstantsAssumption
  DEF Init, IInv, CoverInv, RowsCovered, Holds

\* Every id the frontier has passed was crawled or is in a row some worker can
\* be given: no crash, reclaim, split, widening, reset or stale report loses
\* one, though nodes have different floors and the operator resets rows that
\* others still work on.
THEOREM NoIdIsLost == OperatedSpec => []NoLostIds
<1>1. Init => Base /\ CoverInv
  BY InitCovered
<1>2. Base /\ CoverInv /\ [Next \/ OperatorNext]_vars => (Base /\ CoverInv)'
  BY NextKeepsCover
<1>3. Base /\ CoverInv => NoLostIds
  BY DEF CoverInv, Covered, NoLostIds
<1> QED
  BY <1>1, <1>2, <1>3, PTL DEF OperatedSpec

=============================================================================
