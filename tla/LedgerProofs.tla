---------------------------- MODULE LedgerProofs ----------------------------
(***************************************************************************)
(* Proofs that crawl_ranges keeps true books, and so implements            *)
(* CrawlLedger, among nodes of one backfill floor (UniformFloors; with     *)
(* several floors a late split can widen a row another node shrank).       *)
(*                                                                         *)
(* The books alone are not inductive.  FinishRange closes a row over the   *)
(* bounds in the table while the worker crawled the bounds in its lease,   *)
(* and splitAtFloor rewrites a row that others may still hold leases on:   *)
(* what carries them is that a lease being worked on has the row's bounds, *)
(* and that one about to be split has either the row's bounds or those it  *)
(* had before another worker finished the same split (LeaseMatches).       *)
(***************************************************************************)
EXTENDS RangeLeaseProofs, MCRangeLease

\* Nodes that are up have the same floor.
SameFloors ==
    \A m, n \in Node : life[m] # "down" /\ life[n] # "down" => floor[m] = floor[n]

\* No row reaches below the frontier, and none is empty.
RowsAbove == \A r \in Used : before <= rows[r].lower /\ rows[r].lower <= rows[r].upper

\* Another worker split the row as w means to.
SplitDone(w) ==
    /\ rows[lease[w].row].lower = FloorOf(w)
    /\ Kept(w)

LeaseMatches(w) ==
    /\ lease[w].upper = rows[lease[w].row].upper
    /\ before <= lease[w].lower
    /\ pc[w] = "working" => /\ lease[w].lower = rows[lease[w].row].lower
                            /\ FloorOf(w) <= lease[w].lower
    /\ pc[w] = "splitting" => /\ lease[w].lower < FloorOf(w)
                              /\ rows[lease[w].row].lower = lease[w].lower \/ SplitDone(w)

LeasesMatch == \A w \in Worker : Holds(w) => LeaseMatches(w)

LedgerInv == SameFloors /\ RowsAbove /\ RowsDisjoint /\ LeasesMatch /\ NoLostIds /\ ClosedMeansCrawled

-----------------------------------------------------------------------------
(* Most steps move no bounds, open or close no row, and hand out at most a  *)
(* lease that matches its row.                                              *)

SameBoundsAndSide(r) ==
    /\ rows'[r].lower = rows[r].lower
    /\ rows'[r].upper = rows[r].upper
    /\ rows'[r].status = "none" <=> rows[r].status = "none"
    /\ rows'[r].status \in Closed <=> rows[r].status \in Closed

HeldOn(w) ==
    /\ Holds(w)
    /\ pc'[w] = pc[w] /\ lease'[w] = lease[w] /\ FloorOf(w)' = FloorOf(w)

QuietStep ==
    /\ \A r \in RowId : SameBoundsAndSide(r)
    /\ before' = before
    /\ crawled \subseteq crawled'
    /\ SameFloors'
    /\ \A w \in Worker : Holds(w)' => HeldOn(w) \/ LeaseMatches(w)'

\* An open row is one in use that is not closed.
LEMMA OpenIsUsedNotClosed ==
  ASSUME TypeOK
  PROVE  Open = {r \in Used : rows[r].status \notin Closed}
<1>1. \A r \in RowId : rows[r].status \in Status
  BY DEF TypeOK, Row
<1> QED
  BY <1>1 DEF Open, Used, Closed, Status

\* A quiet step owes what was owed.
LEMMA QuietOwesTheSame ==
  ASSUME Base, Base', QuietStep
  PROVE  /\ Used' = Used /\ Open' = Open
         /\ \A r \in RowId : Ids(r)' = Ids(r)
         /\ Owed' = Owed
<1>1. Used' = Used
  BY DEF QuietStep, SameBoundsAndSide, Used
<1>2. Open' = Open
  <2>1. Open = {r \in Used : rows[r].status \notin Closed}
    BY OpenIsUsedNotClosed DEF Base
  <2>2. Open' = {r \in Used' : rows'[r].status \notin Closed}
    <3>1. \A r \in RowId : rows'[r].status \in Status
      BY DEF Base, TypeOK, Row
    <3> QED
      BY <3>1 DEF Open, Used, Closed, Status
  <2>3. \A r \in Used : rows'[r].status \in Closed <=> rows[r].status \in Closed
    BY DEF QuietStep, SameBoundsAndSide, Used
  <2> QED
    BY <1>1, <2>1, <2>2, <2>3
<1>3. \A r \in RowId : Ids(r)' = Ids(r)
  BY DEF QuietStep, SameBoundsAndSide, Ids
<1>4. Open \subseteq RowId
  BY DEF Open
<1>5. Owed' = Owed
  BY <1>2, <1>3, <1>4 DEF Owed
<1> QED
  BY <1>1, <1>2, <1>3, <1>5

\* A lease still matches while no row in use moves its bounds.
LEMMA HeldLeaseMatches ==
  ASSUME Base, LedgerInv, before' = before,
         \A r \in RowId : /\ rows'[r].lower = rows[r].lower
                          /\ rows'[r].upper = rows[r].upper
                          /\ rows'[r].status = "none" <=> rows[r].status = "none",
         NEW w \in Worker, HeldOn(w)
  PROVE  LeaseMatches(w)'
<1>1. LeaseMatches(w) /\ lease[w].row \in RowId
  BY DEF HeldOn, LedgerInv, LeasesMatch, Base, LeasesOnRows, LeaseOnRow, Used
<1>2. BelowFloor(w)' = BelowFloor(w)
  BY DEF HeldOn, BelowFloor
<1>3. Used' = Used /\ Used \subseteq RowId
  BY DEF Used
<1>4. Kept(w)' <=> Kept(w)
  BY <1>2, <1>3 DEF Kept, SameBounds
<1> QED
  BY <1>1, <1>4 DEF HeldOn, LeaseMatches, SplitDone

\* A quiet step keeps the books true.
LEMMA QuietStepKeepsLedgerInv ==
  ASSUME Base, Base', LedgerInv, QuietStep
  PROVE  LedgerInv'
<1>1. /\ Used' = Used /\ Open' = Open
      /\ \A r \in RowId : Ids(r)' = Ids(r)
      /\ Used \subseteq RowId /\ Open \subseteq RowId
  BY QuietOwesTheSame DEF Used, Open
<1>2. SameFloors'
  BY DEF QuietStep
<1>3. RowsAbove'
  BY <1>1 DEF QuietStep, SameBoundsAndSide, LedgerInv, RowsAbove
<1>4. RowsDisjoint'
  BY <1>1 DEF LedgerInv, RowsDisjoint
<1>5. NoLostIds'
  BY <1>1 DEF QuietStep, LedgerInv, NoLostIds
<1>6. ClosedMeansCrawled'
  BY <1>1 DEF QuietStep, SameBoundsAndSide, LedgerInv, ClosedMeansCrawled
<1>7. LeasesMatch'
  BY HeldLeaseMatches DEF QuietStep, SameBoundsAndSide, LeasesMatch
<1> QED
  BY <1>2, <1>3, <1>4, <1>5, <1>6, <1>7 DEF LedgerInv

-----------------------------------------------------------------------------
(* The quiet steps. *)

\* reclaim moves no bounds and reopens nothing.
LEMMA ReclaimSides ==
  ASSUME Base, NEW n \in Node, rows' = Reclaimed(n)
  PROVE  \A r \in RowId : SameBoundsAndSide(r)
<1> SUFFICES ASSUME NEW r \in RowId PROVE SameBoundsAndSide(r)
  OBVIOUS
<1>1. rows[r] \in Row
  BY DEF Base, TypeOK
<1>2. CASE rows[r].status = "running" /\ rows[r].node = n
  BY <1>1, <1>2, TakenBackRow DEF Reclaimed, SameBoundsAndSide, Closed
<1>3. CASE ~(rows[r].status = "running" /\ rows[r].node = n)
  BY <1>3 DEF Reclaimed, SameBoundsAndSide
<1> QED
  BY <1>2, <1>3

\* An update behind the fence closes a row or leaves it open.
LEMMA FencedUpdateSides ==
  ASSUME Base, NEW w \in Worker, NEW new,
         new.lower = rows[lease[w].row].lower,
         new.upper = rows[lease[w].row].upper,
         new.status = "failed",
         rows' = WhenFenced(w, new)
  PROVE  \A r \in RowId : SameBoundsAndSide(r)
  BY DEF Base, TypeOK, WhenFenced, Fenced, SameBoundsAndSide, Closed

\* Whoever still holds a lease after its worker let go held it before.
LEMMA DropHolds ==
  ASSUME Base, LedgerInv, NEW w \in Worker, Drop(w), UNCHANGED floor
  PROVE  \A v \in Worker : Holds(v)' => HeldOn(v)
  BY DEF Base, TypeOK, Drop, Holds, HeldOn, FloorOf

\* The lease of a row found by reuseRange is the row as it stands.
LEMMA ReuseIsQuiet ==
  ASSUME Base, LedgerInv, NEW w \in Worker, Reuse(w)
  PROVE  QuietStep
<1>1. PICK r \in RowId :
        /\ Candidate(r, FloorOf(w))
        /\ rows' = [rows EXCEPT ![r] = Leased(rows[r], NodeOf[w])]
        /\ lease' = [lease EXCEPT ![w] = [row |-> r, token |-> rows[r].attempts + 1,
                                          lower |-> rows[r].lower, upper |-> rows[r].upper]]
        /\ pc' = [pc EXCEPT ![w] = IF rows[r].lower < FloorOf(w) THEN "splitting" ELSE "working"]
  BY DEF Reuse
<1>2. UNCHANGED <<nextRow, before, life, floor, crawled>>
  BY DEF Reuse
<1>3. rows[r] \in Row /\ NodeOf[w] \in Node
  BY ConstantsAssumption DEF Base, TypeOK
<1>4. rows[r].lower \in Nat /\ FloorOf(w) \in Nat
  <2>1. floor[NodeOf[w]] \in Floors \cup {0}
    BY <1>3 DEF Base, TypeOK
  <2>2. FloorOf(w) \in Nat
    <3>1. Floors \cup {0} \subseteq Nat
      BY ConstantsAssumption
    <3> QED
      BY <2>1, <3>1 DEF FloorOf
  <2>3. rows[r].lower \in Nat
    BY <1>3 DEF Row
  <2> QED
    BY <2>2, <2>3
<1>5. /\ rows' \in [RowId -> Row]
      /\ \A q \in RowId : q # r => rows'[q] = rows[q]
      /\ rows'[r].status = "running"
      /\ rows'[r].lower = rows[r].lower
      /\ rows'[r].upper = rows[r].upper
  BY <1>1, <1>3, LeasedRow DEF Base, TypeOK
<1>6. rows[r].status \notin Closed /\ r \in Used
  BY <1>1 DEF Candidate, Closed, Used
<1>7. \A q \in RowId : SameBoundsAndSide(q)
  BY <1>5, <1>6 DEF SameBoundsAndSide, Used, Closed
<1>8. LeaseMatches(w)'
  <2>1. /\ lease'[w].row = r
        /\ lease'[w].lower = rows[r].lower /\ lease'[w].upper = rows[r].upper
        /\ pc'[w] = IF rows[r].lower < FloorOf(w) THEN "splitting" ELSE "working"
        /\ FloorOf(w)' = FloorOf(w)
    BY <1>1, <1>2 DEF Base, TypeOK, FloorOf
  <2>2. before <= rows[r].lower
    BY <1>6 DEF LedgerInv, RowsAbove
  <2> QED
    BY <1>2, <1>3, <1>4, <1>5, <2>1, <2>2 DEF LeaseMatches
<1>9. \A v \in Worker \ {w} : Holds(v)' => HeldOn(v)
  BY <1>1, <1>2 DEF Base, TypeOK, Holds, HeldOn, FloorOf
<1> QED
  BY <1>2, <1>7, <1>8, <1>9 DEF QuietStep, LedgerInv, SameFloors

\* A report that closes no row: a failed one, or one that comes too late.
LEMMA FinishIsQuiet ==
  ASSUME Base, LedgerInv, NEW w \in Worker, NEW s \in Closed \cup {"failed"}, Finish(w, s),
         s = "failed" \/ ~Fenced(w)
  PROVE  QuietStep
<1>1. lease[w].row \in RowId /\ rows[lease[w].row] \in Row
  BY DEF Finish, Holds, Base, LeasesOnRows, LeaseOnRow, Used, TypeOK
<1>2. \A r \in RowId : SameBoundsAndSide(r)
  <2>1. CASE ~Fenced(w)
    BY <2>1 DEF Finish, WhenFenced, SameBoundsAndSide
  <2>2. CASE s = "failed"
    BY <1>1, <2>2, ReportedRow, FencedUpdateSides DEF Finish
  <2> QED
    BY <2>1, <2>2
<1>3. crawled \subseteq crawled'
  BY DEF Finish
<1> QED
  BY <1>2, <1>3, DropHolds DEF Finish, QuietStep, LedgerInv, SameFloors

\* Giving a row back opens it again.
LEMMA ReleaseIsQuiet ==
  ASSUME Base, LedgerInv, NEW w \in Worker, NEW next \in {"idle", "resting"}, Release(w, next)
  PROVE  QuietStep
<1>1. lease[w].row \in RowId /\ rows[lease[w].row] \in Row
  BY DEF Release, Holds, Base, LeasesOnRows, LeaseOnRow, Used, TypeOK
<1>2. \A r \in RowId : SameBoundsAndSide(r)
  BY <1>1, GivenBackRow, FencedUpdateSides DEF Release
<1>3. \A v \in Worker : Holds(v)' => HeldOn(v)
  BY DEF Release, Base, TypeOK, Holds, HeldOn, FloorOf
<1> QED
  BY <1>2, <1>3 DEF Release, QuietStep, LedgerInv, SameFloors

\* Letting go without a statement, and turning from reuse to carving.
LEMMA LettingGoIsQuiet ==
  ASSUME Base, LedgerInv, NEW w \in Worker,
         Wake(w) \/ Abandon(w) \/ NoWork(w) \/ NothingToReuse(w)
  PROVE  QuietStep
<1>1. UNCHANGED <<rows, nextRow, before, life, floor, crawled>>
  BY DEF Wake, Abandon, NoWork, NothingToReuse
<1>2. \A v \in Worker : Holds(v)' => HeldOn(v)
  <2>1. CASE Drop(w)
    BY <1>1, <2>1, DropHolds
  <2>2. CASE NothingToReuse(w)
    BY <1>1, <2>2 DEF NothingToReuse, Base, TypeOK, Holds, HeldOn, FloorOf
  <2> QED
    BY <2>1, <2>2 DEF Wake, Abandon, NoWork
<1> QED
  BY <1>1, <1>2 DEF QuietStep, SameBoundsAndSide, LedgerInv, SameFloors

\* Clock flags: a renewal, an expiry, the end of a backoff.
LEMMA FlagIsQuiet ==
  ASSUME Base, LedgerInv, NEW r \in RowId, NEW b \in BOOLEAN,
         NEW new \in {[rows[r] EXCEPT !.stale = b], [rows[r] EXCEPT !.ready = b]},
         rows' = [rows EXCEPT ![r] = new],
         UNCHANGED <<nextRow, before, life, floor, pc, lease, crawled>>
  PROVE  QuietStep
<1>1. rows[r] \in Row
  BY DEF Base, TypeOK
<1>2. new.status = rows[r].status /\ new.lower = rows[r].lower /\ new.upper = rows[r].upper
  BY <1>1, FlaggedRow, ZenonT(60)
<1>3. \A q \in RowId : SameBoundsAndSide(q)
  BY <1>2 DEF Base, TypeOK, SameBoundsAndSide
<1>4. \A v \in Worker : Holds(v)' => HeldOn(v)
  BY DEF Holds, HeldOn, FloorOf
<1> QED
  BY <1>3, <1>4 DEF QuietStep, LedgerInv, SameFloors

LEMMA RenewIsQuiet ==
  ASSUME Base, LedgerInv, NEW w \in Worker, Renew(w)
  PROVE  QuietStep
<1>1. lease[w].row \in RowId
  BY DEF Renew, Holds, Base, LeasesOnRows, LeaseOnRow, Used
<1>2. rows' = [rows EXCEPT ![lease[w].row] = [rows[lease[w].row] EXCEPT !.stale = FALSE]]
  BY DEF Renew
<1> QED
  BY <1>1, <1>2, FlagIsQuiet DEF Renew

LEMMA ClockIsQuiet ==
  ASSUME Base, LedgerInv, NEW r \in RowId, Expire(r) \/ BackoffOver(r)
  PROVE  QuietStep
<1>1. CASE Expire(r)
  <2>1. rows' = [rows EXCEPT ![r] = [rows[r] EXCEPT !.stale = TRUE]]
    BY <1>1 DEF Expire
  <2> QED
    BY <1>1, <2>1, FlagIsQuiet DEF Expire
<1>2. CASE BackoffOver(r)
  <2>1. rows' = [rows EXCEPT ![r] = [rows[r] EXCEPT !.ready = TRUE]]
    BY <1>2 DEF BackoffOver
  <2> QED
    BY <1>2, <2>1, FlagIsQuiet DEF BackoffOver
<1> QED
  BY <1>1, <1>2

\* A node that starts has the floor of those that are up.
LEMMA StartIsQuiet ==
  ASSUME UniformFloors, Base, LedgerInv, NEW n \in Node, Start(n)
  PROVE  QuietStep
<1>1. PICK f \in Floors :
        /\ \A m \in Node : life[m] # "down" => floor[m] = f
        /\ floor' = [floor EXCEPT ![n] = f]
  BY DEF Start
<1>2. life[n] = "down" /\ life' = [life EXCEPT ![n] = "starting"] /\ rows' = Reclaimed(n)
      /\ UNCHANGED <<nextRow, before, pc, lease, crawled>>
  BY DEF Start
<1>3. SameFloors'
  BY <1>1, <1>2 DEF SameFloors, Base, TypeOK
<1>4. \A v \in Worker : Holds(v) => NodeOf[v] # n
  BY <1>2 DEF Base, LiveWorkers, Holds
<1>5. \A v \in Worker : Holds(v)' => HeldOn(v)
  BY <1>1, <1>2, <1>4, ConstantsAssumption DEF Holds, HeldOn, FloorOf, Base, TypeOK
<1> QED
  BY <1>2, <1>3, <1>5, ReclaimSides DEF QuietStep

LEMMA NodeIsQuiet ==
  ASSUME Base, LedgerInv, NEW n \in Node, Reregister(n) \/ Sweep(n) \/ Crash(n) \/ Shutdown(n)
  PROVE  QuietStep
<1>1. \A r \in RowId : SameBoundsAndSide(r)
  <2>1. CASE UNCHANGED rows
    BY <2>1 DEF SameBoundsAndSide
  <2> QED
    BY <2>1, ReclaimSides DEF Reregister, Sweep, Crash, Shutdown
<1>2. before' = before /\ crawled' = crawled
  BY DEF Reregister, Sweep, Crash, Shutdown
<1>3. CASE Reregister(n) \/ Sweep(n)
  <2>1. UNCHANGED <<floor, pc, lease>> /\ \A m \in Node : life'[m] # "down" => life[m] # "down"
    BY <1>3 DEF Reregister, Sweep, Base, TypeOK
  <2>2. SameFloors'
    BY <2>1 DEF LedgerInv, SameFloors
  <2>3. \A v \in Worker : Holds(v)' => HeldOn(v)
    BY <2>1 DEF Holds, HeldOn, FloorOf
  <2> QED
    BY <1>1, <1>2, <2>2, <2>3 DEF QuietStep
<1>4. CASE Crash(n) \/ Shutdown(n)
  <2>1. /\ life' = [life EXCEPT ![n] = "down"]
        /\ floor' = [floor EXCEPT ![n] = 0]
        /\ StopWorkers(n)
    BY <1>4 DEF Crash, Shutdown
  <2>2. SameFloors'
    BY <2>1 DEF LedgerInv, SameFloors, Base, TypeOK
  <2>3. \A v \in Worker : Holds(v)' => HeldOn(v)
    BY <2>1, ConstantsAssumption DEF StopWorkers, Holds, HeldOn, FloorOf, Base, TypeOK
  <2> QED
    BY <1>1, <1>2, <2>2, <2>3 DEF QuietStep
<1> QED
  BY <1>3, <1>4

LEMMA StutterIsQuiet ==
  ASSUME Base, LedgerInv, UNCHANGED vars
  PROVE  QuietStep
<1>1. UNCHANGED <<rows, nextRow, before, life, floor, pc, lease, crawled>>
  BY DEF vars
<1>2. \A v \in Worker : Holds(v)' => HeldOn(v)
  BY <1>1 DEF Holds, HeldOn, FloorOf
<1> QED
  BY <1>1, <1>2 DEF QuietStep, SameBoundsAndSide, LedgerInv, SameFloors

-----------------------------------------------------------------------------
(* The steps that move bounds or close rows. *)

\* An accepted report closes the row over exactly the ids that were crawled.
LEMMA AcceptedReport ==
  ASSUME Base, Base', LedgerInv, NEW w \in Worker, NEW s \in Closed, Finish(w, s), Fenced(w)
  PROVE  /\ LedgerInv'
         /\ LeasedIds(w) \subseteq before .. Latest - 1
         /\ Owed' = Owed \ LeasedIds(w)
<1> DEFINE r == lease[w].row
<1>1. /\ Holds(w) /\ LeaseOnRow(w) /\ LeaseMatches(w) /\ pc[w] = "working"
      /\ r \in Used /\ r \in RowId /\ rows[r] \in Row /\ lease[w] \in Lease
  BY DEF Finish, Holds, Base, LeasesOnRows, LeaseOnRow, LedgerInv, LeasesMatch, Used, TypeOK
<1>2. LeasedIds(w) = Ids(r)
  BY <1>1 DEF LeaseMatches, LeasedIds, Ids
<1>3. LeasedIds(w) \subseteq before .. Latest - 1
  <2>1. before <= lease[w].lower /\ lease[w].upper <= Latest - 1
    BY <1>1 DEF LeaseMatches, LeaseOnRow
  <2>2. before \in Int /\ Latest \in Int /\ lease[w].lower \in Int /\ lease[w].upper \in Int
    BY <1>1, ConstantsAssumption DEF Base, TypeOK, Lease
  <2> QED
    BY <2>1, <2>2 DEF LeasedIds
<1>4. /\ \A q \in RowId \ {r} : rows'[q] = rows[q]
      /\ rows'[r].lower = rows[r].lower
      /\ rows'[r].upper = rows[r].upper
      /\ rows'[r].status = s
      /\ rows[r].status = "running"
  <2>1. rows' = [rows EXCEPT ![r] = Reported(rows[r], s)] /\ rows[r].status = "running"
    BY DEF Finish, WhenFenced, Fenced
  <2> QED
    BY <1>1, <2>1, ReportedRow DEF Base, TypeOK
<1>5. UNCHANGED <<before, life, floor>> /\ crawled' = crawled \cup Ids(r)
  BY <1>2 DEF Finish
<1>6. /\ Used' = Used /\ Open' = Open \ {r} /\ r \in Open
      /\ Used \subseteq RowId /\ Open \subseteq Used
      /\ \A q \in RowId : Ids(q)' = Ids(q)
  BY <1>1, <1>4 DEF Used, Open, Ids, Closed
<1>7. SameFloors'
  BY <1>5 DEF LedgerInv, SameFloors
<1>8. RowsAbove'
  BY <1>1, <1>4, <1>5, <1>6 DEF LedgerInv, RowsAbove
<1>9. RowsDisjoint'
  BY <1>6 DEF LedgerInv, RowsDisjoint
<1>10. NoLostIds'
  BY <1>5, <1>6 DEF LedgerInv, NoLostIds
<1>11. ClosedMeansCrawled'
  BY <1>4, <1>5, <1>6 DEF LedgerInv, ClosedMeansCrawled
<1>12. \A v \in Worker : Holds(v)' => HeldOn(v)
  BY <1>5, DropHolds DEF Finish
<1>13. LeasesMatch'
  <2>1. \A q \in RowId : /\ rows'[q].lower = rows[q].lower
                         /\ rows'[q].upper = rows[q].upper
                         /\ rows'[q].status = "none" <=> rows[q].status = "none"
    BY <1>4 DEF Closed
  <2> QED
    BY <1>5, <1>12, <2>1, HeldLeaseMatches DEF LeasesMatch
<1>14. Owed' = Owed \ Ids(r)
  <2>1. \A q \in Open \ {r} : Ids(q) \cap Ids(r) = {}
    BY <1>6 DEF LedgerInv, RowsDisjoint
  <2>2. Owed' = UNION {Ids(q) : q \in Open \ {r}}
    BY <1>6 DEF Owed
  <2> QED
    BY <1>6, <2>1, <2>2 DEF Owed
<1> QED
  BY <1>2, <1>3, <1>7, <1>8, <1>9, <1>10, <1>11, <1>13, <1>14 DEF LedgerInv

\* carveRange hands out the ids just below the frontier, to one open row.
LEMMA CarvedRange ==
  ASSUME Base, Base', LedgerInv, NEW w \in Worker, Carve(w)
  PROVE  /\ LedgerInv'
         /\ before' \in 1 .. before - 1
         /\ Owed' = Owed \cup before' .. before - 1
<1>1. PICK size \in Sizes :
        LET upper == before - 1
            lower == CarveLower(upper, size, FloorOf(w))
        IN
        /\ rows' = [rows EXCEPT ![nextRow] =
                      [NoRow EXCEPT !.lower = lower, !.upper = upper, !.status = "running",
                                    !.attempts = 1, !.node = NodeOf[w]]]
        /\ before' = lower
        /\ lease' = [lease EXCEPT ![w] = [row |-> nextRow, token |-> 1,
                                          lower |-> lower, upper |-> upper]]
  BY DEF Carve
<1> DEFINE new == [NoRow EXCEPT !.lower = before', !.upper = before - 1, !.status = "running",
                               !.attempts = 1, !.node = NodeOf[w]]
<1>2. /\ pc[w] = "carving" /\ before - 1 >= FloorOf(w) /\ nextRow \in RowId
      /\ pc' = [pc EXCEPT ![w] = "working"]
      /\ UNCHANGED <<life, floor, crawled>>
  BY ConstantsAssumption DEF Carve, Base, TypeOK, RowId
<1> PICK k \in RowId : k = nextRow
  BY <1>2
<1>3. FloorOf(w) \in Nat \ {0} /\ size \in Nat \ {0} /\ before \in Nat
  <2>1. life[NodeOf[w]] # "down" /\ NodeOf[w] \in Node
    BY <1>2, ConstantsAssumption DEF Base, LiveWorkers
  <2>2. FloorOf(w) \in Nat \ {0}
    BY <2>1, ConstantsAssumption DEF Base, LiveNodes, FloorOf
  <2>3. before \in Nat
    BY ConstantsAssumption DEF Base, TypeOK
  <2> QED
    BY <2>2, <2>3, ConstantsAssumption
<1>4. /\ before' = CarveLower(before - 1, size, FloorOf(w))
      /\ before' \in Nat /\ FloorOf(w) <= before' /\ before' <= before - 1 /\ 1 <= before'
  BY <1>1, <1>2, <1>3 DEF CarveLower
<1>5. /\ rows' \in [RowId -> Row]
      /\ \A q \in RowId \ {k} : rows'[q] = rows[q]
      /\ rows'[k].lower = before' /\ rows'[k].upper = before - 1
      /\ rows'[k].status = "running"
  <2>1. rows' = [rows EXCEPT ![k] = new]
    BY <1>1, <1>4
  <2>2. new.lower = before' /\ new.upper = before - 1 /\ new.status = "running"
    BY DEF NoRow
  <2> HIDE DEF new
  <2> QED
    BY <2>1, <2>2 DEF Base, TypeOK
<1>6. /\ k \notin Used /\ Used' = Used \cup {k} /\ Open' = Open \cup {k}
      /\ Used \subseteq RowId /\ Open \subseteq Used
  BY <1>2, <1>5 DEF Used, Open, Base, FreshRows, TypeOK, RowId
<1>7. /\ \A q \in Used : Ids(q)' = Ids(q)
      /\ Ids(k)' = before' .. before - 1
  BY <1>5, <1>6 DEF Ids
<1>8. \A q \in Used : Ids(q) \subseteq before .. Latest - 1
  <2> SUFFICES ASSUME NEW q \in Used PROVE Ids(q) \subseteq before .. Latest - 1
    OBVIOUS
  <2>1. rows[q].lower \in Nat /\ rows[q].upper \in Nat /\ Latest \in Nat
    BY <1>6, ConstantsAssumption DEF Base, TypeOK, Row
  <2>2. before <= rows[q].lower /\ rows[q].upper <= Latest - 1
    BY DEF Base, RowsInRange, LedgerInv, RowsAbove
  <2> QED
    BY <1>3, <2>1, <2>2 DEF Ids
<1>9. SameFloors'
  BY <1>2 DEF LedgerInv, SameFloors
<1>10. RowsAbove'
  <2> SUFFICES ASSUME NEW q \in Used'
               PROVE  before' <= rows'[q].lower /\ rows'[q].lower <= rows'[q].upper
    BY DEF RowsAbove
  <2>1. CASE q = k
    BY <1>3, <1>4, <1>5, <2>1
  <2>2. CASE q \in Used
    <3>1. before <= rows[q].lower /\ rows[q].lower <= rows[q].upper
      BY <2>2 DEF LedgerInv, RowsAbove
    <3>2. rows[q].lower \in Nat /\ rows'[q] = rows[q]
      BY <1>5, <1>6, <2>2 DEF Base, TypeOK, Row
    <3> QED
      BY <1>3, <1>4, <3>1, <3>2
  <2> QED
    BY <1>6, <2>1, <2>2
<1>11. RowsDisjoint'
  <2>1. \A q \in Used : Ids(q) \cap before' .. before - 1 = {}
    BY <1>3, <1>4, <1>8, ConstantsAssumption
  <2>2. \A q, p \in Used : q # p => Ids(q) \cap Ids(p) = {}
    BY DEF LedgerInv, RowsDisjoint
  <2> SUFFICES ASSUME NEW q \in Used', NEW p \in Used', q # p
               PROVE  Ids(q)' \cap Ids(p)' = {}
    BY DEF RowsDisjoint
  <2>3. CASE q \in Used /\ p \in Used
    BY <1>7, <2>2, <2>3
  <2>4. CASE q \in Used /\ p = k
    BY <1>7, <2>1, <2>4
  <2>5. CASE q = k /\ p \in Used
    BY <1>7, <2>1, <2>5
  <2> QED
    BY <1>6, <2>3, <2>4, <2>5
<1>12. NoLostIds'
  <2> SUFFICES ASSUME NEW i \in before' .. Latest - 1
               PROVE  i \in crawled' \/ \E q \in Open' : i \in Ids(q)'
    BY DEF NoLostIds
  <2>1. CASE i < before
    BY <1>3, <1>4, <1>6, <1>7, <2>1
  <2>2. CASE i >= before
    <3>1. i \in before .. Latest - 1
      BY <1>3, <1>4, <2>2, ConstantsAssumption
    <3> QED
      BY <1>2, <1>6, <1>7, <3>1 DEF LedgerInv, NoLostIds
  <2> QED
    BY <1>3, <1>4, <2>1, <2>2
<1>13. ClosedMeansCrawled'
  BY <1>2, <1>5 DEF LedgerInv, ClosedMeansCrawled, Closed, Ids
<1>14. LeaseMatches(w)'
  <2>1. /\ lease'[w].row = k /\ lease'[w].lower = before' /\ lease'[w].upper = before - 1
        /\ pc'[w] = "working" /\ FloorOf(w)' = FloorOf(w)
    BY <1>1, <1>2 DEF Base, TypeOK, FloorOf
  <2> QED
    BY <1>4, <1>5, <2>1 DEF LeaseMatches
<1>15. ASSUME NEW v \in Worker \ {w}, Holds(v)'
       PROVE  LeaseMatches(v)'
  <2>1. HeldOn(v)
    BY <1>1, <1>2, <1>15 DEF Base, TypeOK, Holds, HeldOn, FloorOf
  <2>2. LeaseMatches(v) /\ lease[v].row \in Used /\ lease[v] \in Lease
    BY <2>1 DEF HeldOn, LedgerInv, LeasesMatch, Base, LeasesOnRows, LeaseOnRow, TypeOK
  <2>3. \A q \in Used : rows'[q] = rows[q] /\ q \in Used'
    BY <1>5, <1>6
  <2>4. Kept(v) => Kept(v)'
    BY <2>1, <2>3 DEF Kept, BelowFloor, HeldOn, SameBounds
  <2>5. before' <= lease[v].lower
    BY <1>3, <1>4, <2>2 DEF LeaseMatches, Lease
  <2> QED
    BY <2>1, <2>2, <2>3, <2>4, <2>5 DEF LeaseMatches, SplitDone, HeldOn
<1>16. LeasesMatch'
  BY <1>14, <1>15 DEF LeasesMatch
<1>17. Owed' = Owed \cup before' .. before - 1
  BY <1>6, <1>7 DEF Owed
<1>18. before' \in 1 .. before - 1
  BY <1>3, <1>4
<1> QED
  BY <1>9, <1>10, <1>11, <1>12, <1>13, <1>16, <1>17, <1>18 DEF LedgerInv

\* The rest of a range whose split someone finished already is nothing new.
LEMMA SplitAgainIsQuiet ==
  ASSUME Base, LedgerInv, NEW w \in Worker, Split(w), SplitDone(w)
  PROVE  QuietStep
<1> DEFINE r == lease[w].row
<1>1. /\ LeaseMatches(w) /\ r \in Used /\ r \in RowId /\ rows[r] \in Row /\ lease[w] \in Lease
  BY DEF Split, Holds, Base, LeasesOnRows, LeaseOnRow, LedgerInv, LeasesMatch, Used, TypeOK
<1>2. rows' = rows
  BY <1>1 DEF Split, SplitDone, KeepBelow, RaiseLower, Base, TypeOK, Row
<1>3. /\ UNCHANGED <<before, life, floor, crawled>>
      /\ lease' = [lease EXCEPT ![w].lower = FloorOf(w)]
      /\ pc' = [pc EXCEPT ![w] = "working"]
  BY DEF Split
<1>4. \A v \in Worker \ {w} : Holds(v)' => HeldOn(v)
  BY <1>3 DEF Base, TypeOK, Holds, HeldOn, FloorOf
<1>5. LeaseMatches(w)'
  <2>1. /\ lease'[w].row = r /\ lease'[w].lower = FloorOf(w) /\ lease'[w].upper = lease[w].upper
        /\ pc'[w] = "working" /\ FloorOf(w)' = FloorOf(w)
    BY <1>1, <1>3 DEF Base, TypeOK, FloorOf, Lease
  <2>2. rows[r].lower = FloorOf(w) /\ rows[r].lower \in Nat
    BY <1>1 DEF SplitDone, Row
  <2>3. before <= rows[r].lower
    BY <1>1 DEF LedgerInv, RowsAbove
  <2>4. lease[w].upper = rows[r].upper
    BY <1>1 DEF LeaseMatches
  <2> QED
    BY <1>2, <1>3, <2>1, <2>2, <2>3, <2>4 DEF LeaseMatches
<1> QED
  BY <1>2, <1>3, <1>4, <1>5 DEF QuietStep, SameBoundsAndSide, LedgerInv, SameFloors

\* splitAtFloor divides the ids of one open row among two.  Nobody works on
\* the undivided row: every live node has the same floor, and works above it.
LEMMA SplitDivides ==
  ASSUME Base, Base', LedgerInv, NEW w \in Worker, Split(w), ~SplitDone(w)
  PROVE  LedgerInv' /\ Owed' = Owed
<1> PICK r \in Used : r = lease[w].row
  BY DEF Split, Holds, Base, LeasesOnRows, LeaseOnRow
<1> DEFINE F == FloorOf(w)
           L == lease[w].lower
           U == rows[r].upper
<1>1. /\ Holds(w) /\ LeaseOnRow(w) /\ LeaseMatches(w) /\ pc[w] = "splitting"
      /\ rows[r].status = "running"
      /\ r \in RowId /\ rows[r] \in Row /\ lease[w] \in Lease
      /\ life[NodeOf[w]] # "down" /\ NodeOf[w] \in Node
  BY ConstantsAssumption
  DEF Split, StillRunning, Holds, Base, LeasesOnRows, LiveWorkers, LedgerInv, LeasesMatch, Used, TypeOK
<1>2. rows[r].lower = L /\ lease[w].upper = U /\ L < F /\ F <= U /\ before <= L
  BY <1>1 DEF LeaseMatches, LeaseOnRow
<1>3. L \in Nat /\ U \in Nat /\ F \in Nat /\ before \in Nat
  <2>1. L \in Nat /\ U \in Nat
    BY <1>1 DEF Lease, Row
  <2>2. floor[NodeOf[w]] \in Floors /\ Floors \subseteq Nat
    BY <1>1, ConstantsAssumption DEF Base, LiveNodes
  <2>3. before \in Nat
    BY ConstantsAssumption DEF Base, TypeOK
  <2> QED
    BY <2>1, <2>2, <2>3 DEF FloorOf
<1>4. BelowFloor(w) \in Row /\ BelowFloor(w).status = "failed"
      /\ BelowFloor(w).lower = L /\ BelowFloor(w).upper = F - 1
  BY <1>2, <1>3, FailedRowType DEF BelowFloor
<1>5. \A q, p \in Used : q # p => Ids(q) \cap Ids(p) = {}
  BY DEF LedgerInv, RowsDisjoint
<1>6. ~Kept(w)
  <2> SUFFICES ASSUME NEW q \in Used, rows[q].lower = L, rows[q].upper = F - 1
               PROVE  FALSE
    BY <1>4 DEF Kept, SameBounds
  <2>1. q # r
    BY <1>2, <1>3
  <2>2. L \in Ids(q) /\ L \in Ids(r)
    BY <1>2, <1>3 DEF Ids
  <2> QED
    BY <1>5, <2>1, <2>2
<1>7. nextRow <= MaxRows
  BY <1>6 DEF Split
<1> PICK k \in RowId : k = nextRow
  BY <1>7 DEF Base, TypeOK, RowId
<1>8. k \notin Used /\ k # r
  BY DEF Base, FreshRows, Used, RowId
<1>9. /\ rows' \in [RowId -> Row]
      /\ \A q \in RowId \ {r, k} : rows'[q] = rows[q]
      /\ rows'[k] = BelowFloor(w)
      /\ rows'[r].lower = F /\ rows'[r].upper = U /\ rows'[r].status = "running"
  <2>1. rows' = [[rows EXCEPT ![k] = BelowFloor(w)] EXCEPT ![r] = RaiseLower(rows[r], F)]
    BY <1>6 DEF Split, KeepBelow
  <2>2. /\ RaiseLower(rows[r], F).lower = F
        /\ RaiseLower(rows[r], F).upper = U
        /\ RaiseLower(rows[r], F).status = "running"
    BY <1>1 DEF RaiseLower, Row
  <2>3. rows' \in [RowId -> Row] /\ rows \in [RowId -> Row]
    BY DEF Base, TypeOK
  <2> QED
    BY <1>1, <1>8, <2>1, <2>2, <2>3
<1>10. /\ Used' = Used \cup {k} /\ Open' = Open \cup {k} /\ r \in Open
       /\ Used \subseteq RowId /\ Open \subseteq Used
  BY <1>1, <1>4, <1>8, <1>9 DEF Used, Open
<1>11. /\ \A q \in Used \ {r} : Ids(q)' = Ids(q)
       /\ Ids(k)' = L .. F - 1
       /\ Ids(r)' = F .. U
       /\ Ids(r) = L .. U
  BY <1>1, <1>2, <1>4, <1>8, <1>9, <1>10 DEF Ids
<1>12. Ids(k)' \cup Ids(r)' = Ids(r) /\ Ids(k)' \cap Ids(r)' = {}
  BY <1>2, <1>3, <1>11
<1>13. /\ UNCHANGED <<before, life, floor, crawled>>
       /\ lease' = [lease EXCEPT ![w].lower = F]
       /\ pc' = [pc EXCEPT ![w] = "working"]
  BY DEF Split
<1>14. SameFloors'
  BY <1>13 DEF LedgerInv, SameFloors
<1>15. RowsAbove'
  <2>1. \A q \in Used : before <= rows[q].lower /\ rows[q].lower <= rows[q].upper
    BY DEF LedgerInv, RowsAbove
  <2>2. \A q \in Used \ {r} : rows'[q] = rows[q]
    BY <1>8, <1>9, <1>10
  <2>3. before <= F /\ F <= U /\ before <= L /\ L <= F - 1
    BY <1>2, <1>3
  <2> QED
    BY <1>4, <1>9, <1>10, <1>13, <2>1, <2>2, <2>3 DEF RowsAbove
<1>16. RowsDisjoint'
  <2> SUFFICES ASSUME NEW q \in Used', NEW p \in Used', q # p
               PROVE  Ids(q)' \cap Ids(p)' = {}
    BY DEF RowsDisjoint
  <2>1. \A x \in Used \ {r} : Ids(x)' \cap Ids(r) = {}
    BY <1>5, <1>11
  <2>2. CASE q \in Used \ {r} /\ p \in Used \ {r}
    BY <1>5, <1>11, <2>2
  <2>3. CASE q \in {r, k} /\ p \in Used \ {r}
    BY <1>12, <2>1, <2>3
  <2>4. CASE q \in Used \ {r} /\ p \in {r, k}
    BY <1>12, <2>1, <2>4
  <2>5. CASE q \in {r, k} /\ p \in {r, k}
    BY <1>12, <2>5
  <2> QED
    BY <1>10, <2>2, <2>3, <2>4, <2>5
<1>17. NoLostIds'
  <2> SUFFICES ASSUME NEW i \in before .. Latest - 1
               PROVE  i \in crawled \/ \E q \in Open' : i \in Ids(q)'
    BY <1>13 DEF NoLostIds
  <2>1. CASE i \in crawled
    BY <2>1
  <2>2. CASE \E q \in Open \ {r} : i \in Ids(q)
    BY <1>10, <1>11, <2>2
  <2>3. CASE i \in Ids(r)
    BY <1>10, <1>12, <2>3
  <2> QED
    BY <2>1, <2>2, <2>3 DEF LedgerInv, NoLostIds
<1>18. ClosedMeansCrawled'
  <2> SUFFICES ASSUME NEW q \in RowId, rows'[q].status \in Closed
               PROVE  Ids(q)' \subseteq crawled
    BY <1>13 DEF ClosedMeansCrawled
  <2>1. q # r /\ q # k
    BY <1>4, <1>9 DEF Closed
  <2> QED
    BY <1>9, <2>1 DEF LedgerInv, ClosedMeansCrawled, Ids
<1>19. LeaseMatches(w)'
  <2>1. /\ lease'[w].row = r /\ lease'[w].lower = F /\ lease'[w].upper = U
        /\ pc'[w] = "working" /\ FloorOf(w)' = F
    BY <1>1, <1>2, <1>13 DEF Base, TypeOK, FloorOf, Lease
  <2> QED
    BY <1>2, <1>3, <1>9, <1>13, <2>1 DEF LeaseMatches
<1>20. ASSUME NEW v \in Worker \ {w}, Holds(v)'
       PROVE  LeaseMatches(v)'
  <2>1. HeldOn(v)
    BY <1>13, <1>20 DEF Base, TypeOK, Holds, HeldOn, FloorOf
  <2>2. LeaseMatches(v) /\ lease[v].row \in Used /\ lease[v] \in Lease
    BY <2>1 DEF HeldOn, LedgerInv, LeasesMatch, Base, LeasesOnRows, LeaseOnRow, TypeOK
  <2>3. FloorOf(v) = F
    <3>1. life[NodeOf[v]] # "down" /\ NodeOf[v] \in Node
      BY <2>1, ConstantsAssumption DEF HeldOn, Holds, Base, LiveWorkers
    <3> QED
      BY <1>1, <3>1 DEF LedgerInv, SameFloors, FloorOf
  <2>4. BelowFloor(v)' = BelowFloor(v)
    BY <2>1 DEF HeldOn, BelowFloor
  <2>5. BelowFloor(v).upper = F - 1
    <3>1. lease[v].lower \in Nat
      BY <2>2 DEF Lease
    <3>2. CASE F = 0
      BY <1>2, <1>3, <3>2
    <3>3. CASE F # 0
      BY <1>3, <2>3, <3>1, <3>3, FailedRowType DEF BelowFloor
    <3> QED
      BY <3>2, <3>3
  <2>6. Kept(v) => Kept(v)'
    <3> SUFFICES ASSUME NEW q \in Used, SameBounds(rows[q], BelowFloor(v))
                 PROVE  Kept(v)'
      BY DEF Kept
    <3>1. q # r
      BY <1>2, <1>3, <2>5 DEF SameBounds
    <3>2. rows'[q] = rows[q] /\ q \in Used'
      BY <1>8, <1>9, <1>10, <3>1
    <3> QED
      BY <2>4, <3>2 DEF Kept, SameBounds
  <2>7. CASE lease[v].row # r
    <3>1. rows'[lease[v].row] = rows[lease[v].row]
      BY <1>8, <1>9, <1>10, <2>2, <2>7
    <3> QED
      BY <1>13, <2>1, <2>2, <2>6, <3>1 DEF LeaseMatches, SplitDone, HeldOn
  <2>8. CASE lease[v].row = r
    <3>1. pc[v] = "splitting"
      BY <1>2, <1>3, <2>1, <2>2, <2>3, <2>8 DEF LeaseMatches, HeldOn, Holds
    <3>2. lease[v].lower = L
      BY <1>2, <1>3, <2>2, <2>3, <2>8, <3>1 DEF LeaseMatches, SplitDone
    <3>3. BelowFloor(v) = BelowFloor(w)
      BY <2>3, <3>2 DEF BelowFloor
    <3>4. Kept(v)'
      BY <1>9, <1>10, <2>4, <3>3 DEF Kept, SameBounds
    <3>5. /\ lease'[v] = lease[v] /\ pc'[v] = "splitting" /\ FloorOf(v)' = F
          /\ lease[v].upper = U /\ lease[v].row = r
      BY <1>2, <2>1, <2>2, <2>3, <2>8, <3>1 DEF LeaseMatches, HeldOn
    <3>6. SplitDone(v)'
      BY <1>9, <3>4, <3>5 DEF SplitDone
    <3> QED
      BY <1>2, <1>9, <1>13, <3>2, <3>5, <3>6 DEF LeaseMatches
  <2> QED
    BY <2>7, <2>8
<1>21. LeasesMatch'
  BY <1>19, <1>20 DEF LeasesMatch
<1>22. Owed' = Owed
  <2>1. ASSUME NEW i
        PROVE  (\E q \in Open' : i \in Ids(q)') <=> (\E q \in Open : i \in Ids(q))
    <3>1. \A q \in Open \ {r} : Ids(q)' = Ids(q)
      BY <1>10, <1>11
    <3>2. i \in Ids(r) <=> i \in Ids(k)' \/ i \in Ids(r)'
      BY <1>12
    <3> QED
      BY <1>10, <3>1, <3>2
  <2> QED
    BY <2>1 DEF Owed
<1> QED
  BY <1>14, <1>15, <1>16, <1>17, <1>18, <1>21, <1>22 DEF LedgerInv

-----------------------------------------------------------------------------
(* Every step. *)

\* A step is quiet, or it carves, divides a row or closes one.
LEMMA NextIsQuietOrNot ==
  ASSUME UniformFloors, Base, LedgerInv, [Next]_vars
  PROVE  \/ QuietStep /\ UNCHANGED crawled
         \/ \E w \in Worker, s \in Closed \cup {"failed"} : Finish(w, s)
         \/ \E w \in Worker : Carve(w)
         \/ \E w \in Worker : Split(w) /\ ~SplitDone(w)
<1>1. ASSUME NEW w \in Worker, Acquire(w)
      PROVE  (QuietStep /\ UNCHANGED crawled) \/ Carve(w) \/ (Split(w) /\ ~SplitDone(w))
  <2>1. CASE Reuse(w) \/ NothingToReuse(w) \/ NoWork(w)
    BY <2>1, ReuseIsQuiet, LettingGoIsQuiet DEF Reuse, NothingToReuse, NoWork
  <2>2. CASE Split(w) /\ SplitDone(w)
    <3>1. QuietStep
      BY <2>2, SplitAgainIsQuiet
    <3> QED
      BY <2>2, <3>1 DEF Split
  <2> QED
    BY <1>1, <2>1, <2>2 DEF Acquire
<1>2. ASSUME NEW w \in Worker, Report(w)
      PROVE  (QuietStep /\ UNCHANGED crawled) \/ \E s \in Closed \cup {"failed"} : Finish(w, s)
  BY <1>2, LettingGoIsQuiet DEF Report, Wake
<1>3. ASSUME NEW w \in Worker, GiveBack(w) \/ Renew(w) \/ Abandon(w)
      PROVE  QuietStep /\ UNCHANGED crawled
  BY <1>3, ReleaseIsQuiet, RenewIsQuiet, LettingGoIsQuiet DEF GiveBack, Release, Renew, Abandon
<1>4. ASSUME NEW n \in Node, NodeNext(n)
      PROVE  QuietStep /\ UNCHANGED crawled
  BY <1>4, StartIsQuiet, NodeIsQuiet DEF NodeNext, Start, Reregister, Sweep, Crash, Shutdown
<1>5. ASSUME ClockNext
      PROVE  QuietStep /\ UNCHANGED crawled
  BY <1>5, ClockIsQuiet DEF ClockNext, Expire, BackoffOver
<1>6. ASSUME UNCHANGED vars
      PROVE  QuietStep /\ UNCHANGED crawled
  BY <1>6, StutterIsQuiet DEF vars
<1> QED
  BY <1>1, <1>2, <1>3, <1>4, <1>5, <1>6 DEF Next, WorkerNext

\* Before the first range there are no books to be wrong.
LEMMA InitLedgerInv == Init => LedgerInv /\ Owed = {}
<1> SUFFICES ASSUME Init PROVE LedgerInv /\ Owed = {}
  OBVIOUS
<1>1. Used = {} /\ Open = {}
  BY DEF Init, Used, Open, NoRow
<1>2. SameFloors /\ RowsAbove /\ RowsDisjoint
  BY <1>1 DEF Init, SameFloors, RowsAbove, RowsDisjoint
<1>3. LeasesMatch
  BY DEF Init, LeasesMatch, Holds
<1>4. NoLostIds
  BY ConstantsAssumption DEF Init, NoLostIds
<1>5. ClosedMeansCrawled
  BY DEF Init, ClosedMeansCrawled, NoRow, Closed
<1> QED
  BY <1>1, <1>2, <1>3, <1>4, <1>5 DEF LedgerInv, Owed

\* Every step keeps the books true and is a step of the ledger, or none.
LEMMA LedgerStep ==
  ASSUME UniformFloors, Base, Base', LedgerInv, [Next]_vars
  PROVE  LedgerInv' /\ [Ledger!Next]_(Ledger!vars)
<1>1. CASE QuietStep /\ UNCHANGED crawled
  BY <1>1, QuietStepKeepsLedgerInv, QuietOwesTheSame DEF QuietStep, Ledger!vars
<1>2. ASSUME NEW w \in Worker, NEW s \in Closed \cup {"failed"}, Finish(w, s)
      PROVE  LedgerInv' /\ [Ledger!Next]_(Ledger!vars)
  <2>1. before' = before /\ crawled' = IF s \in Closed THEN crawled \cup LeasedIds(w) ELSE crawled
    BY <1>2 DEF Finish
  <2>2. LeasedIds(w) \subseteq before .. Latest - 1
    <3>1. LeaseOnRow(w) /\ LeaseMatches(w) /\ lease[w] \in Lease
      BY <1>2 DEF Finish, Holds, Base, LeasesOnRows, LedgerInv, LeasesMatch, TypeOK
    <3>2. before <= lease[w].lower /\ lease[w].upper <= Latest - 1
      BY <3>1 DEF LeaseMatches, LeaseOnRow
    <3>3. before \in Int /\ Latest \in Int
      BY ConstantsAssumption DEF Base, TypeOK
    <3>4. lease[w].lower \in Int /\ lease[w].upper \in Int
      BY <3>1 DEF Lease
    <3> QED
      BY <3>2, <3>3, <3>4 DEF LeasedIds
  <2>3. CASE s \in Closed /\ Fenced(w)
    <3>1. LedgerInv' /\ Owed' = Owed \ LeasedIds(w)
      BY <1>2, <2>3, AcceptedReport
    <3> QED
      BY <2>1, <2>2, <2>3, <3>1 DEF Ledger!Next, Ledger!Report
  <2>4. CASE ~(s \in Closed /\ Fenced(w))
    <3>1. LedgerInv' /\ Owed' = Owed
      BY <1>2, <2>4, FinishIsQuiet, QuietStepKeepsLedgerInv, QuietOwesTheSame
    <3> QED
      BY <2>1, <2>2, <3>1 DEF Ledger!Next, Ledger!Report, Ledger!vars
  <2> QED
    BY <2>3, <2>4
<1>3. ASSUME NEW w \in Worker, Carve(w)
      PROVE  LedgerInv' /\ [Ledger!Next]_(Ledger!vars)
  BY <1>3, CarvedRange DEF Carve, Ledger!Next, Ledger!HandOut
<1>4. ASSUME NEW w \in Worker, Split(w), ~SplitDone(w)
      PROVE  LedgerInv' /\ [Ledger!Next]_(Ledger!vars)
  BY <1>4, SplitDivides DEF Split, Ledger!vars
<1> QED
  BY <1>1, <1>2, <1>3, <1>4, NextIsQuietOrNot

\* The books' invariant, in every behaviour of nodes of one floor.
THEOREM LedgerInvHolds ==
  ASSUME UniformFloors
  PROVE  Spec => []LedgerInv
<1>1. Init => LedgerInv
  BY InitLedgerInv
<1>2. Base /\ Base' /\ LedgerInv /\ [Next]_vars => LedgerInv'
  BY LedgerStep
<1> QED
  BY <1>1, <1>2, BaseHolds, PTL DEF Spec

\* Whatever crashes, reclaims, splits, releases and late reports do to the
\* leases of crawl_ranges, among nodes of one backfill floor no id below the
\* first latest post is lost, covered by two rows, or closed uncrawled.
THEOREM TableAccountsForIds ==
  ASSUME UniformFloors
  PROVE  Spec => []IdsAreAccountedFor
<1>1. LedgerInv => IdsAreAccountedFor
  BY DEF LedgerInv, IdsAreAccountedFor
<1> QED
  BY <1>1, LedgerInvHolds, PTL

\* The lease protocol implements the crawl ledger: an id is handed out once,
\* from the newest down, and stays owed until a report of it is accepted.
THEOREM LeasesKeepLedger ==
  ASSUME UniformFloors
  PROVE  Spec => KeepsLedger
<1>1. Init => Ledger!Init
  BY InitLedgerInv DEF Init, Ledger!Init
<1>2. Base /\ Base' /\ LedgerInv /\ [Next]_vars => [Ledger!Next]_(Ledger!vars)
  BY LedgerStep
<1> QED
  BY <1>1, <1>2, BaseHolds, LedgerInvHolds, PTL DEF Spec, KeepsLedger, Ledger!Spec

-----------------------------------------------------------------------------
(* The operated fleet.  NoIdIsLost is about RangeLease; in MCRangeLease the  *)
(* fleet whose operator resets rows is an instance of it, of two nodes with  *)
(* floors of their own, so what the theorem says of it is an instance, too.  *)

OperatedProofs == INSTANCE RangeLeaseProofs WITH
    Worker <- {v1, v2}, NodeOf <- OperatedNodeOf,
    Latest <- 3, Floors <- OperatedFloors, UniformFloors <- FALSE, Sizes <- OperatedSizes,
    rows <- oRows, nextRow <- oNextRow, before <- oBefore, life <- oLife,
    floor <- oFloor, pc <- oPc, lease <- oLease, crawled <- oCrawled

\* The workers of the operated fleet run on nodes.
LEMMA OperatedNodes == OperatedNodeOf \in [{v1, v2} -> Node]
BY OperatedAssumption DEF OperatedNodeOf

\* Both instances of RangeLease say the same of the rows a statement writes,
LEMMA SameStatements ==
    /\ Operated!NoRow = OperatedProofs!NoRow /\ Operated!NoLease = OperatedProofs!NoLease
    /\ Operated!RowId = OperatedProofs!RowId /\ Operated!Closed = OperatedProofs!Closed
    /\ \A row : Operated!TakenBack(row) = OperatedProofs!TakenBack(row)
BY DEF Operated!NoRow, OperatedProofs!NoRow, Operated!NoLease, OperatedProofs!NoLease,
       Operated!RowId, OperatedProofs!RowId, Operated!Closed, OperatedProofs!Closed,
       Operated!TakenBack, OperatedProofs!TakenBack

\* and so of every step, an operator's too.
LEMMA SameActions ==
    /\ Operated!Next = OperatedProofs!Next
    /\ Operated!OperatorNext = OperatedProofs!OperatorNext
<1>1. ASSUME NEW w \in {v1, v2} PROVE Operated!Reuse(w) = OperatedProofs!Reuse(w)
  BY SameStatements
  DEF Operated!Reuse, OperatedProofs!Reuse, Operated!Candidate, OperatedProofs!Candidate,
      Operated!FloorOf, OperatedProofs!FloorOf, Operated!Precedes, OperatedProofs!Precedes,
      Operated!Leased, OperatedProofs!Leased
<1>2. ASSUME NEW w \in {v1, v2} PROVE Operated!NothingToReuse(w) = OperatedProofs!NothingToReuse(w)
  BY SameStatements
  DEF Operated!NothingToReuse, OperatedProofs!NothingToReuse, Operated!Candidate,
      OperatedProofs!Candidate, Operated!FloorOf, OperatedProofs!FloorOf
<1>3. ASSUME NEW w \in {v1, v2} PROVE Operated!Split(w) = OperatedProofs!Split(w)
  BY SameStatements
  DEF Operated!Split, OperatedProofs!Split, Operated!RaiseLower, OperatedProofs!RaiseLower,
      Operated!FloorOf, OperatedProofs!FloorOf, Operated!StillRunning,
      OperatedProofs!StillRunning, Operated!Used, OperatedProofs!Used, Operated!SameBounds,
      OperatedProofs!SameBounds, Operated!Kept, OperatedProofs!Kept, Operated!BelowFloor,
      OperatedProofs!BelowFloor, Operated!FailedRow, OperatedProofs!FailedRow,
      Operated!KeepBelow, OperatedProofs!KeepBelow
<1>4. ASSUME NEW w \in {v1, v2} PROVE Operated!Carve(w) = OperatedProofs!Carve(w)
  BY SameStatements
  DEF Operated!Carve, OperatedProofs!Carve, Operated!FloorOf, OperatedProofs!FloorOf,
      Operated!CarveLower, OperatedProofs!CarveLower
<1>5. ASSUME NEW w \in {v1, v2} PROVE Operated!NoWork(w) = OperatedProofs!NoWork(w)
  BY SameStatements
  DEF Operated!NoWork, OperatedProofs!NoWork, Operated!FloorOf, OperatedProofs!FloorOf,
      Operated!Drop, OperatedProofs!Drop
<1>6. ASSUME NEW w \in {v1, v2} PROVE Operated!Report(w) = OperatedProofs!Report(w)
  BY SameStatements
  DEF Operated!Report, OperatedProofs!Report, Operated!Finish, OperatedProofs!Finish,
      Operated!WhenFenced, OperatedProofs!WhenFenced, Operated!Fenced, OperatedProofs!Fenced,
      Operated!Reported, OperatedProofs!Reported, Operated!LeasedIds, OperatedProofs!LeasedIds,
      Operated!Wake, OperatedProofs!Wake, Operated!Drop, OperatedProofs!Drop
<1>7. ASSUME NEW w \in {v1, v2} PROVE Operated!GiveBack(w) = OperatedProofs!GiveBack(w)
  BY SameStatements
  DEF Operated!GiveBack, OperatedProofs!GiveBack, Operated!Release, OperatedProofs!Release,
      Operated!WhenFenced, OperatedProofs!WhenFenced, Operated!Fenced, OperatedProofs!Fenced,
      Operated!GivenBack, OperatedProofs!GivenBack
<1>8. ASSUME NEW w \in {v1, v2} PROVE Operated!Renew(w) = OperatedProofs!Renew(w)
  BY SameStatements
  DEF Operated!Renew, OperatedProofs!Renew, Operated!Fenced, OperatedProofs!Fenced
<1>9. ASSUME NEW w \in {v1, v2} PROVE Operated!Abandon(w) = OperatedProofs!Abandon(w)
  BY SameStatements
  DEF Operated!Abandon, OperatedProofs!Abandon, Operated!Drop, OperatedProofs!Drop
<1>10. ASSUME NEW n \in Node PROVE Operated!NodeNext(n) = OperatedProofs!NodeNext(n)
  BY SameStatements
  DEF Operated!NodeNext, OperatedProofs!NodeNext, Operated!Start, OperatedProofs!Start,
      Operated!Reregister, OperatedProofs!Reregister, Operated!Crash, OperatedProofs!Crash,
      Operated!Shutdown, OperatedProofs!Shutdown, Operated!Sweep, OperatedProofs!Sweep,
      Operated!Reclaimed, OperatedProofs!Reclaimed, Operated!StopWorkers,
      OperatedProofs!StopWorkers
<1>11. Operated!ClockNext = OperatedProofs!ClockNext
  BY SameStatements
  DEF Operated!ClockNext, OperatedProofs!ClockNext, Operated!Expire, OperatedProofs!Expire,
      Operated!BackoffOver, OperatedProofs!BackoffOver
<1>12. Operated!OperatorNext = OperatedProofs!OperatorNext
  BY SameStatements
  DEF Operated!OperatorNext, OperatedProofs!OperatorNext, Operated!ResetRange,
      OperatedProofs!ResetRange, Operated!ResetExhaustedRanges,
      OperatedProofs!ResetExhaustedRanges, Operated!RetryFailedRanges,
      OperatedProofs!RetryFailedRanges
<1>13. Operated!Next = OperatedProofs!Next
  BY <1>1, <1>2, <1>3, <1>4, <1>5, <1>6, <1>7, <1>8, <1>9, <1>10, <1>11
  DEF Operated!Next, OperatedProofs!Next, Operated!WorkerNext, OperatedProofs!WorkerNext,
      Operated!Acquire, OperatedProofs!Acquire
<1> QED
  BY <1>12, <1>13

\* The ids the frontier has passed are crawled or in a row some worker can be
\* given, though nodes have floors of their own and an operator sets attempts
\* back; and of two nodes that hold leases on a row one at most is accepted.
THEOREM OperatedFenceHolds == LeasesSpec => []OperatedFence
<1>1. LeasesInit => OperatedProofs!Init
  BY SameStatements DEF LeasesInit, Operated!Init, OperatedProofs!Init
<1>2. [LeasesNext]_<<part, vars, operated>>
        => [OperatedProofs!Next \/ OperatedProofs!OperatorNext]_(OperatedProofs!vars)
  BY SameActions DEF LeasesNext, operated, OperatedProofs!vars
<1>3. LeasesSpec => OperatedProofs!OperatedSpec
  BY <1>1, <1>2, PTL DEF LeasesSpec, OperatedProofs!OperatedSpec
<1>4. OperatedProofs!OperatedSpec => []OperatedProofs!NoLostIds
  <2>1. {v1, v2} # {} /\ 3 \in Nat \ {0} /\ FALSE \in BOOLEAN
    OBVIOUS
  <2> QED
    BY <2>1, ConstantsAssumption, OperatedAssumption, OperatedNodes, OperatedProofs!NoIdIsLost
<1>5. OperatedProofs!NoLostIds => OperatedFence
  <2>1. Operated!NodeExclusive
    BY DEF Operated!NodeExclusive, Operated!Fenced
  <2>2. OperatedProofs!NoLostIds = Operated!NoLostIds
    BY DEF OperatedProofs!NoLostIds, Operated!NoLostIds, OperatedProofs!Open, Operated!Open,
           OperatedProofs!Ids, Operated!Ids, OperatedProofs!RowId, Operated!RowId
  <2> QED
    BY <2>1, <2>2 DEF OperatedFence
<1> QED
  BY <1>3, <1>4, <1>5, PTL
=============================================================================
