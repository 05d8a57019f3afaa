---------------------------- MODULE CrawlProofs ----------------------------
(***************************************************************************)
(* Theorems about what runs beside the leases of a crawl: the catch-up of a *)
(* fleet, the pace of requests, the registry of models, the network path,  *)
(* the pages a range is read in and the planning of missing ranges.  They  *)
(* hold for any nodes, callers, requests, operators, posts, names and      *)
(* counts, under the assumptions each part states of its constants.        *)
(***************************************************************************)
EXTENDS MCCrawl, FiniteSetTheorems, FunctionTheorems, WellFoundedInduction, TLAPS

-----------------------------------------------------------------------------
(* The catch-up. *)

Busy == {"fetching", "indexing", "queueing", "advancing"}

\* What the proofs need of the types.
Typed ==
    /\ latest \in Nat \ {0}
    /\ watermark \in Nat /\ before \in Nat
    /\ pc \in [Node -> {"down", "booting", "polling"} \cup Busy]
    /\ mark \in [Node -> Nat]
    /\ page \in [Node -> SUBSET Nat]
    /\ failed \in [Node -> SUBSET Nat]
    /\ trimmed \in [Node -> BOOLEAN]

\* The row exists once any node has booted.
Booted ==
    /\ before = 0 => watermark = 0
    /\ \A n \in Node : pc[n] \in {"polling"} \cup Busy => before # 0
    /\ \A n \in Node : pc[n] = "booting" => mark[n] > 0

\* A node works above a watermark it has read, on all that follows it up to
\* some post.
Pages ==
    \A n \in Node :
        /\ pc[n] \in Busy => mark[n] <= watermark
        /\ pc[n] \in Busy \ {"fetching"} =>
              \E hi \in Nat : hi > mark[n] /\ page[n] = mark[n] + 1 .. hi

\* Whatever it may let the watermark pass is accounted for.
Accounted ==
    \A n \in Node :
        /\ pc[n] = "queueing" /\ ~trimmed[n] => page[n] \subseteq kept \cup failed[n]
        /\ pc[n] = "advancing" => page[n] \subseteq kept \cup queued \cup dropped \cup jumped

IInv == Typed /\ Booted /\ Pages /\ Accounted /\ NoOtherGaps

USE DEF row, ghosts

\* After(id) is an interval that starts right above id.
LEMMA AfterIsInterval ==
    ASSUME NEW id \in Nat, latest \in Nat, After(id) # {}
    PROVE  \E hi \in Nat : hi > id /\ After(id) = id + 1 .. hi
<1>0. Page \in Nat
  BY CatchupAssumption
<1> DEFINE hi == IF latest <= id + Page THEN latest ELSE id + Page
<1>1. hi \in Nat
  BY <1>0
<1>2. After(id) = id + 1 .. hi
  BY <1>0 DEF After
<1>3. hi > id
  BY <1>1, <1>2
<1> QED
  BY <1>1, <1>2, <1>3

\* The newest post of such a page.
LEMMA MaxOfInterval ==
    ASSUME NEW a \in Nat, NEW b \in Nat, a < b
    PROVE  Max(a + 1 .. b) = b
<1> DEFINE S == a + 1 .. b
<1>1. b \in S /\ \A y \in S : b >= y
  OBVIOUS
<1>2. \A x \in S : (\A y \in S : x >= y) => x = b
  OBVIOUS
<1> HIDE DEF S
<1>3. Max(S) = b
  BY <1>1, <1>2 DEF Max
<1> QED
  BY <1>3 DEF S

\* Without a limit nothing is cut: all of a page is taken.
LEMMA AllTaken ==
    ASSUME NEW P \in SUBSET Nat, IsFiniteSet(P)
    PROVE  Taken(P, Cardinality(P)) = P
<1>1. ASSUME NEW i \in P PROVE Cardinality({j \in P : j < i}) < Cardinality(P)
  <2> DEFINE B == {j \in P : j < i}
  <2>1. B \subseteq P /\ B # P
    OBVIOUS
  <2>2. IsFiniteSet(B) /\ Cardinality(B) <= Cardinality(P)
    BY <2>1, FS_Subset
  <2>3. Cardinality(B) # Cardinality(P)
    BY <2>1, FS_Subset
  <2>4. Cardinality(B) \in Nat /\ Cardinality(P) \in Nat
    BY <2>2, FS_CardinalityType
  <2> QED
    BY <2>2, <2>3, <2>4
<1> QED
  BY <1>1 DEF Taken

\* The initial state.
LEMMA InitIInv == Init => IInv
<1> SUFFICES ASSUME Init PROVE IInv
  OBVIOUS
<1>1. latest \in Nat \ {0}
  BY CatchupAssumption DEF Init
<1> QED
  BY <1>1 DEF Init, IInv, Typed, Booted, Pages, Accounted, NoOtherGaps, Passed, Busy

\* A node that goes back to its ticker or stops leaves the others' parts alone.
LEMMA PollKeeps ==
    ASSUME IInv, NEW n \in Node, Poll(n), latest' = latest, before' = before,
           watermark' \in Nat, watermark' >= watermark, before # 0,
           kept \subseteq kept', queued \subseteq queued', dropped \subseteq dropped',
           jumped' = jumped
    PROVE  (Typed /\ Booted /\ Pages /\ Accounted)'
<1> USE DEF IInv, Poll, Busy
<1>1. Typed'
  BY DEF Typed
<1>2. Booted'
  BY DEF Typed, Booted
<1>3. Pages'
  BY DEF Typed, Pages
<1>4. Accounted'
  BY DEF Typed, Accounted
<1> QED
  BY <1>1, <1>2, <1>3, <1>4

\* Every step keeps the strengthened invariant.
LEMMA NextIInv == ASSUME IInv, [Next]_vars PROVE IInv'
<1> USE DEF IInv
<1>1. CASE Publish
  <2>1. latest' \in Nat \ {0} /\ UNCHANGED <<row, pc, mark, page, failed, trimmed, ghosts>>
    BY <1>1 DEF Publish, Typed
  <2> QED
    BY <2>1 DEF Typed, Booted, Pages, Accounted, NoOtherGaps, Passed
<1>2. ASSUME NEW n \in Node, LatestPostID(n) PROVE IInv'
  <2> USE <1>2 DEF LatestPostID, Busy
  <2>1. Typed'
    BY DEF Typed
  <2>2. Booted'
    BY DEF Typed, Booted
  <2>3. Pages' /\ Accounted'
    BY DEF Typed, Pages, Accounted
  <2> QED
    BY <2>1, <2>2, <2>3 DEF NoOtherGaps, Passed
<1>3. ASSUME NEW n \in Node, InitCatchupState(n) PROVE IInv'
  <2>1. /\ before' = IF before = 0 THEN mark[n] ELSE before
        /\ watermark' = Raised(watermark, mark[n])
        /\ jumped' = IF before = 0 THEN jumped ELSE jumped \cup watermark + 1 .. mark[n]
        /\ pc[n] = "booting" /\ pc' = [pc EXCEPT ![n] = "polling"]
        /\ UNCHANGED <<latest, mark, page, failed, trimmed, kept, queued, dropped>>
    BY <1>3 DEF InitCatchupState
  <2>2. mark[n] \in Nat /\ mark[n] > 0
    BY <2>1 DEF Typed, Booted
  <2>3. /\ watermark' \in Nat /\ watermark' >= watermark /\ before' \in Nat \ {0}
        /\ watermark' = IF watermark >= mark[n] THEN watermark ELSE mark[n]
    BY <2>1, <2>2 DEF Raised, Typed
  <2>4. Typed'
    BY <2>1, <2>3 DEF Typed, Busy
  <2>5. Booted'
    BY <2>1, <2>3 DEF Typed, Booted, Busy
  <2>6. Pages'
    BY <2>1, <2>3 DEF Typed, Pages, Busy
  <2>7. jumped \subseteq jumped'
    BY <2>1
  <2>8. Accounted'
    BY <2>1, <2>7 DEF Typed, Accounted, Busy
  <2>9. NoOtherGaps'
    <3>1. CASE before = 0
      <4>1. watermark = 0
        BY <3>1 DEF Booted
      <4>2. before' = mark[n] /\ watermark' = mark[n]
        BY <2>1, <2>2, <2>3, <3>1, <4>1
      <4> QED
        BY <2>2, <4>2 DEF NoOtherGaps, Passed
    <3>2. CASE before # 0
      <4>1. before' = before /\ jumped' = jumped \cup watermark + 1 .. mark[n]
        BY <2>1, <3>2
      <4>2. Passed' \subseteq Passed \cup watermark + 1 .. mark[n]
        BY <2>2, <2>3, <4>1 DEF Passed, Typed
      <4> QED
        BY <2>1, <4>1, <4>2 DEF NoOtherGaps
    <3> QED
      BY <3>1, <3>2
  <2> QED
    BY <2>4, <2>5, <2>6, <2>8, <2>9
<1>4. ASSUME NEW n \in Node, Stop(n) PROVE IInv'
  <2> USE <1>4 DEF Stop, Busy
  <2>1. Typed'
    BY DEF Typed
  <2>2. Booted' /\ Pages'
    BY DEF Typed, Booted, Pages
  <2>3. Accounted'
    BY DEF Typed, Accounted
  <2> QED
    BY <2>1, <2>2, <2>3 DEF NoOtherGaps, Passed
<1>5. ASSUME NEW n \in Node, HighWatermark(n) PROVE IInv'
  <2> USE <1>5 DEF HighWatermark, Busy
  <2>1. Typed' /\ Booted'
    BY DEF Typed, Booted
  <2>2. Pages'
    BY DEF Typed, Pages
  <2>3. Accounted'
    BY DEF Typed, Accounted
  <2> QED
    BY <2>1, <2>2, <2>3 DEF NoOtherGaps, Passed
<1>6. ASSUME NEW n \in Node, PostsAfter(n) PROVE IInv'
  <2> USE <1>6 DEF PostsAfter, Busy
  <2>1. PICK hi \in Nat : hi > mark[n] /\ After(mark[n]) = mark[n] + 1 .. hi
    BY AfterIsInterval DEF Typed
  <2>2. Typed' /\ Booted'
    BY <2>1 DEF Typed, Booted
  <2>3. Pages'
    BY <2>1 DEF Typed, Pages
  <2>4. Accounted'
    BY DEF Typed, Accounted
  <2> QED
    BY <2>2, <2>3, <2>4 DEF NoOtherGaps, Passed
<1>7. ASSUME NEW n \in Node, GiveUp(n) PROVE IInv'
  <2>1. before # 0 /\ watermark \in Nat
    BY <1>7 DEF GiveUp, Booted, Busy, Typed
  <2>2. Poll(n) /\ UNCHANGED <<latest, row, ghosts>>
    BY <1>7 DEF GiveUp
  <2>3. (Typed /\ Booted /\ Pages /\ Accounted)'
    BY <2>1, <2>2, PollKeeps
  <2> QED
    BY <2>2, <2>3 DEF NoOtherGaps, Passed
<1>8. ASSUME NEW n \in Node, Index(n) PROVE IInv'
  <2>1. PICK k \in 0 .. Cardinality(page[n]) :
          /\ Limited \/ k = Cardinality(page[n])
          /\ \E F \in SUBSET Taken(page[n], k) :
               /\ kept' = kept \cup (Taken(page[n], k) \ F)
               /\ failed' = [failed EXCEPT ![n] = F]
          /\ trimmed' = [trimmed EXCEPT ![n] = k < Cardinality(page[n])]
    BY <1>8 DEF Index
  <2>2. PICK F \in SUBSET Taken(page[n], k) :
               /\ kept' = kept \cup (Taken(page[n], k) \ F)
               /\ failed' = [failed EXCEPT ![n] = F]
    BY <2>1
  <2>3. pc[n] = "indexing" /\ pc' = [pc EXCEPT ![n] = "queueing"]
        /\ UNCHANGED <<latest, row, mark, page, queued, dropped, jumped>>
    BY <1>8 DEF Index
  <2>4. PICK hi \in Nat : hi > mark[n] /\ page[n] = mark[n] + 1 .. hi
    BY <2>3 DEF Pages, Busy
  <2>5. IsFiniteSet(page[n]) /\ Cardinality(page[n]) \in Nat /\ page[n] \in SUBSET Nat
    <3>1. mark[n] + 1 \in Int /\ hi \in Int /\ page[n] \in SUBSET Nat
      BY DEF Typed
    <3>2. IsFiniteSet(page[n])
      BY <2>4, <3>1, FS_Interval
    <3> QED
      BY <3>1, <3>2, FS_CardinalityType
  <2>6. F \subseteq page[n] /\ Taken(page[n], k) \subseteq page[n]
    BY DEF Taken
  <2>7. Typed' /\ Booted'
    BY <2>1, <2>2, <2>3, <2>5, <2>6 DEF Typed, Booted, Busy
  <2>8. Pages'
    BY <2>3 DEF Typed, Pages, Busy
  <2>9. Accounted'
    <3>1. ~trimmed'[n] => page[n] \subseteq kept' \cup failed'[n]
      <4> SUFFICES ASSUME ~trimmed'[n] PROVE page[n] \subseteq kept' \cup failed'[n]
        OBVIOUS
      <4>1. k = Cardinality(page[n])
        <5>1. ~(k < Cardinality(page[n]))
          BY <2>1 DEF Typed
        <5> QED
          BY <2>5, <5>1
      <4>2. Taken(page[n], k) = page[n]
        BY <2>5, <4>1, AllTaken
      <4>3. failed'[n] = F
        BY <2>2 DEF Typed
      <4> QED
        BY <2>2, <4>2, <4>3
    <3>2. kept \subseteq kept' /\ \A m \in Node \ {n} : failed'[m] = failed[m] /\ trimmed'[m] = trimmed[m]
      BY <2>1, <2>2 DEF Typed
    <3> QED
      BY <2>3, <3>1, <3>2 DEF Typed, Accounted, Busy
  <2> QED
    BY <2>2, <2>3, <2>7, <2>8, <2>9 DEF NoOtherGaps, Passed
<1>9. ASSUME NEW n \in Node, IndexFails(n) PROVE IInv'
  <2>1. before # 0 /\ watermark \in Nat
    BY <1>9 DEF IndexFails, Booted, Busy, Typed
  <2>2. Poll(n) /\ UNCHANGED <<latest, row, queued, dropped, jumped, cut>> /\ kept \subseteq kept'
    BY <1>9 DEF IndexFails
  <2>3. (Typed /\ Booted /\ Pages /\ Accounted)'
    BY <2>1, <2>2, PollKeeps
  <2> QED
    BY <2>2, <2>3 DEF NoOtherGaps, Passed
<1>10. ASSUME NEW n \in Node, EnqueueRetries(n) \/ EnqueueFails(n) PROVE IInv'
  <2>1. /\ pc[n] = "queueing" /\ before # 0 /\ watermark \in Nat
    BY <1>10 DEF EnqueueRetries, EnqueueFails, Booted, Busy, Typed
  <2>2. /\ queued \subseteq queued' /\ dropped \subseteq dropped'
        /\ failed[n] \subseteq queued' \cup dropped'
        /\ UNCHANGED <<latest, row, kept, jumped>>
    BY <1>10 DEF EnqueueRetries, EnqueueFails, Queued
  <2>3. NoOtherGaps'
    BY <2>2 DEF NoOtherGaps, Passed
  <2>4. CASE MayAdvance(n)
    <3>1. ~trimmed[n] /\ pc' = [pc EXCEPT ![n] = "advancing"]
          /\ UNCHANGED <<mark, page, failed, trimmed>>
      BY <1>10, <2>4 DEF EnqueueRetries, EnqueueFails, MayAdvance
    <3>2. Typed' /\ Booted'
      BY <2>1, <2>2, <3>1 DEF Typed, Booted, Busy
    <3>3. Pages'
      BY <2>1, <2>2, <3>1 DEF Typed, Pages, Busy
    <3>4. Accounted'
      BY <2>1, <2>2, <3>1 DEF Typed, Accounted, Busy
    <3> QED
      BY <2>3, <3>2, <3>3, <3>4
  <2>5. CASE ~MayAdvance(n)
    <3>1. Poll(n)
      BY <1>10, <2>5 DEF EnqueueRetries, EnqueueFails
    <3>2. (Typed /\ Booted /\ Pages /\ Accounted)'
      BY <2>1, <2>2, <3>1, PollKeeps
    <3> QED
      BY <2>3, <3>2
  <2> QED
    BY <2>4, <2>5
<1>11. ASSUME NEW n \in Node, AdvanceWatermark(n) PROVE IInv'
  <2>1. /\ pc[n] = "advancing" /\ before # 0 /\ watermark \in Nat
    BY <1>11 DEF AdvanceWatermark, Booted, Busy, Typed
  <2>2. Poll(n) /\ UNCHANGED <<latest, before, ghosts>> /\ watermark' = Advanced(n)
    BY <1>11 DEF AdvanceWatermark
  <2>3. PICK hi \in Nat : hi > mark[n] /\ page[n] = mark[n] + 1 .. hi
    BY <2>1 DEF Pages, Busy
  <2>4. mark[n] \in Nat /\ mark[n] <= watermark
    BY <2>1 DEF Pages, Busy, Typed
  <2>5. watermark' = IF watermark >= hi THEN watermark ELSE hi
    BY <2>2, <2>3, <2>4, MaxOfInterval DEF Advanced, Raised
  <2>6. watermark' \in Nat /\ watermark' >= watermark
    BY <2>1, <2>5
  <2>7. (Typed /\ Booted /\ Pages /\ Accounted)'
    BY <2>1, <2>2, <2>6, PollKeeps
  <2>8. Passed' \subseteq Passed \cup page[n]
    BY <2>1, <2>2, <2>3, <2>4, <2>5 DEF Passed, Typed
  <2>9. page[n] \subseteq kept \cup queued \cup dropped \cup jumped
    BY <2>1 DEF Accounted
  <2> QED
    BY <2>2, <2>7, <2>8, <2>9 DEF NoOtherGaps
<1>12. CASE UNCHANGED vars
  BY <1>12 DEF vars, Typed, Booted, Pages, Accounted, NoOtherGaps, Passed
<1> QED
  BY <1>1, <1>2, <1>3, <1>4, <1>5, <1>6, <1>7, <1>8, <1>9, <1>10, <1>11, <1>12
     DEF Next, Boot, Proceed, Fail

\* The only gaps below the watermark are those a bootstrap jumped over and
\* those the retry queue refused (catchupOnce, enqueueFailures, bootstrap).
THEOREM GapsAreKnown == Spec => []NoOtherGaps
BY InitIInv, NextIInv, PTL DEF Spec, IInv

-----------------------------------------------------------------------------
(* Numbers. *)

\* A set of numbers from below has a least,
LEMMA HasLeast ==
    ASSUME NEW S \in SUBSET Nat, S # {}
    PROVE  \E x \in S : \A y \in S : x <= y
<1>1. PICK x \in S : \A y \in S : ~(<<y, x>> \in OpToRel(<, Nat))
  BY NatLessThanWellFounded, WFMin, Zenon
<1>2. \A y \in S : ~(y < x)
  BY <1>1 DEF OpToRel
<1> QED
  BY <1>2

\* and one that is bounded has a greatest.
LEMMA HasGreatest ==
    ASSUME NEW N \in Nat, NEW S \in SUBSET (0 .. N), S # {}
    PROVE  \E x \in S : \A y \in S : y <= x
<1> DEFINE T == {N - x : x \in S}
<1>1. T \in SUBSET Nat /\ T # {}
  <2>1. \A x \in S : N - x \in Nat
    OBVIOUS
  <2> QED
    BY <2>1
<1>2. PICK t \in T : \A y \in T : t <= y
  BY <1>1, HasLeast
<1>3. PICK x \in S : t = N - x
  BY <1>2
<1>4. ASSUME NEW y \in S
      PROVE  y <= x
  <2>1. N - x <= N - y
    BY <1>2, <1>3
  <2> QED
    BY <2>1
<1> QED
  BY <1>4

-----------------------------------------------------------------------------
(* Arithmetic. *)

LEMMA QuotientsGrow ==
    ASSUME NEW d \in Nat \ {0}, NEW x \in Nat, NEW y \in Nat, x <= y
    PROVE  x \div d \in Nat /\ x \div d <= y \div d
  OBVIOUS

LEMMA SameQuotient ==
    ASSUME NEW d \in Nat \ {0}, NEW x \in Int, NEW y \in Int, x \div d = y \div d
    PROVE  x - y < d /\ y - x < d
  OBVIOUS

LEMMA ProductsGrow ==
    ASSUME NEW d \in Nat \ {0}, NEW x \in Nat, NEW y \in Nat, NEW z \in Nat, x <= y, d * y <= z
    PROVE  x * d <= z
  OBVIOUS

LEMMA OneMore ==
    ASSUME NEW a \in Int, NEW d \in Int
    PROVE  (a + 1) * d = a * d + d /\ a * d \in Int
  OBVIOUS

LEMMA ElementOf ==
    ASSUME NEW S, NEW s \in Seq(S), NEW k \in 1 .. Len(s)
    PROVE  s[k] \in S
  OBVIOUS

-----------------------------------------------------------------------------
(* The pace of requests.  Callers take their slots in order but may leave in *)
(* another, late, or not at all; that no stretch of time sees too many is a  *)
(* count: what left in it had slots that lie an interval apart, none of them *)
(* later than its request and none more than the grace before it.            *)

\* Two slots lie an interval apart.
Apart(s, t) == s + Interval <= t \/ t + Interval <= s

\* f gives the slots of the requests that have left.
SlotsOfSent(f) ==
    /\ \A k \in 1 .. Len(sent) :
         /\ sent[k] - Rate!Grace <= f[k] /\ f[k] <= sent[k] /\ f[k] + Interval <= nextSlot
         /\ \A c \in Caller : spot[c] = "waiting" => Apart(f[k], slot[c])
    /\ \A k, l \in 1 .. Len(sent) : k # l => Apart(f[k], f[l])

SentInTheirSlots == \E f \in [1 .. Len(sent) -> Int] : SlotsOfSent(f)

WaitersApart ==
    \A c \in Caller : spot[c] = "waiting" =>
        /\ now - Rate!Grace <= slot[c] /\ slot[c] + Interval <= nextSlot
        /\ \A d \in Caller : c # d /\ spot[d] = "waiting" => Apart(slot[c], slot[d])

SentInOrder ==
    \A k \in 1 .. Len(sent) : sent[k] <= now /\ \A l \in k .. Len(sent) : sent[k] <= sent[l]

RateInv ==
    /\ Rate!RateTypeOK
    /\ WaitersApart
    /\ SentInOrder
    /\ SentInTheirSlots
    /\ Rate!PenaltyHolds

LEMMA RateConstants ==
    /\ Interval \in Nat \ {0} /\ Burst \in Nat \ {0} /\ Pauses \subseteq Nat
    /\ Retries \in Nat \ {0} /\ MaxTime \in Nat
    /\ Rate!Grace \in Nat /\ Rate!Grace = (Burst - 1) * Interval
<1>1. /\ Interval \in Nat \ {0} /\ Burst \in Nat \ {0} /\ Pauses \subseteq Nat
      /\ Retries \in Nat \ {0} /\ MaxTime \in Nat
  BY PartsAssumption DEF Rate!RateLimiterAssumption
<1>2. Burst - 1 \in Nat
  BY <1>1
<1>3. (Burst - 1) * Interval \in Nat
  BY <1>1, <1>2
<1> QED
  BY <1>1, <1>3 DEF Rate!Grace

LEMMA SentIsTyped ==
    ASSUME RateInv
    PROVE  /\ DOMAIN sent = 1 .. Len(sent) /\ Len(sent) \in Nat
           /\ \A k \in 1 .. Len(sent) : sent[k] \in 0 .. MaxTime /\ sent[k] \in Nat
<1>1. sent \in Seq(0 .. MaxTime)
  BY DEF RateInv, Rate!RateTypeOK
<1>2. DOMAIN sent = 1 .. Len(sent) /\ Len(sent) \in Nat
  BY <1>1
<1>3. ASSUME NEW k \in 1 .. Len(sent)
      PROVE  sent[k] \in 0 .. MaxTime
  BY <1>1, ElementOf
<1> QED
  BY <1>2, <1>3

\* From slots that lie an interval apart follows the rate.
LEMMA SlotsBoundRate ==
    ASSUME RateInv
    PROVE  Rate!RateHolds
<1> SUFFICES ASSUME NEW i \in DOMAIN sent, NEW j \in DOMAIN sent, i <= j
             PROVE  (j - i + 1) * Interval <= Burst * Interval + (sent[j] - sent[i])
  BY DEF Rate!RateHolds
<1>0. /\ Len(sent) \in Nat /\ i \in 1 .. Len(sent) /\ j \in 1 .. Len(sent)
      /\ \A k \in 1 .. Len(sent) : sent[k] \in Nat
  BY SentIsTyped
<1>1. PICK f \in [1 .. Len(sent) -> Int] : SlotsOfSent(f)
  BY DEF RateInv, SentInTheirSlots
<1> DEFINE low == sent[i] - Rate!Grace
           span == sent[j] - low
           place == [k \in i .. j |-> (f[k] - low) \div Interval]
<1>2. low \in Int /\ span \in Nat /\ sent[i] <= sent[j]
  BY <1>0, RateConstants DEF RateInv, SentInOrder
<1>3. ASSUME NEW k \in i .. j
      PROVE  f[k] \in Int /\ low <= f[k] /\ f[k] - low <= span /\ k \in 1 .. Len(sent)
  <2>1. k \in 1 .. Len(sent) /\ k \in i .. Len(sent) /\ j \in k .. Len(sent)
    BY <1>0
  <2>2. sent[i] <= sent[k] /\ sent[k] <= sent[j]
    BY <1>0, <2>1 DEF RateInv, SentInOrder
  <2>3. sent[k] - Rate!Grace <= f[k] /\ f[k] <= sent[k] /\ f[k] \in Int
    BY <1>1, <2>1 DEF SlotsOfSent
  <2> QED
    BY <1>0, <1>2, <2>1, <2>2, <2>3, RateConstants, SMTT(60)
<1>4. span \div Interval \in Nat /\ Interval * (span \div Interval) <= span
  BY <1>2, RateConstants
<1>5. ASSUME NEW k \in i .. j
      PROVE  place[k] \in 0 .. span \div Interval
  <2> DEFINE x == f[k] - low
  <2>1. x \in Nat /\ x <= span
    BY <1>2, <1>3
  <2>2. x \div Interval \in Nat /\ x \div Interval <= span \div Interval
    BY <1>2, <2>1, RateConstants, QuotientsGrow
  <2> QED
    BY <1>4, <2>2
<1>6. ASSUME NEW k \in i .. j, NEW l \in i .. j, place[k] = place[l]
      PROVE  k = l
  <2>1. (f[k] - low) \div Interval = (f[l] - low) \div Interval
    BY <1>6
  <2>2. f[k] - low \in Int /\ f[l] - low \in Int
    BY <1>2, <1>3
  <2>3. (f[k] - low) - (f[l] - low) < Interval /\ (f[l] - low) - (f[k] - low) < Interval
    BY <2>1, <2>2, RateConstants, SameQuotient
  <2>4. ~Apart(f[k], f[l])
    BY <1>2, <1>3, <2>3, RateConstants DEF Apart
  <2> QED
    BY <1>1, <1>3, <2>4 DEF SlotsOfSent
<1> HIDE DEF place
<1>7. place \in Injection(i .. j, 0 .. span \div Interval)
  BY <1>5, <1>6, Fun_IsInj DEF place
<1>8. Cardinality(i .. j) <= Cardinality(0 .. span \div Interval)
  <2>1. IsFiniteSet(0 .. span \div Interval)
    BY <1>4, FS_Interval
  <2> QED
    BY <1>7, <2>1, FS_Injection
<1>9. j - i <= span \div Interval
  <2>1. Cardinality(i .. j) = j - i + 1
    BY <1>0, FS_Interval
  <2>2. Cardinality(0 .. span \div Interval) = span \div Interval + 1
    BY <1>4, FS_Interval
  <2> QED
    BY <1>0, <1>4, <1>8, <2>1, <2>2
<1>10. (j - i) * Interval <= span
  BY <1>0, <1>2, <1>4, <1>9, RateConstants, ProductsGrow, SMTT(60)
<1>11. /\ (j - i + 1) * Interval = (j - i) * Interval + Interval /\ (j - i) * Interval \in Int
       /\ Burst * Interval = (Burst - 1) * Interval + Interval
  <2>1. j - i \in Int /\ Burst - 1 \in Int /\ (Burst - 1) + 1 = Burst /\ Interval \in Int
    BY <1>0, RateConstants
  <2> QED
    BY <2>1, OneMore
<1> DEFINE gap == (j - i) * Interval
           grace == (Burst - 1) * Interval
<1>12. span = (sent[j] - sent[i]) + grace /\ grace \in Int /\ gap \in Int /\ gap <= span
  <2>1. span = (sent[j] - sent[i]) + Rate!Grace /\ Rate!Grace \in Int
    BY <1>0, RateConstants
  <2>2. grace = Rate!Grace
    BY RateConstants, Zenon
  <2>3. gap <= span /\ gap \in Int
    BY <1>10, <1>11, Zenon
  <2> HIDE DEF gap, grace, span
  <2> QED
    BY <2>1, <2>2, <2>3
<1>13. (j - i + 1) * Interval = gap + Interval /\ Burst * Interval = grace + Interval
  BY <1>11
<1>14. sent[i] \in Int /\ sent[j] \in Int /\ Interval \in Int
  BY <1>0, RateConstants
<1> HIDE DEF gap, grace
<1> QED
  BY <1>12, <1>13, <1>14
\* A step in which no request leaves, no slot is given and no clock moves; a
\* caller that waits was waiting before.
LEMMA QuietKeepsPace ==
    ASSUME RateInv, UNCHANGED <<now, sent>>, nextSlot <= nextSlot', Rate!RateTypeOK',
           Rate!PenaltyHolds',
           \A c \in Caller : spot'[c] = "waiting" => spot[c] = "waiting" /\ slot'[c] = slot[c]
    PROVE  RateInv'
<1>0. nextSlot \in Int /\ nextSlot' \in Int /\ Interval \in Nat /\ slot \in [Caller -> Int]
  BY RateConstants DEF RateInv, Rate!RateTypeOK
<1>1. WaitersApart'
  <2>1. ASSUME NEW c \in Caller, spot[c] = "waiting"
        PROVE  slot[c] + Interval <= nextSlot'
    BY <1>0, <2>1 DEF RateInv, WaitersApart
  <2> QED
    BY <2>1 DEF RateInv, WaitersApart, Apart, Rate!Grace
<1>2. SentInOrder'
  BY DEF RateInv, SentInOrder
<1>3. SentInTheirSlots'
  <2>1. PICK f \in [1 .. Len(sent) -> Int] : SlotsOfSent(f)
    BY DEF RateInv, SentInTheirSlots
  <2>2. ASSUME NEW k \in 1 .. Len(sent)
        PROVE  f[k] + Interval <= nextSlot'
    BY <1>0, <2>1 DEF SlotsOfSent
  <2>3. SlotsOfSent(f)'
    BY <2>1, <2>2 DEF SlotsOfSent, Apart, Rate!Grace
  <2> QED
    BY <2>1, <2>3 DEF SentInTheirSlots
<1> QED
  BY <1>1, <1>2, <1>3 DEF RateInv

\* The repetition of a failed request, or its end.
LEMMA RepeatIsTyped ==
    ASSUME RateInv, NEW c \in Caller, Rate!Repeat(c)
    PROVE  /\ attempt' \in [Caller -> 0 .. Retries - 1] /\ slot' \in [Caller -> Int]
           /\ spot' \in [Caller -> {"asking", "waiting", "sent", "pausing", "over"}]
           /\ spot'[c] # "waiting"
           /\ \A d \in Caller \ {c} : spot'[d] = spot[d] /\ slot'[d] = slot[d]
<1>1. /\ now \in Int /\ attempt \in [Caller -> 0 .. Retries - 1] /\ slot \in [Caller -> Int]
      /\ spot \in [Caller -> {"asking", "waiting", "sent", "pausing", "over"}]
      /\ attempt[c] \in Nat /\ Retries \in Nat
  BY RateConstants DEF RateInv, Rate!RateTypeOK
<1>2. CASE attempt[c] + 1 < Retries
  <2>1. attempt[c] + 1 \in 0 .. Retries - 1
    BY <1>1, <1>2
  <2>2. attempt' = [attempt EXCEPT ![c] = attempt[c] + 1]
    BY <1>2 DEF Rate!Repeat
  <2>3. Rate!Backoff(attempt'[c]) \in Int
    BY DEF Rate!Backoff
  <2>4. PICK wake \in Int : slot' = [slot EXCEPT ![c] = wake]
    BY <1>1, <1>2, <2>3 DEF Rate!Repeat
  <2> QED
    BY <1>1, <1>2, <2>1, <2>2, <2>4 DEF Rate!Repeat
<1>3. CASE ~(attempt[c] + 1 < Retries)
  BY <1>1, <1>3 DEF Rate!Repeat
<1> QED
  BY <1>2, <1>3

\* Steps of a caller that take no slot and send nothing.
LEMMA CallerKeepsPace ==
    ASSUME RateInv, NEW c \in Caller,
           Rate!Begin(c) \/ Rate!Cancel(c) \/ Rate!Answered(c) \/ Rate!Broken(c) \/ Rate!BackoffOver(c)
    PROVE  RateInv'
<1>1. UNCHANGED <<now, nextSlot, sent, quiet>>
  BY DEF Rate!Begin, Rate!Cancel, Rate!Answered, Rate!Broken, Rate!BackoffOver
<1>2. /\ attempt' \in [Caller -> 0 .. Retries - 1] /\ slot' \in [Caller -> Int]
      /\ spot' \in [Caller -> {"asking", "waiting", "sent", "pausing", "over"}]
      /\ spot'[c] # "waiting"
      /\ \A d \in Caller \ {c} : spot'[d] = spot[d] /\ slot'[d] = slot[d]
  <2>1. CASE Rate!Broken(c)
    BY <2>1, RepeatIsTyped DEF Rate!Broken
  <2>2. CASE Rate!Begin(c)
    <3>1. 0 \in 0 .. Retries - 1
      BY RateConstants
    <3> QED
      BY <2>2, <3>1 DEF Rate!Begin, RateInv, Rate!RateTypeOK
  <2>3. CASE Rate!Cancel(c) \/ Rate!Answered(c) \/ Rate!BackoffOver(c)
    BY <2>3 DEF Rate!Cancel, Rate!Answered, Rate!BackoffOver, RateInv, Rate!RateTypeOK
  <2> QED
    BY <2>1, <2>2, <2>3
<1>3. Rate!RateTypeOK' /\ Rate!PenaltyHolds'
  BY <1>1, <1>2 DEF RateInv, Rate!RateTypeOK, Rate!PenaltyHolds
<1>4. nextSlot <= nextSlot'
  BY <1>1 DEF RateInv, Rate!RateTypeOK
<1> QED
  BY <1>1, <1>2, <1>3, <1>4, QuietKeepsPace

\* A penalty moves the slots back, and the caller pauses.
LEMMA PenaltyKeepsPace ==
    ASSUME RateInv, NEW c \in Caller, Rate!Throttled(c)
    PROVE  RateInv'
<1>1. PICK pause \in Pauses :
        /\ nextSlot' = Rate!Later(nextSlot, now + pause)
        /\ quiet' = Rate!Later(quiet, now + pause)
  BY DEF Rate!Throttled, Rate!Penalized
<1>2. UNCHANGED <<now, sent>> /\ Rate!Repeat(c)
  BY DEF Rate!Throttled
<1>3. /\ now \in 0 .. MaxTime /\ now \in Nat /\ nextSlot \in Int /\ quiet \in Nat /\ pause \in Nat
      /\ now + pause \in Nat
  BY RateConstants DEF RateInv, Rate!RateTypeOK
<1>4. /\ nextSlot' \in Int /\ quiet' \in Nat /\ nextSlot <= nextSlot'
      /\ nextSlot' >= quiet' \/ now >= quiet'
  BY <1>1, <1>3 DEF Rate!Later, RateInv, Rate!PenaltyHolds
<1>5. Rate!RateTypeOK'
  BY <1>2, <1>4, RepeatIsTyped DEF RateInv, Rate!RateTypeOK
<1>6. Rate!PenaltyHolds'
  BY <1>2, <1>4 DEF Rate!PenaltyHolds
<1> QED
  BY <1>2, <1>4, <1>5, <1>6, QuietKeepsPace, RepeatIsTyped
\* A caller takes its slot behind all others.
LEMMA WaitKeepsPace ==
    ASSUME RateInv, NEW c \in Caller, Rate!Wait(c)
    PROVE  RateInv'
<1>0. /\ now \in Int /\ nextSlot \in Int /\ Interval \in Nat \ {0} /\ slot \in [Caller -> Int]
      /\ quiet \in Int /\ Rate!Grace \in Nat
  BY RateConstants DEF RateInv, Rate!RateTypeOK
<1>1. PICK s \in Int :
        /\ s >= nextSlot /\ s >= now - Rate!Grace
        /\ slot' = [slot EXCEPT ![c] = s]
        /\ nextSlot' = slot'[c] + Interval
  <2>1. Rate!Later(nextSlot, now - Rate!Grace) \in Int
        /\ Rate!Later(nextSlot, now - Rate!Grace) >= nextSlot
        /\ Rate!Later(nextSlot, now - Rate!Grace) >= now - Rate!Grace
    BY <1>0 DEF Rate!Later
  <2> QED
    BY <2>1 DEF Rate!Wait
<1>2. /\ nextSlot' = s + Interval /\ nextSlot' \in Int /\ slot' \in [Caller -> Int]
      /\ slot'[c] = s
      /\ \A d \in Caller \ {c} : slot'[d] = slot[d] /\ spot'[d] = spot[d]
      /\ spot' \in [Caller -> {"asking", "waiting", "sent", "pausing", "over"}]
      /\ UNCHANGED <<now, attempt, sent, quiet>>
      /\ spot[c] = "asking"
  BY <1>0, <1>1 DEF Rate!Wait, RateInv, Rate!RateTypeOK
<1>3. Rate!RateTypeOK' /\ Rate!PenaltyHolds'
  BY <1>0, <1>1, <1>2 DEF RateInv, Rate!RateTypeOK, Rate!PenaltyHolds
<1>4. ASSUME NEW d \in Caller \ {c}, spot[d] = "waiting"
      PROVE  /\ now - Rate!Grace <= slot[d] /\ slot[d] + Interval <= nextSlot'
             /\ Apart(slot[d], s) /\ Apart(s, slot[d])
  BY <1>0, <1>1, <1>2, <1>4 DEF RateInv, WaitersApart, Apart
<1>5. WaitersApart'
  <2> SUFFICES ASSUME NEW d \in Caller, spot'[d] = "waiting"
               PROVE  /\ now - Rate!Grace <= slot'[d] /\ slot'[d] + Interval <= nextSlot'
                      /\ \A e \in Caller : d # e /\ spot'[e] = "waiting" => Apart(slot'[d], slot'[e])
    BY <1>2 DEF WaitersApart, Apart, Rate!Grace
  <2>1. CASE d = c
    BY <1>0, <1>1, <1>2, <1>4, <2>1
  <2>2. CASE d # c
    BY <1>2, <1>4, <2>2 DEF RateInv, WaitersApart
  <2> QED
    BY <2>1, <2>2
<1>6. SentInOrder'
  BY <1>2 DEF RateInv, SentInOrder
<1>7. SentInTheirSlots'
  <2>1. PICK f \in [1 .. Len(sent) -> Int] : SlotsOfSent(f)
    BY DEF RateInv, SentInTheirSlots
  <2>2. ASSUME NEW k \in 1 .. Len(sent)
        PROVE  f[k] + Interval <= nextSlot' /\ Apart(f[k], s)
    BY <1>0, <1>1, <1>2, <2>1 DEF SlotsOfSent, Apart
  <2>3. SlotsOfSent(f)'
    BY <1>2, <2>1, <2>2 DEF SlotsOfSent, Apart, Rate!Grace
  <2> QED
    BY <1>2, <2>1, <2>3 DEF SentInTheirSlots
<1> QED
  BY <1>3, <1>5, <1>6, <1>7 DEF RateInv

\* A request leaves in its slot or after it.
LEMMA SendKeepsPace ==
    ASSUME RateInv, NEW c \in Caller, Rate!Send(c)
    PROVE  RateInv'
<1>0. /\ now \in 0 .. MaxTime /\ now \in Int /\ nextSlot \in Int /\ Interval \in Nat \ {0}
      /\ slot \in [Caller -> Int] /\ Rate!Grace \in Nat /\ sent \in Seq(0 .. MaxTime)
      /\ Len(sent) \in Nat
  BY RateConstants, SentIsTyped DEF RateInv, Rate!RateTypeOK
<1>1. /\ spot[c] = "waiting" /\ slot[c] <= now
      /\ UNCHANGED <<now, nextSlot, slot, attempt, quiet>>
      /\ spot' \in [Caller -> {"asking", "waiting", "sent", "pausing", "over"}]
      /\ spot'[c] = "sent" /\ \A d \in Caller \ {c} : spot'[d] = spot[d]
  BY DEF Rate!Send, RateInv, Rate!RateTypeOK
<1>2. /\ sent' \in Seq(0 .. MaxTime) /\ Len(sent') = Len(sent) + 1
      /\ \A k \in 1 .. Len(sent) : sent'[k] = sent[k]
      /\ sent'[Len(sent) + 1] = now
  BY <1>0 DEF Rate!Send
<1>3. Rate!RateTypeOK' /\ Rate!PenaltyHolds'
  BY <1>1, <1>2 DEF RateInv, Rate!RateTypeOK, Rate!PenaltyHolds
<1>4. WaitersApart'
  BY <1>1 DEF RateInv, WaitersApart, Apart, Rate!Grace
<1>5. ASSUME NEW k \in 1 .. Len(sent')
      PROVE  k \in 1 .. Len(sent) \/ k = Len(sent) + 1
  BY <1>0, <1>2
<1>6. SentInOrder'
  <2> SUFFICES ASSUME NEW k \in 1 .. Len(sent')
               PROVE  sent'[k] <= now /\ \A l \in k .. Len(sent') : sent'[k] <= sent'[l]
    BY <1>1 DEF SentInOrder
  <2>1. sent'[k] <= now
    BY <1>0, <1>2, <1>5 DEF RateInv, SentInOrder
  <2>2. ASSUME NEW l \in k .. Len(sent')
        PROVE  sent'[k] <= sent'[l]
    <3>1. CASE l = Len(sent) + 1
      BY <1>2, <2>1, <3>1
    <3>2. CASE l # Len(sent) + 1
      <4>1. l \in 1 .. Len(sent) /\ k \in 1 .. Len(sent) /\ l \in k .. Len(sent)
        BY <1>0, <1>2, <3>2
      <4> QED
        BY <1>2, <4>1 DEF RateInv, SentInOrder
    <3> QED
      BY <3>1, <3>2
  <2> QED
    BY <2>1, <2>2
<1>7. SentInTheirSlots'
  <2>1. PICK f \in [1 .. Len(sent) -> Int] : SlotsOfSent(f)
    BY DEF RateInv, SentInTheirSlots
  <2>2. PICK g \in [1 .. Len(sent) + 1 -> Int] :
          /\ g[Len(sent) + 1] = slot[c]
          /\ \A k \in 1 .. Len(sent) : g[k] = f[k] /\ g[k] \in Int
    <3> DEFINE h == [k \in 1 .. Len(sent) + 1 |-> IF k = Len(sent) + 1 THEN slot[c] ELSE f[k]]
    <3>1. /\ h \in [1 .. Len(sent) + 1 -> Int]
          /\ h[Len(sent) + 1] = slot[c]
          /\ \A k \in 1 .. Len(sent) : h[k] = f[k] /\ h[k] \in Int
      BY <1>0, <2>1
    <3> HIDE DEF h
    <3> QED
      BY <3>1
  <2>3. ASSUME NEW k \in 1 .. Len(sent')
        PROVE  /\ sent'[k] - Rate!Grace <= g[k] /\ g[k] <= sent'[k] /\ g[k] + Interval <= nextSlot
               /\ \A d \in Caller : spot'[d] = "waiting" => Apart(g[k], slot[d])
    <3>1. CASE k = Len(sent) + 1
      <4>1. now - Rate!Grace <= slot[c] /\ slot[c] + Interval <= nextSlot
        BY <1>1 DEF RateInv, WaitersApart
      <4>2. \A d \in Caller : spot'[d] = "waiting" => Apart(slot[c], slot[d])
        BY <1>1 DEF RateInv, WaitersApart
      <4> QED
        BY <1>1, <1>2, <2>2, <3>1, <4>1, <4>2
    <3>2. CASE k \in 1 .. Len(sent)
      BY <1>1, <1>2, <2>1, <2>2, <3>2 DEF SlotsOfSent
    <3> QED
      BY <1>5, <3>1, <3>2
  <2>4. ASSUME NEW k \in 1 .. Len(sent'), NEW l \in 1 .. Len(sent'), k # l
        PROVE  Apart(g[k], g[l])
    <3>1. CASE k \in 1 .. Len(sent) /\ l \in 1 .. Len(sent)
      BY <2>1, <2>2, <2>4, <3>1 DEF SlotsOfSent
    <3>2. CASE k \in 1 .. Len(sent) /\ l = Len(sent) + 1
      BY <1>1, <2>1, <2>2, <3>2 DEF SlotsOfSent
    <3>3. CASE k = Len(sent) + 1 /\ l \in 1 .. Len(sent)
      BY <1>0, <1>1, <2>1, <2>2, <3>3 DEF SlotsOfSent, Apart
    <3> QED
      BY <1>5, <2>4, <3>1, <3>2, <3>3
  <2>5. SlotsOfSent(g)'
    BY <1>1, <2>3, <2>4 DEF SlotsOfSent, Apart, Rate!Grace
  <2> QED
    BY <1>2, <2>2, <2>5 DEF SentInTheirSlots
<1> QED
  BY <1>3, <1>4, <1>6, <1>7 DEF RateInv

\* The clock waits for whoever is due.
LEMMA TimeKeepsPace ==
    ASSUME RateInv, Rate!TimePasses
    PROVE  RateInv'
<1>0. /\ now \in Nat /\ nextSlot \in Int /\ slot \in [Caller -> Int] /\ Rate!Grace \in Nat
      /\ quiet \in Int /\ Interval \in Nat /\ now < MaxTime /\ MaxTime \in Nat
      /\ now' = now + 1 /\ UNCHANGED <<nextSlot, slot, spot, attempt, sent, quiet>>
  BY RateConstants DEF RateInv, Rate!RateTypeOK, Rate!TimePasses
<1>1. Rate!RateTypeOK' /\ Rate!PenaltyHolds'
  <2>1. now' \in 0 .. MaxTime
    BY <1>0
  <2> QED
    BY <1>0, <2>1 DEF RateInv, Rate!RateTypeOK, Rate!PenaltyHolds
<1>2. WaitersApart'
  <2>1. ASSUME NEW c \in Caller, spot[c] = "waiting"
        PROVE  now' - Rate!Grace <= slot[c]
    <3>1. slot[c] > now
      BY <1>0, <2>1 DEF Rate!TimePasses
    <3> QED
      BY <1>0, <3>1
  <2> QED
    BY <1>0, <2>1 DEF RateInv, WaitersApart, Apart, Rate!Grace
<1>3. SentInOrder'
  <2>1. ASSUME NEW k \in 1 .. Len(sent)
        PROVE  sent[k] <= now'
    BY <1>0, <2>1, SentIsTyped DEF RateInv, SentInOrder
  <2> QED
    BY <1>0, <2>1 DEF RateInv, SentInOrder
<1>4. SentInTheirSlots'
  <2>1. PICK f \in [1 .. Len(sent) -> Int] : SlotsOfSent(f)
    BY DEF RateInv, SentInTheirSlots
  <2>2. SlotsOfSent(f)'
    BY <1>0, <2>1 DEF SlotsOfSent, Apart, Rate!Grace
  <2> QED
    BY <1>0, <2>1, <2>2 DEF SentInTheirSlots
<1> QED
  BY <1>1, <1>2, <1>3, <1>4 DEF RateInv

LEMMA InitHasPace ==
    ASSUME Rate!RateInit
    PROVE  RateInv
<1>1. /\ now = 0 /\ nextSlot = 0 - Rate!Grace /\ sent = <<>> /\ quiet = 0
      /\ slot = [c \in Caller |-> 0] /\ attempt = [c \in Caller |-> 0]
      /\ spot = [c \in Caller |-> "over"] /\ Len(sent) = 0
      /\ sent \in Seq(0 .. MaxTime)
  BY DEF Rate!RateInit
<1>2. 0 \in 0 .. MaxTime /\ 0 \in 0 .. Retries - 1 /\ 0 - Rate!Grace \in Int
  BY RateConstants
<1>3. Rate!RateTypeOK /\ Rate!PenaltyHolds
  BY <1>1, <1>2 DEF Rate!RateTypeOK, Rate!PenaltyHolds
<1>4. WaitersApart /\ SentInOrder
  BY <1>1 DEF WaitersApart, SentInOrder
<1>5. SentInTheirSlots
  <2>1. [k \in 1 .. Len(sent) |-> 0] \in [1 .. Len(sent) -> Int]
    OBVIOUS
  <2>2. SlotsOfSent([k \in 1 .. Len(sent) |-> 0])
    BY <1>1 DEF SlotsOfSent
  <2> QED
    BY <2>1, <2>2 DEF SentInTheirSlots
<1> QED
  BY <1>3, <1>4, <1>5 DEF RateInv

\* No more requests to Danbooru leave in any stretch of time than the burst and
\* one per interval, for any number of callers that come and go, repeat and
\* give up, and no slot is given inside a pause Danbooru asked for.
THEOREM RequestsArePaced == CrawlSpec => []Paced
<1>1. CrawlInit => RateInv
  BY InitHasPace DEF CrawlInit
<1>2. RateInv /\ [CrawlNext]_<<part, vars, queue, scan, plan, rate, path, models>> => RateInv'
  <2> SUFFICES ASSUME RateInv, CrawlNext \/ UNCHANGED rate
               PROVE  RateInv'
    OBVIOUS
  <2>1. CASE UNCHANGED rate
    <3>1. Rate!RateTypeOK' /\ Rate!PenaltyHolds' /\ nextSlot <= nextSlot'
      BY <2>1 DEF rate, RateInv, Rate!RateTypeOK, Rate!PenaltyHolds
    <3> QED
      BY <2>1, <3>1, QuietKeepsPace DEF rate
  <2>2. CASE Rate!RateNext
    BY <2>2, CallerKeepsPace, PenaltyKeepsPace, WaitKeepsPace, SendKeepsPace, TimeKeepsPace
       DEF Rate!RateNext
  <2> QED
    BY <2>1, <2>2 DEF CrawlNext
<1>3. RateInv => Paced
  BY SlotsBoundRate DEF RateInv, Paced
<1> QED
  BY <1>1, <1>2, <1>3, PTL DEF CrawlSpec

-----------------------------------------------------------------------------
(* The models. *)

ModelNode == Worker \cup {Central}

\* A collection that belongs to a model.
HasCollection(name, id, size) ==
    \E c \in collections : c.name = name /\ c.id = id /\ c.size = size

\* A model is registered with its size, or has been registered again since.
Registered(id, size) ==
    \E o \in registry : o.id = id /\ (id \in resized \/ o.size = size)

ModelsTyped ==
    /\ Registry!ModelsTypeOK
    /\ loaded \in [ModelNode -> Loads]
    /\ snapshot \in [ModelNode -> SUBSET Registry!Model]
    /\ checking \in [Worker -> SUBSET Registry!Model]
    /\ syncing \subseteq Registry!Entry

\* What nodes have read of the registry at any time still fits it,
ReadingsFit ==
    /\ \A n \in ModelNode : \A m \in snapshot[n] : Registered(m.id, m.size)
    /\ \A w \in Worker : \A m \in checking[w] : Registered(m.id, m.size)

\* the central node has the collections of all models but those it has yet to
\* open,
CentralHasOpened == \A m \in snapshot[Central] \ opening : HasCollection(m.in, m.id, m.size)

\* and a sync keeps in force what it has registered so far.
SyncInForce ==
    (\A s, t \in synced : s.kind = t.kind \/ s.id = t.id => s = t)
        => \A s \in synced : Registry!Spec(s) \in registry

ModelsInv ==
    /\ ModelsTyped /\ ReadingsFit /\ CentralHasOpened /\ SyncInForce
    /\ Registry!CollectionsKeepToOneModel /\ Registry!BackupsFit

LEMMA ModelsConstants ==
    /\ Central \notin Worker /\ Additions \subseteq Registry!Model
    /\ Sync \subseteq SUBSET Registry!Entry
    /\ \A made \in Loads : made \subseteq Registry!Made /\ Registry!OnePerId(made)
BY PartsAssumption DEF Registry!ModelsAssumption

\* What a registration does to the rows.
LEMMA UpsertEffect ==
    ASSUME ModelsInv, NEW m \in Registry!Model, Registry!UpsertModel(m)
    PROVE  /\ registry' \subseteq Registry!Model /\ Registry!OnePerId(registry')
           /\ \A a, b \in {r \in registry' : r.active} : a.kind = b.kind => a = b
           /\ m \in registry'
           /\ \A o \in registry : o.id # m.id /\ o.kind # m.kind => o \in registry'
           /\ \A id, size : Registered(id, size) => Registered(id, size)'
<1> DEFINE Down(o) == IF Registry!StepsDown(m, o) THEN [o EXCEPT !.active = FALSE] ELSE o
           Others == {r \in registry : r.id # m.id}
<1>1. registry \subseteq Registry!Model /\ Registry!OnePerId(registry)
      /\ \A a, b \in registry : a.active /\ b.active /\ a.kind = b.kind => a = b
  BY DEF ModelsInv, ModelsTyped, Registry!ModelsTypeOK, Registry!Active
<1>2. registry' = {Down(o) : o \in Others} \cup {m}
  BY DEF Registry!UpsertModel
<1>3. ASSUME NEW o \in Registry!Model
      PROVE  /\ Down(o) \in Registry!Model /\ Down(o).id = o.id /\ Down(o).kind = o.kind
             /\ Down(o).size = o.size
             /\ Down(o).active => o.active /\ Down(o) = o
             /\ o.id # m.id /\ o.kind = m.kind => ~Down(o).active
             /\ o.kind # m.kind => Down(o) = o
  BY <1>3 DEF Registry!Model, Registry!StepsDown
<1> HIDE DEF Down
<1>4. registry' \subseteq Registry!Model
  BY <1>1, <1>2, <1>3
<1>5. Registry!OnePerId(registry')
  BY <1>1, <1>2, <1>3 DEF Registry!OnePerId
<1>6. ASSUME NEW a \in registry', NEW b \in registry', a.active, b.active, a.kind = b.kind
      PROVE  a = b
  <2>1. CASE a = m /\ b # m
    BY <1>1, <1>2, <1>3, <1>6, <2>1
  <2>2. CASE a # m /\ b = m
    BY <1>1, <1>2, <1>3, <1>6, <2>2
  <2>3. CASE a # m /\ b # m
    BY <1>1, <1>2, <1>3, <1>6, <2>3
  <2> QED
    BY <2>1, <2>2, <2>3
<1>7. \A o \in registry : o.id # m.id /\ o.kind # m.kind => o \in registry'
  BY <1>1, <1>2, <1>3
<1>8. ASSUME NEW id, NEW size, Registered(id, size)
      PROVE  Registered(id, size)'
  <2>1. resized' = IF \E o \in registry : o.id = m.id /\ o.size # m.size
                   THEN resized \cup {m.id} ELSE resized
    BY DEF Registry!UpsertModel
  <2>2. PICK o \in registry : o.id = id /\ (id \in resized \/ o.size = size)
    BY <1>8 DEF Registered
  <2>3. CASE id = m.id
    <3>1. id \in resized' \/ m.size = size
      BY <2>1, <2>2, <2>3
    <3> QED
      BY <1>2, <2>3, <3>1 DEF Registered
  <2>4. CASE id # m.id
    <3>1. Down(o) \in registry' /\ Down(o).id = id /\ Down(o).size = o.size
      BY <1>1, <1>2, <1>3, <2>2, <2>4
    <3>2. id \in resized' \/ Down(o).size = size
      BY <2>1, <2>2, <3>1
    <3> QED
      BY <3>1, <3>2 DEF Registered
  <2> QED
    BY <2>3, <2>4
<1> QED
  BY <1>2, <1>4, <1>5, <1>6, <1>7, <1>8

\* A registration spoils nothing that was read, opened or backed up before.
LEMMA UpsertKeeps ==
    ASSUME ModelsInv, NEW m \in Registry!Model, Registry!UpsertModel(m),
           UNCHANGED <<loaded, snapshot, checking, opening, serving, collections, points, backups>>,
           syncing' \subseteq Registry!Entry
    PROVE  /\ ModelsTyped' /\ ReadingsFit' /\ CentralHasOpened'
           /\ Registry!CollectionsKeepToOneModel' /\ Registry!BackupsFit'
<1>1. ModelsTyped'
  BY UpsertEffect DEF ModelsInv, ModelsTyped, Registry!ModelsTypeOK, Registry!Active, ModelNode
<1>2. ReadingsFit'
  BY UpsertEffect DEF ModelsInv, ReadingsFit, ModelNode
<1>3. CentralHasOpened' /\ Registry!CollectionsKeepToOneModel'
  BY DEF ModelsInv, CentralHasOpened, HasCollection, Registry!CollectionsKeepToOneModel
<1>4. Registry!BackupsFit'
  <2>1. \A v \in backups : Registered(v.id, v.size)
    BY DEF ModelsInv, Registry!BackupsFit, Registered
  <2>2. \A v \in backups' : Registered(v.id, v.size)'
    BY <2>1, UpsertEffect
  <2> QED
    BY <2>2 DEF Registered, Registry!BackupsFit
<1> QED
  BY <1>1, <1>2, <1>3, <1>4

LEMMA AddKeepsModels ==
    ASSUME ModelsInv, NEW m \in Additions, Registry!AddModel(m)
    PROVE  ModelsInv'
<1>1. m \in Registry!Model /\ Registry!UpsertModel(m) /\ synced' = {} /\ syncing' = syncing
  BY ModelsConstants DEF Registry!AddModel
<1>2. UNCHANGED <<loaded, snapshot, checking, opening, serving, collections, points, backups>>
  BY DEF Registry!AddModel, Registry!nodes, Registry!stored
<1>3. SyncInForce'
  BY <1>1 DEF SyncInForce
<1>4. syncing' \subseteq Registry!Entry
  BY <1>1 DEF ModelsInv, ModelsTyped
<1> QED
  BY <1>1, <1>2, <1>3, <1>4, UpsertKeeps DEF ModelsInv

LEMMA SyncKeepsModels ==
    ASSUME ModelsInv, NEW s, Registry!SyncOne(s)
    PROVE  ModelsInv'
<1>1. s \in Registry!Entry /\ s \in syncing /\ syncing' = syncing \ {s} /\ synced' = synced \cup {s}
      /\ Registry!UpsertModel(Registry!Spec(s))
  BY DEF Registry!SyncOne, ModelsInv, ModelsTyped
<1>2. Registry!Spec(s) \in Registry!Model
  BY <1>1 DEF Registry!Spec, Registry!Model, Registry!Entry
<1>3. UNCHANGED <<loaded, snapshot, checking, opening, serving, collections, points, backups>>
  BY DEF Registry!SyncOne, Registry!nodes, Registry!stored
<1>4. syncing' \subseteq Registry!Entry
  BY <1>1 DEF ModelsInv, ModelsTyped
<1>5. SyncInForce'
  <2> SUFFICES ASSUME \A a, b \in synced' : a.kind = b.kind \/ a.id = b.id => a = b,
                      NEW t \in synced'
               PROVE  Registry!Spec(t) \in registry'
    BY DEF SyncInForce, Registry!Spec
  <2>1. CASE t = s
    BY <1>1, <1>2, <2>1, UpsertEffect
  <2>2. CASE t # s
    <3>1. Registry!Spec(t) \in registry
      BY <1>1, <2>2 DEF ModelsInv, SyncInForce
    <3>2. Registry!Spec(t).id # Registry!Spec(s).id /\ Registry!Spec(t).kind # Registry!Spec(s).kind
      BY <1>1, <2>2 DEF Registry!Spec
    <3> QED
      BY <1>1, <1>2, <3>1, <3>2, UpsertEffect
  <2> QED
    BY <2>1, <2>2
<1> QED
  BY <1>1, <1>2, <1>3, <1>4, <1>5, UpsertKeeps DEF ModelsInv

\* The start of a sync, and one that fails, only forget what was registered.
LEMMA ForgettingKeepsModels ==
    ASSUME ModelsInv,
           \/ \E specs \in Sync : Registry!BeginSync(specs)
           \/ Registry!SyncFails
    PROVE  ModelsInv'
<1>1. syncing' \subseteq Registry!Entry /\ synced' = {}
  BY ModelsConstants DEF Registry!BeginSync, Registry!SyncFails
<1>2. UNCHANGED <<registry, resized, loaded, snapshot, checking, opening, serving,
                  collections, points, backups>>
  BY DEF Registry!BeginSync, Registry!SyncFails, Registry!tables, Registry!nodes, Registry!stored
<1>3. ModelsTyped'
  BY <1>1, <1>2 DEF ModelsInv, ModelsTyped, Registry!ModelsTypeOK, Registry!Active, ModelNode
<1>4. ReadingsFit' /\ CentralHasOpened'
  BY <1>2 DEF ModelsInv, ReadingsFit, Registered, CentralHasOpened, HasCollection, ModelNode
<1>5. Registry!CollectionsKeepToOneModel' /\ Registry!BackupsFit'
  BY <1>2 DEF ModelsInv, Registry!CollectionsKeepToOneModel, Registry!BackupsFit
<1>6. SyncInForce'
  BY <1>1 DEF SyncInForce
<1> QED
  BY <1>3, <1>4, <1>5, <1>6 DEF ModelsInv

\* What is in the registry fits it.
LEMMA RowsAreRegistered ==
    ASSUME ModelsInv
    PROVE  /\ Registry!Active \subseteq Registry!Model
           /\ \A m \in Registry!Active : Registered(m.id, m.size)
BY DEF ModelsInv, ModelsTyped, Registry!ModelsTypeOK, Registry!Active, Registered

\* Nodes read, verify, start and stop: the registry and the vectors stay.
LEMMA NodesKeepModels ==
    ASSUME ModelsInv,
           UNCHANGED <<registry, resized, points, backups, syncing, synced>>,
           collections \subseteq collections',
           ModelsTyped', ReadingsFit', CentralHasOpened'
    PROVE  ModelsInv'
<1>1. Registry!CollectionsKeepToOneModel' /\ Registry!BackupsFit'
  BY DEF ModelsInv, Registry!CollectionsKeepToOneModel, Registry!BackupsFit
<1>2. SyncInForce'
  BY DEF ModelsInv, SyncInForce, Registry!Spec
<1> QED
  BY <1>1, <1>2 DEF ModelsInv

LEMMA ReadingKeepsModels ==
    ASSUME ModelsInv, NEW w \in Worker,
           Registry!ReadModels(w) \/ Registry!VerifyNodeModels(w)
    PROVE  ModelsInv'
<1>1. UNCHANGED <<registry, resized, loaded, opening, serving, collections, points, backups,
                  syncing, synced>>
  BY DEF Registry!ReadModels, Registry!VerifyNodeModels, Registry!tables, Registry!stored
<1>2. /\ snapshot \in [ModelNode -> SUBSET Registry!Model]
      /\ checking \in [Worker -> SUBSET Registry!Model]
      /\ w \in ModelNode /\ Central \in ModelNode /\ w # Central
  BY ModelsConstants DEF ModelsInv, ModelsTyped, ModelNode
<1>3. /\ snapshot' \in [ModelNode -> SUBSET Registry!Model]
      /\ checking' \in [Worker -> SUBSET Registry!Model]
      /\ \A n \in ModelNode : n # w => snapshot'[n] = snapshot[n]
      /\ \A v \in Worker : v # w => checking'[v] = checking[v]
      /\ \A m \in snapshot'[w] \cup checking'[w] : Registered(m.id, m.size)
  <2>1. CASE Registry!ReadModels(w)
    BY <1>2, <2>1, RowsAreRegistered DEF Registry!ReadModels, ModelsInv, ReadingsFit
  <2>2. CASE Registry!VerifyNodeModels(w)
    BY <1>2, <2>2 DEF Registry!VerifyNodeModels, ModelsInv, ReadingsFit
  <2> QED
    BY <2>1, <2>2
<1>4. ModelsTyped'
  BY <1>1, <1>2, <1>3 DEF ModelsInv, ModelsTyped, Registry!ModelsTypeOK, Registry!Active, ModelNode
<1>5. \A id, size : Registered(id, size)' = Registered(id, size)
  BY <1>1 DEF Registered
<1>6. ReadingsFit'
  <2>1. ASSUME NEW n \in ModelNode, NEW m \in snapshot'[n]
        PROVE  Registered(m.id, m.size)
    BY <1>3, <2>1 DEF ModelsInv, ReadingsFit
  <2>2. ASSUME NEW v \in Worker, NEW m \in checking'[v]
        PROVE  Registered(m.id, m.size)
    BY <1>3, <2>2 DEF ModelsInv, ReadingsFit
  <2> QED
    BY <1>5, <2>1, <2>2 DEF ReadingsFit, ModelNode
<1>7. CentralHasOpened'
  BY <1>1, <1>2, <1>3 DEF ModelsInv, CentralHasOpened, HasCollection
<1> QED
  BY <1>1, <1>4, <1>6, <1>7, NodesKeepModels

\* The central node starts with what is active, all of it yet to open.
LEMMA StartKeepsModels ==
    ASSUME ModelsInv, NEW crawl \in BOOLEAN, Registry!StartCentral(crawl)
    PROVE  ModelsInv'
<1>1. /\ UNCHANGED <<registry, resized, loaded, checking, serving, collections, points, backups,
                     syncing, synced>>
      /\ snapshot[Central] = {} /\ Registry!Active # {} /\ opening' = Registry!Active
      /\ snapshot' = [snapshot EXCEPT ![Central] = Registry!Active]
  BY DEF Registry!StartCentral, Registry!tables, Registry!stored
<1>2. snapshot \in [ModelNode -> SUBSET Registry!Model] /\ Central \in ModelNode
  BY DEF ModelsInv, ModelsTyped, ModelNode
<1>3. /\ snapshot' \in [ModelNode -> SUBSET Registry!Model]
      /\ snapshot'[Central] = Registry!Active
      /\ \A n \in ModelNode : n # Central => snapshot'[n] = snapshot[n]
  BY <1>1, <1>2, RowsAreRegistered
<1>4. ~serving
  BY <1>1 DEF ModelsInv, ModelsTyped, Registry!ModelsTypeOK
<1>5. ModelsTyped'
  BY <1>1, <1>2, <1>3, <1>4 DEF ModelsInv, ModelsTyped, Registry!ModelsTypeOK, Registry!Active, ModelNode
<1>6. \A id, size : Registered(id, size)' = Registered(id, size)
  BY <1>1 DEF Registered
<1>7. ReadingsFit'
  <2>1. ASSUME NEW n \in ModelNode, NEW m \in snapshot'[n]
        PROVE  Registered(m.id, m.size)
    BY <1>3, <2>1, RowsAreRegistered DEF ModelsInv, ReadingsFit
  <2> QED
    BY <1>1, <1>6, <2>1 DEF ModelsInv, ReadingsFit, ModelNode
<1>8. CentralHasOpened'
  BY <1>1, <1>3 DEF CentralHasOpened
<1> QED
  BY <1>1, <1>5, <1>7, <1>8, NodesKeepModels

\* A model whose collection was opened has it, and no other has the name.
LEMMA OpenedHasCollection ==
    ASSUME ModelsInv, NEW m \in Registry!Model, Registry!Opened(m)
    PROVE  /\ HasCollection(m.in, m.id, m.size)'
           /\ collections \subseteq collections'
           /\ \A c, d \in collections' : c.name = d.name => c = d
<1> DEFINE Made1 == [name |-> m.in, id |-> m.id, size |-> m.size]
<1>1. \A c, d \in collections : c.name = d.name => c = d
  BY DEF ModelsInv, ModelsTyped, Registry!ModelsTypeOK
<1>2. CASE Registry!CollectionOf(m.in) # {}
  <2>1. collections' = collections
    BY <1>2 DEF Registry!Opened
  <2>2. PICK c \in collections : c.name = m.in /\ c.id = m.id /\ c.size = m.size
    BY <1>2 DEF Registry!Opened, Registry!Fits, Registry!CollectionOf
  <2> QED
    BY <1>1, <2>1, <2>2 DEF HasCollection
<1>3. CASE Registry!CollectionOf(m.in) = {}
  <2>1. collections' = collections \cup {Made1}
    BY <1>3 DEF Registry!Opened
  <2>2. Made1.name = m.in /\ Made1.id = m.id /\ Made1.size = m.size
    OBVIOUS
  <2>3. \A c \in collections : c.name # m.in
    BY <1>3 DEF Registry!CollectionOf
  <2> HIDE DEF Made1
  <2> QED
    BY <1>1, <2>1, <2>2, <2>3 DEF HasCollection
<1> QED
  BY <1>2, <1>3

LEMMA OpeningKeepsModels ==
    ASSUME ModelsInv, NEW m \in opening, Registry!EnsureCollection(m)
    PROVE  ModelsInv'
<1>1. UNCHANGED <<registry, resized, loaded, checking, points, backups, syncing, synced>>
  BY DEF Registry!EnsureCollection, Registry!tables
<1>2. /\ snapshot \in [ModelNode -> SUBSET Registry!Model] /\ Central \in ModelNode
      /\ opening \subseteq snapshot[Central] /\ m \in Registry!Model
  BY DEF ModelsInv, ModelsTyped, Registry!ModelsTypeOK, ModelNode
<1>3. \A id, size : Registered(id, size)' = Registered(id, size)
  BY <1>1 DEF Registered
<1>4. CASE /\ Registry!Opened(m)
           /\ opening' = opening \ {m} /\ serving' = (opening' = {})
           /\ UNCHANGED snapshot
  <2>1. /\ HasCollection(m.in, m.id, m.size)' /\ collections \subseteq collections'
        /\ \A c, d \in collections' : c.name = d.name => c = d
    BY <1>2, <1>4, OpenedHasCollection
  <2>2. ModelsTyped'
    BY <1>1, <1>2, <1>4, <2>1
       DEF ModelsInv, ModelsTyped, Registry!ModelsTypeOK, Registry!Active, ModelNode
  <2>3. ReadingsFit'
    BY <1>1, <1>3, <1>4 DEF ModelsInv, ReadingsFit, ModelNode
  <2>4. CentralHasOpened'
    BY <1>4, <2>1 DEF ModelsInv, CentralHasOpened, HasCollection
  <2> QED
    BY <1>1, <2>1, <2>2, <2>3, <2>4, NodesKeepModels
<1>5. CASE /\ opening' = {} /\ snapshot' = [snapshot EXCEPT ![Central] = {}]
           /\ UNCHANGED <<collections, serving>>
  <2>1. /\ snapshot' \in [ModelNode -> SUBSET Registry!Model] /\ snapshot'[Central] = {}
        /\ \A n \in ModelNode : n # Central => snapshot'[n] = snapshot[n]
    BY <1>2, <1>5
  <2>2. ~serving
    BY DEF ModelsInv, ModelsTyped, Registry!ModelsTypeOK
  <2>3. ModelsTyped'
    BY <1>1, <1>2, <1>5, <2>1, <2>2
       DEF ModelsInv, ModelsTyped, Registry!ModelsTypeOK, Registry!Active, ModelNode
  <2>4. ReadingsFit'
    <3>1. ASSUME NEW n \in ModelNode, NEW o \in snapshot'[n]
          PROVE  Registered(o.id, o.size)
      BY <2>1, <3>1 DEF ModelsInv, ReadingsFit
    <3> QED
      BY <1>1, <1>3, <3>1 DEF ModelsInv, ReadingsFit, ModelNode
  <2>5. CentralHasOpened'
    BY <1>5, <2>1 DEF CentralHasOpened
  <2> QED
    BY <1>1, <1>5, <2>3, <2>4, <2>5, NodesKeepModels
<1> QED
  BY <1>4, <1>5 DEF Registry!EnsureCollection

LEMMA StopKeepsModels ==
    ASSUME ModelsInv, NEW n \in ModelNode, Registry!Stop(n)
    PROVE  ModelsInv'
<1>1. /\ UNCHANGED <<registry, resized, loaded, checking, collections, points, backups, syncing, synced>>
      /\ snapshot' = [snapshot EXCEPT ![n] = {}]
      /\ IF n = Central THEN opening' = {} /\ serving' = FALSE ELSE UNCHANGED <<opening, serving>>
  BY DEF Registry!Stop, Registry!tables, Registry!stored
<1>2. snapshot \in [ModelNode -> SUBSET Registry!Model] /\ Central \in ModelNode
  BY DEF ModelsInv, ModelsTyped, ModelNode
<1>3. /\ snapshot' \in [ModelNode -> SUBSET Registry!Model] /\ snapshot'[n] = {}
      /\ \A o \in ModelNode : o # n => snapshot'[o] = snapshot[o]
  BY <1>1, <1>2
<1>4. \A id, size : Registered(id, size)' = Registered(id, size)
  BY <1>1 DEF Registered
<1>5. ModelsTyped'
  <2>1. CASE n = Central
    BY <1>1, <1>2, <1>3, <2>1 DEF ModelsInv, ModelsTyped, Registry!ModelsTypeOK, Registry!Active, ModelNode
  <2>2. CASE n # Central
    BY <1>1, <1>2, <1>3, <2>2 DEF ModelsInv, ModelsTyped, Registry!ModelsTypeOK, Registry!Active, ModelNode
  <2> QED
    BY <2>1, <2>2
<1>6. ReadingsFit'
  <2>1. ASSUME NEW o \in ModelNode, NEW m \in snapshot'[o]
        PROVE  Registered(m.id, m.size)
    BY <1>3, <2>1 DEF ModelsInv, ReadingsFit
  <2> QED
    BY <1>1, <1>4, <2>1 DEF ModelsInv, ReadingsFit, ModelNode
<1>7. CentralHasOpened'
  BY <1>1, <1>2, <1>3 DEF ModelsInv, CentralHasOpened, HasCollection
<1> QED
  BY <1>1, <1>5, <1>6, <1>7, NodesKeepModels

LEMMA ReloadKeepsModels ==
    ASSUME ModelsInv, NEW n \in ModelNode, NEW made \in Loads, Registry!ReloadWorker(n, made)
    PROVE  ModelsInv'
<1>1. /\ UNCHANGED <<registry, resized, snapshot, checking, opening, serving, collections, points,
                     backups, syncing, synced>>
      /\ loaded' = [loaded EXCEPT ![n] = made]
  BY DEF Registry!ReloadWorker, Registry!tables, Registry!stored
<1>2. loaded' \in [ModelNode -> Loads]
  BY <1>1 DEF ModelsInv, ModelsTyped
<1>3. ModelsTyped'
  <2>1. \A o \in DOMAIN snapshot' : loaded'[o] \subseteq Registry!Made
    BY <1>1, <1>2, ModelsConstants DEF ModelsInv, ModelsTyped
  <2> QED
    BY <1>1, <1>2, <2>1 DEF ModelsInv, ModelsTyped, Registry!ModelsTypeOK, Registry!Active, ModelNode
<1>4. ReadingsFit' /\ CentralHasOpened'
  BY <1>1 DEF ModelsInv, ReadingsFit, Registered, CentralHasOpened, HasCollection, ModelNode
<1> QED
  BY <1>1, <1>3, <1>4, NodesKeepModels

\* New vectors are of registered models, and of the collections' own.
LEMMA VectorsKeepModels ==
    ASSUME ModelsInv,
           UNCHANGED <<registry, resized, loaded, snapshot, checking, opening, serving,
                       syncing, synced>>,
           collections \subseteq collections',
           \A c, d \in collections' : c.name = d.name => c = d,
           NEW B \in SUBSET Registry!Made, NEW P,
           backups' = backups \cup B, points' = points \cup P,
           \A v \in B : Registered(v.id, v.size),
           \A p \in P : HasCollection(p.in, p.id, p.size)'
    PROVE  ModelsInv'
<1>1. ModelsTyped'
  BY DEF ModelsInv, ModelsTyped, Registry!ModelsTypeOK, Registry!Active, ModelNode
<1>2. ReadingsFit' /\ CentralHasOpened'
  BY DEF ModelsInv, ReadingsFit, Registered, CentralHasOpened, HasCollection, ModelNode
<1>3. Registry!CollectionsKeepToOneModel'
  <2>1. ASSUME NEW p \in points
        PROVE  HasCollection(p.in, p.id, p.size)'
    BY <2>1 DEF ModelsInv, Registry!CollectionsKeepToOneModel, HasCollection
  <2> QED
    BY <2>1 DEF Registry!CollectionsKeepToOneModel, HasCollection
<1>4. Registry!BackupsFit'
  <2>1. \A v \in backups : Registered(v.id, v.size)
    BY DEF ModelsInv, Registry!BackupsFit, Registered
  <2> QED
    BY <2>1 DEF Registry!BackupsFit, Registered
<1>5. SyncInForce'
  BY DEF ModelsInv, SyncInForce, Registry!Spec
<1> QED
  BY <1>1, <1>2, <1>3, <1>4, <1>5 DEF ModelsInv

\* A worker that carries a model makes the model's vectors of its size only.
LEMMA CarriedHasSize ==
    ASSUME NEW made \in Loads, NEW v \in made, NEW m, Registry!Carries(made, m), m.id = v.id
    PROVE  m.size = v.size
BY ModelsConstants DEF Registry!Carries, Registry!OnePerId

LEMMA SubmitKeepsModels ==
    ASSUME ModelsInv, NEW n \in ModelNode, Registry!Submit(n)
    PROVE  ModelsInv'
<1> DEFINE P == {Registry!Indexed(v) : v \in loaded[n]}
<1>1. /\ UNCHANGED <<registry, resized, loaded, snapshot, checking, opening, serving, collections,
                     syncing, synced>>
      /\ serving /\ backups' = backups \cup loaded[n] /\ points' = points \cup P
      /\ Registry!Valid(loaded[n], snapshot[Central]) /\ Registry!Known(loaded[n])
  BY DEF Registry!Submit, Registry!Refused, Registry!tables, Registry!nodes
<1>2. loaded[n] \in Loads /\ loaded[n] \subseteq Registry!Made /\ opening = {} /\ Central \in ModelNode
      /\ \A c, d \in collections : c.name = d.name => c = d
  BY <1>1, ModelsConstants DEF ModelsInv, ModelsTyped, Registry!ModelsTypeOK, ModelNode
<1>3. ASSUME NEW v \in loaded[n], NEW m \in snapshot[Central], m.id = v.id
      PROVE  m.size = v.size
  BY <1>1, <1>2, <1>3, CarriedHasSize DEF Registry!Valid
<1>4. ASSUME NEW v \in loaded[n]
      PROVE  Registered(v.id, v.size)
  <2>1. PICK m \in snapshot[Central] : m.id = v.id
    BY <1>1 DEF Registry!Known
  <2>2. Registered(m.id, m.size)
    BY <1>2 DEF ModelsInv, ReadingsFit
  <2> QED
    BY <1>3, <2>1, <2>2
<1>5. ASSUME NEW v \in loaded[n]
      PROVE  LET p == Registry!Indexed(v) IN HasCollection(p.in, p.id, p.size)
  <2> DEFINE m == CHOOSE o \in snapshot[Central] : o.id = v.id
  <2>1. m \in snapshot[Central] /\ m.id = v.id
    BY <1>1 DEF Registry!Known
  <2>2. m.size = v.size
    BY <1>3, <2>1
  <2>3. HasCollection(m.in, m.id, m.size)
    BY <1>2, <2>1 DEF ModelsInv, CentralHasOpened
  <2>4. Registry!Indexed(v).in = m.in /\ Registry!Indexed(v).id = v.id /\ Registry!Indexed(v).size = v.size
    BY DEF Registry!Indexed, Registry!Home
  <2> HIDE DEF m
  <2> QED
    BY <2>1, <2>2, <2>3, <2>4
<1>6. \A p \in P : HasCollection(p.in, p.id, p.size)'
  BY <1>1, <1>5 DEF HasCollection
<1> HIDE DEF P
<1> QED
  BY <1>1, <1>2, <1>4, <1>6, VectorsKeepModels

LEMMA ReembedKeepsModels ==
    ASSUME ModelsInv, NEW m \in Registry!Active, Registry!ReembedModel(m)
    PROVE  ModelsInv'
<1>1. /\ UNCHANGED <<registry, resized, loaded, snapshot, checking, opening, serving,
                     syncing, synced>>
      /\ Registry!Opened(m)
  BY DEF Registry!ReembedModel, Registry!tables, Registry!nodes
<1>2. PICK v \in loaded[Central] :
        /\ v.id = m.id /\ v.size = m.size
        /\ backups' = backups \cup {v}
        /\ points' = points \cup {[in |-> m.in, id |-> v.id, size |-> v.size, weights |-> v.weights]}
  BY DEF Registry!ReembedModel
<1>3. m \in Registry!Model /\ Registered(m.id, m.size) /\ v \in Registry!Made
  BY <1>2, RowsAreRegistered DEF ModelsInv, ModelsTyped, Registry!ModelsTypeOK, ModelNode
<1>4. /\ HasCollection(m.in, m.id, m.size)' /\ collections \subseteq collections'
      /\ \A c, d \in collections' : c.name = d.name => c = d
  BY <1>1, <1>3, OpenedHasCollection
<1> DEFINE p == [in |-> m.in, id |-> v.id, size |-> v.size, weights |-> v.weights]
<1>5. p.in = m.in /\ p.id = m.id /\ p.size = m.size /\ points' = points \cup {p}
  BY <1>2
<1> HIDE DEF p
<1>6. \A q \in {p} : HasCollection(q.in, q.id, q.size)'
  BY <1>4, <1>5
<1>7. \A w \in {v} : Registered(w.id, w.size)
  BY <1>2, <1>3
<1>8. {v} \in SUBSET Registry!Made
  BY <1>3
<1> QED
  BY <1>1, <1>2, <1>4, <1>5, <1>6, <1>7, <1>8, VectorsKeepModels, ZenonT(60)

LEMMA InitHasModels ==
    ASSUME Registry!ModelsInit
    PROVE  ModelsInv
<1>1. /\ registry = {} /\ resized = {} /\ synced = {} /\ syncing = {}
      /\ loaded \in [ModelNode -> Loads]
      /\ snapshot = [n \in ModelNode |-> {}] /\ checking = [w \in Worker |-> {}]
      /\ opening = {} /\ serving = FALSE
      /\ collections = {} /\ points = {} /\ backups = {}
  BY DEF Registry!ModelsInit, ModelNode
<1>2. \A n \in ModelNode : loaded[n] \subseteq Registry!Made
  BY <1>1, ModelsConstants
<1>3. ModelsTyped
  BY <1>1, <1>2 DEF ModelsTyped, Registry!ModelsTypeOK, Registry!OnePerId, Registry!Active, ModelNode
<1>4. ReadingsFit /\ CentralHasOpened /\ SyncInForce
  BY <1>1 DEF ReadingsFit, CentralHasOpened, SyncInForce, ModelNode
<1>5. Registry!CollectionsKeepToOneModel /\ Registry!BackupsFit
  BY <1>1 DEF Registry!CollectionsKeepToOneModel, Registry!BackupsFit
<1> QED
  BY <1>3, <1>4, <1>5 DEF ModelsInv

\* Whatever is registered, read, started, stopped, reloaded and submitted in
\* whatever order, vectors of two models never meet in a collection, a backed-up
\* vector has the size its model was registered with, and a finished sync is in
\* force: for any models, sizes, nodes and embedding workers.
THEOREM ModelsAreKeptApart == CrawlSpec => []VectorsKeepToOneModel
<1>1. CrawlInit => ModelsInv
  BY InitHasModels DEF CrawlInit
<1>2. ModelsInv /\ [CrawlNext]_<<part, vars, queue, scan, plan, rate, path, models>> => ModelsInv'
  <2> SUFFICES ASSUME ModelsInv, CrawlNext \/ UNCHANGED models
               PROVE  ModelsInv'
    OBVIOUS
  <2>1. CASE UNCHANGED models
    <3>1. UNCHANGED <<registry, resized, loaded, snapshot, checking, opening, serving,
                      collections, points, backups, syncing, synced>>
      BY <2>1 DEF models
    <3>2. ModelsTyped'
      BY <3>1 DEF ModelsInv, ModelsTyped, Registry!ModelsTypeOK, Registry!Active, ModelNode
    <3>3. ReadingsFit' /\ CentralHasOpened'
      BY <3>1 DEF ModelsInv, ReadingsFit, Registered, CentralHasOpened, HasCollection, ModelNode
    <3> QED
      BY <3>1, <3>2, <3>3, NodesKeepModels
  <2>2. CASE Registry!ModelsNext
    BY <2>2, AddKeepsModels, SyncKeepsModels, ForgettingKeepsModels, ReadingKeepsModels,
       StartKeepsModels, OpeningKeepsModels, StopKeepsModels, SubmitKeepsModels,
       ReloadKeepsModels, ReembedKeepsModels
       DEF Registry!ModelsNext, ModelNode
  <2> QED
    BY <2>1, <2>2 DEF CrawlNext
<1>3. ModelsInv => VectorsKeepToOneModel
  BY DEF ModelsInv, ModelsTyped, SyncInForce, VectorsKeepToOneModel, Registry!SyncTakesEffect
<1> QED
  BY <1>1, <1>2, <1>3, PTL DEF CrawlSpec

-----------------------------------------------------------------------------
(* The network path. *)

\* What a path that carries a request has shown, what the table of probes
\* says, and what a request has left to try.
PathInv ==
    /\ Path!NetPathTypeOK
    /\ Path!ChosenHasAnswered /\ Path!FailedMeansAllFailed
    /\ \A m \in Path!Mode : probes[m] = "ok" => m \in answered
    /\ \A r \in Requester : req[r] = "looking" => Path!Turn(r) = Ech
    /\ \A r \in Requester : req[r] = "carried" => todo[r] # {} /\ Path!Turn(r) \in answered
    /\ \A r \in Requester : req[r] \in {"trying", "looking"} => todo[r] \cup refused[r] = Path!Clients

LEMMA PathConstants ==
    /\ Unready \subseteq Path!Mode /\ Path!Clients # {} /\ None \notin Path!Mode
    /\ Path!Clients \subseteq Path!Mode
BY PartsAssumption DEF Path!NetPathAssumption, Path!Clients

LEMMA PlaceIsANumber ==
    ASSUME NEW m \in Path!Mode
    PROVE  Path!Place(m) \in Nat
<1>1. Len(Order) = 3
  BY DEF Order
<1> QED
  BY <1>1 DEF Path!Mode, Path!Place

\* The first of some paths is one of them.
LEMMA FirstIsOneOf ==
    ASSUME NEW ms \in SUBSET Path!Mode, ms # {}
    PROVE  Path!FirstOf(ms) \in ms
<1> DEFINE places == {Path!Place(m) : m \in ms}
<1>1. places \in SUBSET Nat /\ places # {}
  BY PlaceIsANumber
<1>2. PICK i \in places : \A j \in places : i <= j
  BY <1>1, HasLeast
<1>3. \E m \in ms : \A o \in ms : Path!Place(m) <= Path!Place(o)
  BY <1>2
<1> QED
  BY <1>3 DEF Path!FirstOf

LEMMA TurnIsToDo ==
    ASSUME Path!NetPathTypeOK, NEW r \in Requester, todo[r] # {}
    PROVE  Path!Turn(r) \in todo[r] /\ Path!Turn(r) \in Path!Mode
<1>1. todo[r] \in SUBSET Path!Mode
  BY PathConstants DEF Path!NetPathTypeOK
<1> QED
  BY <1>1, FirstIsOneOf DEF Path!Turn

LEMMA PreferredIsPath ==
    ASSUME Path!NetPathTypeOK
    PROVE  Path!Preferred \in Path!Clients
<1>1. Path!FirstOf(Path!Clients) \in Path!Clients
  BY PathConstants, FirstIsOneOf
<1> QED
  BY <1>1 DEF Path!Preferred, Path!NetPathTypeOK, Path!Clients

\* A row of a path that has answered, or of one that has failed.
LEMMA RowIsHonest ==
    ASSUME PathInv, NEW m \in Path!Mode, NEW result \in {"none", "ok", "failed"},
           result = "ok" => m \in answered', answered \subseteq answered',
           Path!Row(m, result) \/ UNCHANGED probes
    PROVE  /\ probes' \in [Path!Mode -> {"none", "ok", "failed"}]
           /\ \A o \in Path!Mode : probes'[o] = "ok" => o \in answered'
BY DEF PathInv, Path!NetPathTypeOK, Path!Row

\* How it stands with one request.
RequestHonest(r) ==
    /\ req[r] = "failed" => refused[r] = Path!Clients
    /\ req[r] = "looking" => Path!Turn(r) = Ech
    /\ req[r] = "carried" => todo[r] # {} /\ Path!Turn(r) \in answered
    /\ req[r] \in {"trying", "looking"} => todo[r] \cup refused[r] = Path!Clients

\* A step of one request leaves the others as they are, and paths that have
\* answered have answered for good.
LEMMA OneRequest ==
    ASSUME PathInv, NEW r \in Requester,
           Path!NetPathTypeOK', Path!ChosenHasAnswered', answered \subseteq answered',
           \A m \in Path!Mode : probes'[m] = "ok" => m \in answered',
           \A q \in Requester \ {r} : /\ req'[q] = req[q] /\ lead'[q] = lead[q]
                                      /\ todo'[q] = todo[q] /\ refused'[q] = refused[q],
           RequestHonest(r)'
    PROVE  PathInv'
<1>1. \A q \in Requester : RequestHonest(q)
  BY DEF PathInv, RequestHonest, Path!FailedMeansAllFailed, Path!Clients
<1>2. ASSUME NEW q \in Requester, q # r
      PROVE  RequestHonest(q)'
  <2>1. RequestHonest(q)
    BY <1>1
  <2>2. Path!Turn(q)' = Path!Turn(q)
    <3>1. Path!Turn(q)' = IF lead'[q] \in todo'[q] THEN lead'[q] ELSE Path!FirstOf(todo'[q])
      BY DEF Path!Turn, Path!FirstOf, Path!Place
    <3>2. Path!Turn(q) = IF lead[q] \in todo[q] THEN lead[q] ELSE Path!FirstOf(todo[q])
      BY DEF Path!Turn
    <3>3. q \in Requester \ {r}
      BY <1>2
    <3> QED
      BY <3>1, <3>2, <3>3
  <2>3. Path!Clients' = Path!Clients
    BY DEF Path!Clients, Path!Mode
  <2> QED
    BY <1>2, <2>1, <2>2, <2>3 DEF RequestHonest
<1>3. \A q \in Requester : RequestHonest(q)'
  BY <1>2
<1> QED
  BY <1>3 DEF PathInv, RequestHonest, Path!FailedMeansAllFailed, Path!Clients

\* The parts of a type that a step leaves alone.
LEMMA DoneKeepsPath ==
    ASSUME PathInv, NEW r \in Requester, Path!Done(r), UNCHANGED <<open, answered, probes>>,
           chosen' \in {None} \cup Path!Clients, chosen' # None => chosen' \in answered,
           ech' \in {"none", "config", "without"}
    PROVE  PathInv'
<1>1. Path!NetPathTypeOK'
  BY PathConstants DEF Path!Done, PathInv, Path!NetPathTypeOK, Path!Clients
<1>2. RequestHonest(r)'
  BY DEF Path!Done, RequestHonest, PathInv, Path!NetPathTypeOK
<1>3. Path!ChosenHasAnswered'
  BY DEF Path!ChosenHasAnswered
<1> QED
  BY <1>1, <1>2, <1>3, OneRequest DEF Path!Done, PathInv, Path!NetPathTypeOK

LEMMA AskKeepsPath ==
    ASSUME PathInv, NEW r \in Requester, Path!Ask(r)
    PROVE  PathInv'
<1>1. Path!NetPathTypeOK'
  BY PathConstants, PreferredIsPath
     DEF Path!Ask, PathInv, Path!NetPathTypeOK, Path!Clients, Path!Candidates
<1>2. req'[r] = "trying" /\ todo'[r] = Path!Clients /\ refused'[r] \subseteq Path!Clients
  BY DEF Path!Ask, PathInv, Path!NetPathTypeOK, Path!Clients, Path!Candidates
<1>3. RequestHonest(r)'
  BY <1>2 DEF RequestHonest, Path!Clients, Path!Mode
<1> QED
  BY <1>1, <1>3, OneRequest DEF Path!Ask, PathInv, Path!NetPathTypeOK, Path!ChosenHasAnswered

LEMMA LookUpKeepsPath ==
    ASSUME PathInv, NEW r \in Requester, Path!LookUp(r)
    PROVE  PathInv'
<1>1. Path!NetPathTypeOK'
  BY DEF Path!LookUp, PathInv, Path!NetPathTypeOK
<1>2. Path!Turn(r)' = Path!Turn(r)
  BY DEF Path!LookUp, Path!Turn, Path!FirstOf, Path!Place
<1>3. RequestHonest(r)'
  BY <1>2 DEF Path!LookUp, RequestHonest, PathInv, Path!NetPathTypeOK, Path!Clients
<1> QED
  BY <1>1, <1>3, OneRequest DEF Path!LookUp, PathInv, Path!NetPathTypeOK, Path!ChosenHasAnswered

LEMMA FoundIsEntry ==
    ASSUME PathInv, NEW r \in Requester, NEW e \in Path!Found(r)
    PROVE  /\ todo[r] # {} /\ req[r] \in {"trying", "looking"}
           /\ Path!Entry(r, e) \in {"none", "config", "without"}
BY DEF Path!Found, Path!Entry, PathInv, Path!NetPathTypeOK

LEMMA CarryKeepsPath ==
    ASSUME PathInv, NEW r \in Requester, Path!Carry(r)
    PROVE  PathInv'
<1>1. /\ todo[r] # {} /\ ech' \in {"none", "config", "without"}
      /\ answered' = answered \cup {Path!Turn(r)}
      /\ req' = [req EXCEPT ![r] = "carried"]
      /\ UNCHANGED <<open, chosen, probes, lead, todo, refused>>
  BY FoundIsEntry DEF Path!Carry
<1>2. Path!Turn(r) \in todo[r] /\ Path!Turn(r) \in Path!Mode
  BY <1>1, TurnIsToDo DEF PathInv
<1>3. Path!NetPathTypeOK'
  BY <1>1, <1>2 DEF PathInv, Path!NetPathTypeOK
<1>4. Path!Turn(r)' = Path!Turn(r)
  BY <1>1 DEF Path!Turn, Path!FirstOf, Path!Place
<1>5. RequestHonest(r)'
  BY <1>1, <1>4 DEF RequestHonest, PathInv, Path!NetPathTypeOK
<1>6. Path!ChosenHasAnswered'
  BY <1>1 DEF PathInv, Path!ChosenHasAnswered
<1> QED
  BY <1>1, <1>3, <1>5, <1>6, OneRequest DEF PathInv, Path!NetPathTypeOK

LEMMA RememberKeepsPath ==
    ASSUME PathInv, NEW r \in Requester, Path!Remember(r)
    PROVE  PathInv'
<1>1. Path!Turn(r) \in todo[r] /\ Path!Turn(r) \in Path!Mode /\ Path!Turn(r) \in answered
  BY TurnIsToDo DEF PathInv, Path!Remember
<1>2. /\ probes' \in [Path!Mode -> {"none", "ok", "failed"}]
      /\ \A o \in Path!Mode : probes'[o] = "ok" => o \in answered'
  BY <1>1, RowIsHonest DEF Path!Remember
<1>3. chosen' = Path!Turn(r) /\ chosen' \in Path!Clients
  BY <1>1 DEF Path!Remember, Path!Remembered, PathInv, Path!NetPathTypeOK, Path!Clients
<1>4. Path!NetPathTypeOK'
  BY <1>2, <1>3, PathConstants
     DEF Path!Remember, Path!Done, PathInv, Path!NetPathTypeOK, Path!Clients
<1>5. RequestHonest(r)'
  BY DEF Path!Remember, Path!Done, RequestHonest, PathInv, Path!NetPathTypeOK
<1>6. Path!ChosenHasAnswered'
  BY <1>1, <1>3 DEF Path!Remember, Path!ChosenHasAnswered
<1> QED
  BY <1>2, <1>4, <1>5, <1>6, OneRequest DEF Path!Remember, Path!Done, PathInv, Path!NetPathTypeOK

LEMMA DescendKeepsPath ==
    ASSUME PathInv, NEW r \in Requester, Path!Descend(r)
    PROVE  PathInv'
<1>1. /\ todo[r] # {} /\ ech' \in {"none", "config", "without"}
      /\ req[r] \in {"trying", "looking"}
  BY FoundIsEntry DEF Path!Descend
<1>2. Path!Turn(r) \in todo[r] /\ Path!Turn(r) \in Path!Mode
  BY <1>1, TurnIsToDo DEF PathInv
<1>3. /\ probes' \in [Path!Mode -> {"none", "ok", "failed"}]
      /\ \A o \in Path!Mode : probes'[o] = "ok" => o \in answered'
  BY <1>2, RowIsHonest DEF Path!Descend
<1>4. Path!NetPathTypeOK'
  BY <1>1, <1>2, <1>3 DEF Path!Descend, PathInv, Path!NetPathTypeOK
<1>5. RequestHonest(r)'
  <2>1. todo[r] \cup refused[r] = Path!Clients
    BY <1>1 DEF PathInv
  <2>2. /\ req'[r] = "trying" /\ todo'[r] = todo[r] \ {Path!Turn(r)}
        /\ refused'[r] = refused[r] \cup {Path!Turn(r)}
    BY DEF Path!Descend, PathInv, Path!NetPathTypeOK
  <2>3. todo'[r] \cup refused'[r] = Path!Clients
    BY <1>2, <2>1, <2>2
  <2> QED
    BY <2>2, <2>3 DEF RequestHonest, Path!Clients, Path!Mode
<1> QED
  BY <1>3, <1>4, <1>5, OneRequest DEF Path!Descend, PathInv, Path!NetPathTypeOK, Path!ChosenHasAnswered

LEMMA GiveUpKeepsPath ==
    ASSUME PathInv, NEW r \in Requester, Path!GiveUp(r)
    PROVE  PathInv'
<1>1. Path!NetPathTypeOK'
  BY DEF Path!GiveUp, PathInv, Path!NetPathTypeOK
<1>2. RequestHonest(r)'
  BY DEF Path!GiveUp, RequestHonest, PathInv, Path!NetPathTypeOK, Path!Clients
<1> QED
  BY <1>1, <1>2, OneRequest DEF Path!GiveUp, PathInv, Path!NetPathTypeOK, Path!ChosenHasAnswered

LEMMA EndKeepsPath ==
    ASSUME PathInv, NEW r \in Requester, Path!AskAgain(r) \/ Path!End(r)
    PROVE  PathInv'
<1>1. Path!Done(r) /\ UNCHANGED <<open, answered, probes, chosen>>
      /\ ech' \in {"none", "config", "without"}
  BY DEF Path!AskAgain, Path!End, PathInv, Path!NetPathTypeOK
<1> QED
  BY <1>1, DoneKeepsPath DEF PathInv, Path!NetPathTypeOK, Path!Clients, Path!ChosenHasAnswered

\* What happens beside the requests leaves them as they are.
LEMMA BesideRequests ==
    ASSUME PathInv, UNCHANGED <<req, lead, todo, refused>>,
           Path!NetPathTypeOK', Path!ChosenHasAnswered', answered \subseteq answered',
           \A m \in Path!Mode : probes'[m] = "ok" => m \in answered'
    PROVE  PathInv'
<1>1. \A r \in Requester : Path!Turn(r)' = Path!Turn(r)
  BY DEF Path!Turn, Path!FirstOf, Path!Place
<1>2. Path!Clients' = Path!Clients
  BY DEF Path!Clients, Path!Mode
<1>3. Path!FailedMeansAllFailed'
  BY <1>2 DEF PathInv, Path!FailedMeansAllFailed, Path!Clients
<1>4. \A r \in Requester : /\ req'[r] = "looking" => Path!Turn(r)' = Ech
                           /\ req'[r] = "carried" => todo'[r] # {} /\ Path!Turn(r)' \in answered'
  BY <1>1 DEF PathInv
<1>5. \A r \in Requester :
        req'[r] \in {"trying", "looking"} => todo'[r] \cup refused'[r] = Path!Clients'
  BY <1>2 DEF PathInv
<1> QED
  BY <1>3, <1>4, <1>5 DEF PathInv

LEMMA ProbeKeepsPath ==
    ASSUME PathInv, NEW m \in Path!Mode, Path!Probe(m) \/ Path!Age(m)
    PROVE  PathInv'
<1>1. /\ answered \subseteq answered' /\ answered' \subseteq Path!Mode
      /\ UNCHANGED <<open, chosen, ech, req, lead, todo, refused>>
  BY DEF Path!Probe, Path!Age, PathInv, Path!NetPathTypeOK
<1>2. PICK result \in {"none", "ok", "failed"} :
        (result = "ok" => m \in answered') /\ Path!Row(m, result)
  BY DEF Path!Probe, Path!Age
<1>3. /\ probes' \in [Path!Mode -> {"none", "ok", "failed"}]
      /\ \A o \in Path!Mode : probes'[o] = "ok" => o \in answered'
  BY <1>1, <1>2, RowIsHonest
<1>4. Path!NetPathTypeOK'
  BY <1>1, <1>3 DEF PathInv, Path!NetPathTypeOK
<1>5. Path!ChosenHasAnswered'
  BY <1>1 DEF PathInv, Path!ChosenHasAnswered
<1> QED
  BY <1>1, <1>3, <1>4, <1>5, BesideRequests

LEMMA NetworkKeepsPath ==
    ASSUME PathInv, Path!EchExpires \/ Path!Changes
    PROVE  PathInv'
<1>1. /\ UNCHANGED <<chosen, probes, req, lead, todo, refused, answered>>
      /\ open' \subseteq Path!Mode \ Unready /\ ech' \in {"none", "config", "without"}
  BY DEF Path!EchExpires, Path!Changes, PathInv, Path!NetPathTypeOK
<1>2. Path!NetPathTypeOK'
  BY <1>1 DEF PathInv, Path!NetPathTypeOK
<1>3. Path!ChosenHasAnswered'
  BY <1>1 DEF PathInv, Path!ChosenHasAnswered
<1> QED
  BY <1>1, <1>2, <1>3, BesideRequests DEF PathInv

\* A start forgets the requests and takes its path from the rows that count.
LEMMA RestartKeepsPath ==
    ASSUME PathInv, Path!Restart
    PROVE  PathInv'
<1>1. /\ UNCHANGED <<open, probes, answered>> /\ ech' = "none"
      /\ req' = [r \in Requester |-> "idle"] /\ lead' = [r \in Requester |-> None]
      /\ todo' = [r \in Requester |-> {}] /\ refused' = [r \in Requester |-> {}]
  BY DEF Path!Restart
<1>2. chosen' \in {None} \cup Path!Clients /\ (chosen' # None => chosen' \in answered)
  BY DEF Path!Restart, Path!BestPaths, Path!Primed, PathInv, Path!Clients
<1>3. Path!NetPathTypeOK'
  BY <1>1, <1>2 DEF PathInv, Path!NetPathTypeOK, Path!Clients
<1>4. Path!ChosenHasAnswered' /\ Path!FailedMeansAllFailed'
  BY <1>1, <1>2 DEF Path!ChosenHasAnswered, Path!FailedMeansAllFailed
<1> QED
  BY <1>1, <1>3, <1>4 DEF PathInv

LEMMA InitHasPath ==
    ASSUME Path!NetPathInit
    PROVE  PathInv
<1>1. /\ open \in SUBSET (Path!Mode \ Unready) /\ chosen = None /\ ech = "none"
      /\ answered \in SUBSET Unready
      /\ probes = [m \in Path!Mode |-> IF m \in answered THEN "ok" ELSE "none"]
      /\ req = [r \in Requester |-> "idle"] /\ lead = [r \in Requester |-> None]
      /\ todo = [r \in Requester |-> {}] /\ refused = [r \in Requester |-> {}]
  BY DEF Path!NetPathInit
<1>2. Path!NetPathTypeOK
  BY <1>1, PathConstants DEF Path!NetPathTypeOK
<1>3. Path!ChosenHasAnswered /\ Path!FailedMeansAllFailed
  BY <1>1 DEF Path!ChosenHasAnswered, Path!FailedMeansAllFailed
<1> QED
  BY <1>1, <1>2, <1>3 DEF PathInv

\* "every path has failed" is said of a request only when each path has failed
\* it, and the path preferred has carried an answer once, for any number of
\* racing requests, changes of the network, probes and restarts.
THEOREM PathsStayHonest == CrawlSpec => []PathsAreHonest
<1>1. CrawlInit => PathInv
  BY InitHasPath DEF CrawlInit
<1>2. PathInv /\ [CrawlNext]_<<part, vars, queue, scan, plan, rate, path, models>> => PathInv'
  <2> SUFFICES ASSUME PathInv, CrawlNext \/ UNCHANGED path
               PROVE  PathInv'
    OBVIOUS
  <2>1. CASE UNCHANGED path
    <3>1. Path!NetPathTypeOK' /\ Path!ChosenHasAnswered'
      BY <2>1 DEF path, PathInv, Path!NetPathTypeOK, Path!ChosenHasAnswered
    <3> QED
      BY <2>1, <3>1, BesideRequests DEF path, PathInv
  <2>2. CASE Path!NetPathNext
    BY <2>2, AskKeepsPath, LookUpKeepsPath, CarryKeepsPath, RememberKeepsPath, DescendKeepsPath,
       GiveUpKeepsPath, EndKeepsPath, ProbeKeepsPath, NetworkKeepsPath, RestartKeepsPath
       DEF Path!NetPathNext, Path!DoStep
  <2> QED
    BY <2>1, <2>2 DEF CrawlNext
<1>3. PathInv => PathsAreHonest
  BY DEF PathInv, PathsAreHonest
<1> QED
  BY <1>1, <1>2, <1>3, PTL DEF CrawlSpec

-----------------------------------------------------------------------------
(* The pages a range is read in. *)

\* Each post found is found once, in the part of the range above the cursor,
\* where none is missing; what is published later lies above the range.
ScanInv ==
    /\ Scan!PageScanTypeOK
    /\ bounds[1] \in 1 .. MaxPost /\ bounds[2] \in 1 .. MaxPost /\ bounds[1] <= bounds[2]
    /\ cursor <= bounds[2] + 1
    /\ \E p \in posts : bounds[2] <= p
    /\ \A p \in 1 .. MaxPost : found[p] <= 1 /\ (found[p] > 0 => p \in Scan!Wanted /\ cursor <= p)
    /\ nameless = {} /\ scanning # "failed" =>
          \A p \in posts \cap Scan!Wanted : cursor <= p \/ scanning = "done" => found[p] = 1

\* The cardinality a scan uses is the one the library's facts are about.
LEMMA ScanCounts == \A S : Scan!Cardinality(S) = Cardinality(S)
BY DEF Scan!Cardinality, Cardinality, Scan!IsFiniteSet, IsFiniteSet

LEMMA ScanConstants == MaxPost \in Nat /\ PageSize \in Nat \ {0}
BY PartsAssumption DEF Scan!PageScanAssumption

LEMMA MatchingIsFinite ==
    ASSUME ScanInv
    PROVE  /\ Scan!Matching \in SUBSET (0 .. MaxPost) /\ IsFiniteSet(Scan!Matching)
           /\ \A p \in Scan!Matching : p \in posts /\ bounds[1] <= p /\ p < cursor
           /\ Scan!Listed \subseteq Scan!Matching
<1>1. Scan!Matching \in SUBSET (0 .. MaxPost)
  <2>1. posts \subseteq 1 .. MaxPost
    BY DEF ScanInv, Scan!PageScanTypeOK
  <2>2. posts \subseteq 0 .. MaxPost
    BY <2>1, ScanConstants
  <2> QED
    BY <2>2 DEF Scan!Matching
<1>2. IsFiniteSet(0 .. MaxPost)
  BY ScanConstants, FS_Interval
<1>3. IsFiniteSet(Scan!Matching)
  BY <1>1, <1>2, FS_Subset
<1> QED
  BY <1>1, <1>3 DEF Scan!Matching, Scan!Listed

Above(p) == {q \in Scan!Matching : q > p}

LEMMA AboveCounts ==
    ASSUME ScanInv, NEW p \in Scan!Matching
    PROVE  /\ IsFiniteSet(Above(p)) /\ Cardinality(Above(p)) \in Nat
           /\ p \in Scan!Listed <=> Cardinality(Above(p)) < PageSize
<1>1. IsFiniteSet(Above(p))
  BY MatchingIsFinite, FS_Subset DEF Above
<1>2. Cardinality(Above(p)) \in Nat
  BY <1>1, FS_CardinalityType
<1>3. p \in Scan!Listed <=> Cardinality({q \in Scan!Matching : q > p}) < PageSize
  BY ScanCounts, Zenon DEF Scan!Listed
<1> QED
  BY <1>1, <1>2, <1>3 DEF Above

\* A page is an upper part of what is left,
LEMMA PageIsUpper ==
    ASSUME ScanInv, NEW m \in Scan!Listed, NEW p \in Scan!Matching, m <= p
    PROVE  p \in Scan!Listed
<1>1. m \in Scan!Matching /\ m \in Int /\ p \in Int
  BY MatchingIsFinite
<1>2. Above(p) \subseteq Above(m)
  <2> SUFFICES ASSUME NEW q \in Scan!Matching, q > p
               PROVE  q > m
    BY DEF Above
  <2>1. q \in Int
    BY MatchingIsFinite
  <2> QED
    BY <1>1, <2>1
<1>3. Cardinality(Above(p)) <= Cardinality(Above(m))
  BY <1>1, <1>2, AboveCounts, FS_Subset
<1> QED
  BY <1>1, <1>3, AboveCounts, ScanConstants

\* it is not empty as long as something is left,
LEMMA PageIsNotEmpty ==
    ASSUME ScanInv, Scan!Matching # {}
    PROVE  Scan!Listed # {}
<1>1. PICK p \in Scan!Matching : \A q \in Scan!Matching : q <= p
  BY MatchingIsFinite, HasGreatest, ScanConstants
<1>2. Above(p) = {}
  <2>1. \A q \in Scan!Matching : q \in Int
    BY MatchingIsFinite
  <2> QED
    BY <1>1, <2>1 DEF Above
<1>3. Cardinality(Above(p)) = 0
  BY <1>2, FS_EmptySet
<1> QED
  BY <1>3, AboveCounts, ScanConstants

\* and a short one is all that is left.
LEMMA ShortPageIsLast ==
    ASSUME ScanInv, Cardinality(Scan!Listed) < PageSize
    PROVE  Scan!Listed = Scan!Matching
<1> DEFINE Left == Scan!Matching \ Scan!Listed
<1> SUFFICES ASSUME Left # {}
             PROVE  FALSE
  BY MatchingIsFinite
<1>1. Left \in SUBSET (0 .. MaxPost)
  BY MatchingIsFinite
<1>2. PICK p \in Left : \A q \in Left : q <= p
  BY <1>1, HasGreatest, ScanConstants
<1>3. Above(p) \subseteq Scan!Listed
  <2>1. \A q \in Scan!Matching : q \in Int
    BY MatchingIsFinite
  <2> QED
    BY <1>2, <2>1 DEF Above
<1>4. IsFiniteSet(Scan!Listed) /\ Cardinality(Scan!Listed) \in Nat
  BY MatchingIsFinite, FS_Subset, FS_CardinalityType
<1>5. Cardinality(Above(p)) <= Cardinality(Scan!Listed)
  BY <1>3, <1>4, FS_Subset
<1>6. Cardinality(Above(p)) < PageSize
  BY <1>2, <1>4, <1>5, AboveCounts, ScanConstants
<1> QED
  BY <1>2, <1>6, AboveCounts

\* The lowest id of a page is one of them.
LEMMA LowestOfPage ==
    ASSUME NEW got \in SUBSET (0 .. MaxPost), got # {}
    PROVE  Scan!Min(got) \in got /\ \A q \in got : Scan!Min(got) <= q
<1>1. got \in SUBSET Nat
  BY ScanConstants
<1>2. \E x \in got : \A y \in got : x <= y
  BY <1>1, HasLeast
<1>3. \E x \in got : \A y \in got : x =< y
  BY <1>2
<1> QED
  BY <1>3 DEF Scan!Min

LEMMA FetchKeepsScan ==
    ASSUME ScanInv, Scan!FetchPage
    PROVE  ScanInv'
<1> DEFINE got == Scan!Fetched
           left == Scan!Matching
<1>0. /\ scanning = "page" /\ cursor > bounds[1] /\ UNCHANGED <<posts, nameless, bounds>>
      /\ found' = [p \in 1 .. MaxPost |-> IF p \in got THEN found[p] + 1 ELSE found[p]]
      /\ got = {} => scanning' = "done" /\ cursor' = cursor
      /\ got # {} => /\ scanning' = IF Scan!LastPage(got) THEN "done" ELSE "page"
                     /\ cursor' = Scan!Min(got)
  BY DEF Scan!FetchPage, Scan!NextCursor
<1>1. /\ posts \subseteq 1 .. MaxPost /\ nameless \subseteq posts
      /\ cursor \in 1 .. MaxPost + 1 /\ found \in [1 .. MaxPost -> Nat]
      /\ bounds[1] \in 1 .. MaxPost /\ bounds[2] \in 1 .. MaxPost /\ cursor <= bounds[2] + 1
      /\ MaxPost \in Nat
  BY ScanConstants DEF ScanInv, Scan!PageScanTypeOK
<1>2. /\ got \in SUBSET (0 .. MaxPost)
      /\ \A p \in got : p \in 1 .. MaxPost /\ bounds[1] <= p /\ p < cursor
  BY <1>1, MatchingIsFinite DEF Scan!Fetched
<1>3. got # {} => /\ cursor' \in got
                  /\ \A q \in got : cursor' <= q
  BY <1>0, <1>2, LowestOfPage
<1> HIDE DEF got
<1>4. cursor' \in 1 .. MaxPost + 1 /\ cursor' <= cursor
  <2>1. CASE got = {}
    BY <1>0, <1>1, <2>1
  <2>2. CASE got # {}
    <3>1. cursor' \in got
      BY <1>3, <2>2
    <3>2. cursor' \in 1 .. MaxPost /\ cursor' < cursor
      BY <1>2, <3>1
    <3> QED
      BY <1>1, <3>2
  <2> QED
    BY <2>1, <2>2
<1>5. found' \in [1 .. MaxPost -> Nat]
  BY <1>0, <1>1
<1>6. scanning' \in {"page", "done"}
  BY <1>0
<1>7. Scan!PageScanTypeOK'
  BY <1>0, <1>1, <1>4, <1>5, <1>6 DEF Scan!PageScanTypeOK
<1>8. Scan!Wanted = bounds[1] .. bounds[2] /\ Scan!Wanted' = Scan!Wanted
  BY <1>0 DEF Scan!Wanted
<1>9. ASSUME NEW p \in 1 .. MaxPost
      PROVE  found'[p] <= 1 /\ (found'[p] > 0 => p \in Scan!Wanted' /\ cursor' <= p)
  <2>1. found[p] \in Nat /\ found[p] <= 1 /\ (found[p] > 0 => p \in Scan!Wanted /\ cursor <= p)
    BY <1>1 DEF ScanInv
  <2>2. CASE p \in got
    <3>1. p < cursor /\ p \in Scan!Wanted
      BY <1>1, <1>2, <1>8, <2>2
    <3>2. found[p] = 0
      BY <1>1, <2>1, <3>1
    <3>3. found'[p] = 1 /\ cursor' <= p
      BY <1>0, <1>3, <2>2, <3>2
    <3> QED
      BY <1>8, <3>1, <3>3
  <2>3. CASE p \notin got
    BY <1>0, <1>1, <1>4, <1>8, <2>1, <2>3
  <2> QED
    BY <2>2, <2>3
<1>10. ASSUME nameless' = {}, NEW p \in posts' \cap Scan!Wanted', cursor' <= p \/ scanning' = "done"
       PROVE  found'[p] = 1
  <2>1. nameless = {} /\ got = Scan!Listed /\ p \in posts /\ p \in 1 .. MaxPost /\ p \in Scan!Wanted
    BY <1>0, <1>1, <1>8, <1>10 DEF Scan!Fetched, got
  <2>2. CASE cursor <= p
    <3>1. found[p] = 1
      BY <1>0, <2>1, <2>2 DEF ScanInv
    <3>2. p \notin got
      BY <1>1, <1>2, <2>1, <2>2
    <3> QED
      BY <1>0, <2>1, <3>1, <3>2
  <2>3. CASE p < cursor
    <3>1. p \in left /\ left \in SUBSET (0 .. MaxPost)
      BY <1>8, <2>1, <2>3, MatchingIsFinite DEF Scan!Matching
    <3>2. got # {}
      BY <2>1, <3>1, PageIsNotEmpty
    <3>3. p \in got
      <4>1. CASE cursor' <= p
        BY <1>3, <2>1, <3>1, <3>2, <4>1, PageIsUpper
      <4>2. CASE scanning' = "done" /\ cursor' <= bounds[1]
        <5>1. cursor' <= p
          BY <1>1, <1>4, <1>8, <2>1, <4>2
        <5> QED
          BY <1>3, <2>1, <3>1, <3>2, <5>1, PageIsUpper
      <4>3. CASE scanning' = "done" /\ ~(cursor' <= bounds[1])
        <5>1. Scan!Cardinality(got) < PageSize
          BY <1>0, <3>2, <4>3 DEF Scan!LastPage
        <5> QED
          BY <2>1, <3>1, <5>1, ShortPageIsLast, ScanCounts
      <4> QED
        BY <1>10, <4>1, <4>2, <4>3
    <3>4. found[p] = 0
      BY <1>1, <2>1, <2>3 DEF ScanInv
    <3> QED
      BY <1>0, <2>1, <3>3, <3>4
  <2> QED
    BY <1>1, <2>1, <2>2, <2>3
<1>11. cursor' <= bounds'[2] + 1
  BY <1>0, <1>1, <1>4
<1> QED
  BY <1>0, <1>7, <1>9, <1>10, <1>11 DEF ScanInv

\* A range that ends needs no further page.
LEMMA EndKeepsScan ==
    ASSUME ScanInv, Scan!ScanEnds \/ Scan!ScanFails
    PROVE  ScanInv'
<1>1. /\ scanning = "page" /\ UNCHANGED <<posts, nameless, bounds, cursor, found>>
      /\ scanning' = "failed" \/ (scanning' = "done" /\ cursor <= bounds[1])
  BY DEF Scan!ScanEnds, Scan!ScanFails
<1>2. Scan!PageScanTypeOK'
  BY <1>1 DEF ScanInv, Scan!PageScanTypeOK
<1>3. Scan!Wanted' = Scan!Wanted
  BY <1>1 DEF Scan!Wanted
<1>4. ASSUME nameless = {}, scanning' # "failed", NEW p \in posts \cap Scan!Wanted
      PROVE  found[p] = 1
  <2>1. cursor \in Int /\ p \in Int /\ bounds[1] <= p /\ bounds[1] \in Int
    BY DEF ScanInv, Scan!PageScanTypeOK, Scan!Wanted
  <2>2. cursor <= p
    BY <1>1, <1>4, <2>1
  <2> QED
    BY <1>1, <1>4, <2>2 DEF ScanInv
<1> QED
  BY <1>1, <1>2, <1>3, <1>4 DEF ScanInv

\* What is published meanwhile is newer than the range.
LEMMA PublishKeepsScan ==
    ASSUME ScanInv, Scan!Publish
    PROVE  ScanInv'
<1> DEFINE new == Scan!Max(posts) + 1
<1>1. /\ scanning = "page" /\ UNCHANGED <<nameless, bounds, cursor, found, scanning>>
      /\ Scan!Max(posts) < MaxPost /\ posts' = posts \cup {new}
  BY DEF Scan!Publish
<1>2. /\ posts \subseteq 1 .. MaxPost /\ MaxPost \in Nat
      /\ bounds[2] \in 1 .. MaxPost
  BY ScanConstants DEF ScanInv, Scan!PageScanTypeOK
<1>3. posts \in SUBSET (0 .. MaxPost)
  BY <1>2
<1>4. PICK top \in posts : bounds[2] <= top
  BY DEF ScanInv
<1>5. \E x \in posts : \A y \in posts : x >= y
  <2>1. PICK x \in posts : \A y \in posts : y <= x
    BY <1>2, <1>3, <1>4, HasGreatest
  <2> QED
    BY <1>2, <2>1
<1>6. Scan!Max(posts) \in posts /\ Scan!Max(posts) >= top
  BY <1>4, <1>5 DEF Scan!Max
<1>7. new \in 1 .. MaxPost /\ new > bounds[2]
  <2>1. Scan!Max(posts) \in 1 .. MaxPost /\ top \in 1 .. MaxPost
    BY <1>2, <1>4, <1>6
  <2> QED
    BY <1>1, <1>2, <1>4, <1>6, <2>1
<1> HIDE DEF new
<1>8. Scan!PageScanTypeOK'
  BY <1>1, <1>2, <1>7 DEF ScanInv, Scan!PageScanTypeOK
<1>9. Scan!Wanted' = Scan!Wanted /\ new \notin Scan!Wanted
  BY <1>1, <1>2, <1>7 DEF Scan!Wanted
<1> QED
  BY <1>1, <1>4, <1>8, <1>9 DEF ScanInv

LEMMA InitHasScan ==
    ASSUME Scan!PageScanInit
    PROVE  ScanInv
<1>0. bounds \in (1 .. MaxPost) \X (1 .. MaxPost) /\ bounds[1] <= bounds[2]
      /\ bounds[2] <= Scan!Max(posts)
  BY DEF Scan!PageScanInit
<1>1. /\ posts \in SUBSET (1 .. MaxPost) /\ posts # {} /\ nameless \subseteq posts
      /\ bounds[1] \in 1 .. MaxPost /\ bounds[2] \in 1 .. MaxPost
      /\ bounds[1] <= bounds[2] /\ bounds[2] <= Scan!Max(posts)
      /\ cursor = bounds[2] + 1 /\ found = [p \in 1 .. MaxPost |-> 0] /\ scanning = "page"
      /\ MaxPost \in Nat
  BY <1>0, ScanConstants DEF Scan!PageScanInit
<1>2. posts \in SUBSET (0 .. MaxPost)
  BY <1>1
<1>3. \E x \in posts : \A y \in posts : x >= y
  <2>1. PICK x \in posts : \A y \in posts : y <= x
    BY <1>1, <1>2, HasGreatest
  <2> QED
    BY <1>1, <2>1
<1>4. Scan!Max(posts) \in posts
  BY <1>3 DEF Scan!Max
<1>5. Scan!PageScanTypeOK
  BY <1>1 DEF Scan!PageScanTypeOK
<1>6. ASSUME NEW p \in Scan!Wanted
      PROVE  ~(cursor <= p)
  BY <1>1, <1>6 DEF Scan!Wanted
<1>7. \A p \in 1 .. MaxPost : found[p] = 0
  BY <1>1
<1>8. \E p \in posts : bounds[2] <= p
  BY <1>1, <1>4
<1>9. cursor <= bounds[2] + 1
  BY <1>1
<1>10. scanning = "page"
  BY <1>1
<1> QED
  BY <1>0, <1>1, <1>5, <1>6, <1>7, <1>8, <1>9, <1>10 DEF ScanInv

-----------------------------------------------------------------------------
(* The planning of missing ranges. *)

\* Multiples of d that differ lie d apart,
LEMMA MultiplesApart ==
    ASSUME NEW d \in Nat \ {0}, NEW x \in Nat, NEW y \in Nat, x % d = 0, y % d = 0, x < y
    PROVE  x + d <= y
<1>1. x = d * (x \div d) /\ y = d * (y \div d) /\ x \div d \in Nat /\ y \div d \in Nat
  OBVIOUS
<1>2. x \div d < y \div d
  <2> SUFFICES ASSUME y \div d <= x \div d
               PROVE  FALSE
    BY <1>1
  <2>1. d * (y \div d) <= d * (x \div d)
    BY <1>1
  <2> QED
    BY <1>1, <2>1
<1>3. d * (x \div d + 1) <= d * (y \div d)
  BY <1>1, <1>2
<1>4. d * (x \div d + 1) = d * (x \div d) + d
  BY <1>1
<1> QED
  BY <1>1, <1>3, <1>4

\* and none is far below a number.
LEMMA MultipleBelow ==
    ASSUME NEW d \in Nat \ {0}, NEW x \in Nat
    PROVE  \E y \in 0 .. x : y % d = 0 /\ x < y + d
<1> DEFINE k == x \div d
<1>1. k \in Nat
  OBVIOUS
<1>2. d * k <= x /\ x < d * k + d
  OBVIOUS
<1> HIDE DEF k
<1>3. d * k \in Nat /\ (d * k) % d = 0
  BY <1>1
<1> QED
  BY <1>2, <1>3

LEMMA PlanConstants == MaxId \in Nat /\ Sizes \subseteq Nat \ {0}
BY PartsAssumption DEF Plan!CoverageAssumption

LEMMA SpanIsTyped ==
    ASSUME NEW i \in Plan!Span
    PROVE  i[1] \in Nat /\ i[2] \in Nat /\ i[1] \in 1 .. MaxId /\ i[2] \in 1 .. MaxId /\ i[1] <= i[2]
           /\ i = <<i[1], i[2]>>
<1>1. i \in (1 .. MaxId) \X (1 .. MaxId) /\ i[1] <= i[2]
  BY DEF Plan!Span
<1> QED
  BY <1>1, PlanConstants

LEMMA SpanOf ==
    ASSUME NEW a \in 1 .. MaxId, NEW b \in 1 .. MaxId, a <= b
    PROVE  <<a, b>> \in Plan!Span
BY DEF Plan!Span

\* The rows planned for a gap lie in it,
LEMMA PlannedInGap ==
    ASSUME NEW g \in Plan!Span, NEW s \in Sizes, NEW r \in Plan!Planned(g, s)
    PROVE  /\ r \in Plan!Span /\ g[1] <= r[1] /\ r[2] <= g[2]
           /\ r[2] \in Plan!Uppers(g, s) /\ r[1] = Plan!Foot(g, r[2], s)
           /\ r[2] - s < r[1]
<1>1. PICK u \in Plan!Uppers(g, s) : r = <<Plan!Foot(g, u, s), u>>
  BY DEF Plan!Planned
<1>2. /\ u \in Int /\ g[1] <= u /\ u <= g[2] /\ s \in Nat \ {0}
      /\ g[1] \in 1 .. MaxId /\ g[2] \in 1 .. MaxId /\ MaxId \in Nat
  BY PlanConstants, SpanIsTyped DEF Plan!Uppers
<1>3. Plan!Foot(g, u, s) \in Int /\ g[1] <= Plan!Foot(g, u, s) /\ Plan!Foot(g, u, s) <= u
      /\ u - s < Plan!Foot(g, u, s)
  BY <1>2 DEF Plan!Foot
<1>4. r[1] = Plan!Foot(g, u, s) /\ r[2] = u
  BY <1>1
<1>5. r \in Plan!Span
  <2>1. Plan!Foot(g, u, s) \in 1 .. MaxId /\ u \in 1 .. MaxId
    BY <1>2, <1>3
  <2> QED
    BY <1>1, <1>3, <2>1, SpanOf
<1> QED
  BY <1>1, <1>2, <1>3, <1>4, <1>5

\* apart from each other,
LEMMA PlannedApart ==
    ASSUME NEW g \in Plan!Span, NEW s \in Sizes,
           NEW r \in Plan!Planned(g, s), NEW q \in Plan!Planned(g, s), r # q
    PROVE  r[2] < q[1] \/ q[2] < r[1]
<1>1. /\ r \in Plan!Span /\ q \in Plan!Span /\ s \in Nat \ {0} /\ g[2] \in Nat
      /\ r[2] \in Nat /\ q[2] \in Nat /\ r[1] \in Nat /\ q[1] \in Nat
      /\ r[2] <= g[2] /\ q[2] <= g[2] /\ r[2] - s < r[1] /\ q[2] - s < q[1]
  BY PlannedInGap, SpanIsTyped, PlanConstants
<1>2. r[2] # q[2]
  BY PlannedInGap, SpanIsTyped
<1>3. /\ g[2] - r[2] \in Nat /\ g[2] - q[2] \in Nat
      /\ (g[2] - r[2]) % s = 0 /\ (g[2] - q[2]) % s = 0
  BY <1>1, PlannedInGap DEF Plan!Uppers
<1>4. CASE r[2] < q[2]
  <2>1. (g[2] - q[2]) + s <= g[2] - r[2]
    BY <1>1, <1>3, <1>4, MultiplesApart
  <2> QED
    BY <1>1, <2>1
<1>5. CASE q[2] < r[2]
  <2>1. (g[2] - r[2]) + s <= g[2] - q[2]
    BY <1>1, <1>3, <1>5, MultiplesApart
  <2> QED
    BY <1>1, <2>1
<1> QED
  BY <1>1, <1>2, <1>4, <1>5

\* and have all its ids.
LEMMA PlannedCovers ==
    ASSUME NEW g \in Plan!Span, NEW s \in Sizes, NEW i \in Plan!Ids(g)
    PROVE  \E r \in Plan!Planned(g, s) : i \in Plan!Ids(r)
<1>1. /\ s \in Nat \ {0} /\ g[1] \in Nat /\ g[2] \in Nat /\ i \in Nat
      /\ g[1] <= i /\ i <= g[2] /\ g[2] - i \in Nat
  BY PlanConstants, SpanIsTyped DEF Plan!Ids
<1>2. PICK y \in 0 .. g[2] - i : y % s = 0 /\ g[2] - i < y + s
  BY <1>1, MultipleBelow
<1> DEFINE u == g[2] - y
<1>3. u \in Int /\ i <= u /\ u <= g[2] /\ u - s < i /\ g[2] - u = y
  BY <1>1, <1>2
<1> HIDE DEF u
<1>4. u \in Plan!Uppers(g, s)
  BY <1>1, <1>2, <1>3 DEF Plan!Uppers
<1>5. Plan!Foot(g, u, s) \in Int /\ Plan!Foot(g, u, s) <= i
  BY <1>1, <1>3 DEF Plan!Foot
<1>6. <<Plan!Foot(g, u, s), u>> \in Plan!Planned(g, s)
  BY <1>4 DEF Plan!Planned
<1>7. i \in Plan!Ids(<<Plan!Foot(g, u, s), u>>)
  BY <1>1, <1>3, <1>5 DEF Plan!Ids
<1> QED
  BY <1>6, <1>7

LEMMA CoveredBy ==
    ASSUME NEW i
    PROVE  i \in Plan!Covered(rows) <=> \E r \in rows : i \in Plan!Ids(r)
BY DEF Plan!Covered

\* Rows without an id in common lie one above the other.
LEMMA DisjointRows ==
    ASSUME rows \subseteq Plan!Span, Plan!Disjoint(rows), NEW r \in rows, NEW q \in rows, r # q
    PROVE  r[2] < q[1] \/ q[2] < r[1]
<1>1. /\ r[1] \in Nat /\ r[2] \in Nat /\ r[1] <= r[2]
      /\ q[1] \in Nat /\ q[2] \in Nat /\ q[1] <= q[2]
  BY SpanIsTyped
<1>2. \A i \in Int : ~(r[1] <= i /\ i <= r[2] /\ q[1] <= i /\ i <= q[2])
  <2> SUFFICES ASSUME NEW i \in Int, r[1] <= i, i <= r[2], q[1] <= i, i <= q[2]
               PROVE  FALSE
    OBVIOUS
  <2>1. i \in Plan!Ids(r) \cap Plan!Ids(q)
    BY <1>1 DEF Plan!Ids
  <2> QED
    BY <2>1 DEF Plan!Disjoint
<1> QED
  BY <1>1, <1>2

\* Over disjoint rows the walk over neighbours finds the holes, and nothing
\* else.
LEMMA GapsFound ==
    ASSUME rows \subseteq Plan!Span, Plan!Disjoint(rows)
    PROVE  Plan!Gaps = Plan!Holes
<1>1. ASSUME NEW g \in Plan!Gaps
      PROVE  g \in Plan!Holes
  <2>1. PICK n \in rows \X rows :
          /\ Plan!Lag(n[2], n[1]) /\ Plan!GapBelow(n[1], n[2])
          /\ g = <<n[2][2] + 1, n[1][1] - 1>>
    BY DEF Plan!Gaps
  <2> DEFINE r == n[2]
             q == n[1]
  <2>2. /\ r \in rows /\ q \in rows /\ q[1] > r[2] + 1
        /\ g = <<r[2] + 1, q[1] - 1>> /\ g[1] = r[2] + 1 /\ g[2] = q[1] - 1
        /\ \A s \in rows : Plan!Before(s, r) => s = q \/ Plan!Before(s, q)
    BY <2>1 DEF Plan!Lag, Plan!GapBelow
  <2> HIDE DEF r, q
  <2>3. /\ r[1] \in Nat /\ r[2] \in Nat /\ r[1] <= r[2] /\ r[2] \in 1 .. MaxId
        /\ q[1] \in Nat /\ q[2] \in Nat /\ q[1] <= q[2] /\ q[1] \in 1 .. MaxId
        /\ MaxId \in Nat
    BY <2>2, SpanIsTyped, PlanConstants
  <2>4. g \in Plan!Span
    <3>1. r[2] + 1 \in 1 .. MaxId /\ q[1] - 1 \in 1 .. MaxId /\ r[2] + 1 <= q[1] - 1
      BY <2>2, <2>3
    <3> QED
      BY <2>2, <3>1, SpanOf
  <2>5. ASSUME NEW i \in Plan!Ids(g), NEW s \in rows, i \in Plan!Ids(s)
        PROVE  FALSE
    <3>1. /\ i \in Int /\ r[2] < i /\ i < q[1] /\ s[1] <= i /\ i <= s[2]
          /\ s[1] \in Nat /\ s[2] \in Nat
      BY <2>2, <2>3, <2>5, SpanIsTyped DEF Plan!Ids
    <3>2. Plan!Before(s, r)
      BY <2>3, <3>1 DEF Plan!Before
    <3>3. s # q
      BY <2>3, <3>1
    <3>4. s[2] >= q[2]
      BY <2>2, <2>3, <3>1, <3>2, <3>3 DEF Plan!Before
    <3>5. s[2] < q[1] \/ q[2] < s[1]
      BY <2>2, <3>3, DisjointRows
    <3> QED
      BY <2>3, <3>1, <3>4, <3>5
  <2>6. Plan!Ids(g) \cap Plan!Covered(rows) = {}
    BY <2>5, CoveredBy
  <2>7. g[1] - 1 \in Plan!Ids(r) /\ g[2] + 1 \in Plan!Ids(q)
    BY <2>2, <2>3 DEF Plan!Ids
  <2> QED
    BY <2>2, <2>4, <2>6, <2>7, CoveredBy DEF Plan!Holes
<1>2. ASSUME NEW h \in Plan!Holes
      PROVE  h \in Plan!Gaps
  <2>1. /\ h \in Plan!Span /\ h[1] \in Nat /\ h[2] \in Nat /\ h[1] <= h[2] /\ h = <<h[1], h[2]>>
        /\ Plan!Ids(h) \cap Plan!Covered(rows) = {}
    BY SpanIsTyped DEF Plan!Holes
  <2>2. PICK r \in rows : h[1] - 1 \in Plan!Ids(r)
    BY CoveredBy DEF Plan!Holes
  <2>3. PICK q \in rows : h[2] + 1 \in Plan!Ids(q)
    BY CoveredBy DEF Plan!Holes
  <2>4. ASSUME NEW s \in rows
        PROVE  s[2] < h[1] \/ h[2] < s[1]
    <3>1. s[1] \in Nat /\ s[2] \in Nat /\ s[1] <= s[2]
      BY SpanIsTyped
    <3>2. \A i \in Int : h[1] <= i /\ i <= h[2] => ~(s[1] <= i /\ i <= s[2])
      BY <2>1, <3>1, CoveredBy DEF Plan!Ids
    <3> QED
      BY <2>1, <3>1, <3>2
  <2>5. /\ r[1] \in Nat /\ r[2] \in Nat /\ r[1] <= r[2] /\ r[2] = h[1] - 1
        /\ q[1] \in Nat /\ q[2] \in Nat /\ q[1] <= q[2] /\ q[1] = h[2] + 1
    <3>1. /\ r[1] \in Nat /\ r[2] \in Nat /\ q[1] \in Nat /\ q[2] \in Nat
          /\ r[1] <= h[1] - 1 /\ h[1] - 1 <= r[2] /\ q[1] <= h[2] + 1 /\ h[2] + 1 <= q[2]
      BY <2>1, <2>2, <2>3, SpanIsTyped DEF Plan!Ids
    <3> QED
      BY <2>1, <2>4, <3>1
  <2>6. ASSUME NEW s \in rows, Plan!Before(s, r)
        PROVE  s = q \/ Plan!Before(s, q)
    <3>1. s[1] \in Nat /\ s[2] \in Nat /\ s[1] <= s[2]
      BY SpanIsTyped
    <3>2. s # r
      BY <2>5, <2>6 DEF Plan!Before
    <3>3. s[2] >= r[2]
      BY <2>5, <2>6, <3>1 DEF Plan!Before
    <3>4. r[2] < s[1]
      <4>1. s[2] < r[1] \/ r[2] < s[1]
        BY <3>2, DisjointRows
      <4> QED
        BY <2>5, <3>1, <3>3, <4>1
    <3>5. h[2] < s[1]
      BY <2>1, <2>4, <2>5, <3>1, <3>4
    <3>6. CASE s # q
      <4>1. s[2] < q[1] \/ q[2] < s[1]
        BY <3>6, DisjointRows
      <4>2. s[2] > q[2]
        BY <2>1, <2>5, <3>1, <3>5, <4>1
      <4> QED
        BY <4>2 DEF Plan!Before
    <3> QED
      BY <3>6
  <2>7. Plan!Before(q, r) /\ Plan!GapBelow(q, r)
    BY <2>1, <2>5 DEF Plan!Before, Plan!GapBelow
  <2>8. Plan!Lag(r, q)
    BY <2>6, <2>7 DEF Plan!Lag
  <2>9. h = <<r[2] + 1, q[1] - 1>>
    <3>1. h[1] = r[2] + 1 /\ h[2] = q[1] - 1
      BY <2>1, <2>5
    <3> QED
      BY <2>1, <3>1
  <2> DEFINE n == <<q, r>>
  <2>10. n \in rows \X rows /\ n[1] = q /\ n[2] = r
    OBVIOUS
  <2>11. Plan!Lag(n[2], n[1]) /\ Plan!GapBelow(n[1], n[2]) /\ h = <<n[2][2] + 1, n[1][1] - 1>>
    BY <2>7, <2>8, <2>9, <2>10
  <2> HIDE DEF n
  <2> QED
    BY <2>10, <2>11 DEF Plan!Gaps
<1> QED
  BY <1>1, <1>2

\* Two holes are one, or have no id in common.
LEMMA HolesApart ==
    ASSUME NEW g \in Plan!Holes, NEW h \in Plan!Holes, g # h
    PROVE  Plan!Ids(g) \cap Plan!Ids(h) = {}
<1> SUFFICES ASSUME NEW i, i \in Plan!Ids(g), i \in Plan!Ids(h)
             PROVE  FALSE
  OBVIOUS
<1>1. /\ g[1] \in Nat /\ g[2] \in Nat /\ h[1] \in Nat /\ h[2] \in Nat
      /\ g = <<g[1], g[2]>> /\ h = <<h[1], h[2]>> /\ g[1] <= g[2] /\ h[1] <= h[2]
  BY SpanIsTyped DEF Plan!Holes
<1>2. /\ g[1] - 1 \notin Plan!Ids(h) /\ g[2] + 1 \notin Plan!Ids(h)
      /\ h[1] - 1 \notin Plan!Ids(g) /\ h[2] + 1 \notin Plan!Ids(g)
  BY DEF Plan!Holes
<1>3. i \in Int /\ g[1] <= i /\ i <= g[2] /\ h[1] <= i /\ i <= h[2]
  BY <1>1 DEF Plan!Ids
<1>4. g[1] = h[1] /\ g[2] = h[2]
  BY <1>1, <1>2, <1>3 DEF Plan!Ids
<1> QED
  BY <1>1, <1>4

\* A gap between the rows rs, a gap that rows of one size have filled, and gaps
\* that share no id.
IsHole(h, rs) ==
    /\ h \in Plan!Span
    /\ \A r \in rs : Plan!Ids(r) \cap Plan!Ids(h) = {}
    /\ h[1] - 1 \in Plan!Covered(rs) /\ h[2] + 1 \in Plan!Covered(rs)

IsFilled(h, rs, size) ==
    /\ h \in Plan!Span
    /\ Plan!Planned(h, size) \subseteq rs
    /\ \A r \in rs : Plan!Ids(r) \cap Plan!Ids(h) # {} => r \in Plan!Planned(h, size)

SameOrApart(g, h) == g = h \/ Plan!Ids(g) \cap Plan!Ids(h) = {}

FillOf(rs, gaps, size) == rs \cup UNION {Plan!Planned(gap, size) : gap \in gaps}

LEMMA HolesAre ==
    ASSUME NEW h
    PROVE  h \in Plan!Holes <=> IsHole(h, rows)
<1>1. (\A r \in rows : Plan!Ids(r) \cap Plan!Ids(h) = {}) <=> Plan!Ids(h) \cap Plan!Covered(rows) = {}
  BY CoveredBy
<1> QED
  BY <1>1 DEF Plan!Holes, IsHole

LEMMA PlannedIds ==
    ASSUME NEW g \in Plan!Span, NEW s \in Sizes, NEW r \in Plan!Planned(g, s)
    PROVE  r \in Plan!Span /\ Plan!Ids(r) \subseteq Plan!Ids(g)
<1>1. r \in Plan!Span /\ g[1] <= r[1] /\ r[2] <= g[2]
  BY PlannedInGap
<1>2. g[1] \in Nat /\ g[2] \in Nat /\ r[1] \in Nat /\ r[2] \in Nat
  BY <1>1, SpanIsTyped
<1> QED
  BY <1>1, <1>2 DEF Plan!Ids

LEMMA PlannedDisjoint ==
    ASSUME NEW g \in Plan!Span, NEW s \in Sizes,
           NEW r \in Plan!Planned(g, s), NEW q \in Plan!Planned(g, s), r # q
    PROVE  Plan!Ids(r) \cap Plan!Ids(q) = {}
<1>1. r \in Plan!Span /\ q \in Plan!Span
  BY PlannedInGap
<1>2. /\ r[1] \in Nat /\ r[2] \in Nat /\ q[1] \in Nat /\ q[2] \in Nat
      /\ r[2] < q[1] \/ q[2] < r[1]
  BY <1>1, SpanIsTyped, PlannedApart
<1> QED
  BY <1>2 DEF Plan!Ids

\* A fill with one size leaves the rows disjoint,
LEMMA FillIsDisjoint ==
    ASSUME NEW rs \in SUBSET Plan!Span, NEW gaps \in SUBSET Plan!Span, NEW s \in Sizes,
           Plan!Disjoint(rs),
           \A g \in gaps : IsHole(g, rs) \/ IsFilled(g, rs, s),
           \A g, h \in gaps : SameOrApart(g, h)
    PROVE  Plan!Disjoint(FillOf(rs, gaps, s))
<1>1. ASSUME NEW r \in FillOf(rs, gaps, s)
      PROVE  \/ r \in rs
             \/ \E g \in gaps : IsHole(g, rs) /\ r \in Plan!Planned(g, s)
  <2>1. CASE r \in rs
    BY <2>1
  <2>2. ASSUME NEW g \in gaps, r \in Plan!Planned(g, s)
        PROVE  r \in rs \/ \E k \in gaps : IsHole(k, rs) /\ r \in Plan!Planned(k, s)
    BY <2>2 DEF IsFilled
  <2> QED
    BY <2>1, <2>2 DEF FillOf
<1>2. ASSUME NEW r \in rs, NEW g \in gaps, IsHole(g, rs), NEW q \in Plan!Planned(g, s)
      PROVE  Plan!Ids(r) \cap Plan!Ids(q) = {}
  BY <1>2, PlannedIds DEF IsHole
<1>3. ASSUME NEW g \in gaps, NEW h \in gaps,
             NEW r \in Plan!Planned(g, s), NEW q \in Plan!Planned(h, s), r # q
      PROVE  Plan!Ids(r) \cap Plan!Ids(q) = {}
  <2>1. CASE g = h
    BY <1>3, <2>1, PlannedDisjoint
  <2>2. CASE g # h
    <3>1. Plan!Ids(g) \cap Plan!Ids(h) = {}
      BY <2>2 DEF SameOrApart
    <3>2. Plan!Ids(r) \subseteq Plan!Ids(g) /\ Plan!Ids(q) \subseteq Plan!Ids(h)
      BY PlannedIds
    <3> QED
      BY <3>1, <3>2
  <2> QED
    BY <2>1, <2>2
<1>4. ASSUME NEW r \in FillOf(rs, gaps, s), NEW q \in FillOf(rs, gaps, s), r # q
      PROVE  Plan!Ids(r) \cap Plan!Ids(q) = {}
  <2>1. CASE r \in rs /\ q \in rs
    BY <1>4, <2>1 DEF Plan!Disjoint
  <2>2. CASE r \in rs /\ q \notin rs
    BY <1>1, <1>2, <2>2
  <2>3. CASE r \notin rs /\ q \in rs
    BY <1>1, <1>2, <2>3
  <2>4. CASE r \notin rs /\ q \notin rs
    BY <1>1, <1>3, <1>4, <2>4
  <2> QED
    BY <2>1, <2>2, <2>3, <2>4
<1> QED
  BY <1>4 DEF Plan!Disjoint

\* and a gap another operator has read a hole, or filled with that size.
LEMMA FillKeepsGap ==
    ASSUME NEW rs \in SUBSET Plan!Span, NEW gaps \in SUBSET Plan!Span, NEW s \in Sizes,
           NEW h, IsHole(h, rs) \/ IsFilled(h, rs, s),
           \A g \in gaps : SameOrApart(g, h)
    PROVE  IsHole(h, FillOf(rs, gaps, s)) \/ IsFilled(h, FillOf(rs, gaps, s), s)
<1>1. h \in Plan!Span /\ rs \subseteq FillOf(rs, gaps, s)
  BY DEF IsHole, IsFilled, FillOf
<1>2. ASSUME NEW r \in FillOf(rs, gaps, s), Plan!Ids(r) \cap Plan!Ids(h) # {}
      PROVE  r \in rs \/ (h \in gaps /\ r \in Plan!Planned(h, s))
  <2>1. ASSUME NEW g \in gaps, r \in Plan!Planned(g, s)
        PROVE  g = h
    <3>1. Plan!Ids(r) \subseteq Plan!Ids(g)
      BY <2>1, PlannedIds
    <3> QED
      BY <1>2, <3>1 DEF SameOrApart
  <2> QED
    BY <2>1 DEF FillOf
<1>3. CASE h \in gaps
  <2>1. Plan!Planned(h, s) \subseteq FillOf(rs, gaps, s)
    BY <1>3 DEF FillOf
  <2>2. ASSUME NEW r \in rs, Plan!Ids(r) \cap Plan!Ids(h) # {}
        PROVE  r \in Plan!Planned(h, s)
    BY <2>2 DEF IsHole, IsFilled
  <2> QED
    BY <1>1, <1>2, <2>1, <2>2 DEF IsFilled
<1>4. CASE h \notin gaps /\ IsHole(h, rs)
  <2>1. \A r \in FillOf(rs, gaps, s) : Plan!Ids(r) \cap Plan!Ids(h) = {}
    BY <1>2, <1>4 DEF IsHole
  <2>2. Plan!Covered(rs) \subseteq Plan!Covered(FillOf(rs, gaps, s))
    BY <1>1 DEF Plan!Covered
  <2> QED
    BY <1>4, <2>1, <2>2 DEF IsHole
<1>5. CASE h \notin gaps /\ IsFilled(h, rs, s)
  BY <1>1, <1>2, <1>5 DEF IsFilled
<1> QED
  BY <1>3, <1>4, <1>5

\* What holds of the planning.  While one size is used the rows are disjoint,
\* and a gap an operator has read, at whatever time, is still a hole or was
\* filled by another with the very rows this operator would make.
SeenGapsFit ==
    \A o \in Operator : \A g \in seen[o] :
        IsHole(g, rows) \/ \E s \in used : IsFilled(g, rows, s)

SeenGapsApart == \A o, p \in Operator : \A g \in seen[o], h \in seen[p] : SameOrApart(g, h)

OneSize == \A s, t \in used : s = t

PlanInv ==
    /\ Plan!CoverageTypeOK
    /\ OneSize => Plan!Disjoint(rows) /\ SeenGapsFit /\ SeenGapsApart

LEMMA InitHasPlan == Plan!CoverageInit => PlanInv
<1> SUFFICES ASSUME Plan!CoverageInit
             PROVE  PlanInv
  OBVIOUS
<1>1. rows \subseteq Plan!Span /\ Plan!Disjoint(rows) /\ used = {}
  BY DEF Plan!CoverageInit
<1>2. seen \in [Operator -> SUBSET Plan!Span] /\ \A o \in Operator : seen[o] = {}
  BY DEF Plan!CoverageInit
<1> QED
  BY <1>1, <1>2 DEF PlanInv, Plan!CoverageTypeOK, SeenGapsFit, SeenGapsApart

LEMMA GapsKeepPlan ==
    ASSUME PlanInv, NEW o \in Operator, Plan!CoverageGaps(o)
    PROVE  PlanInv'
<1>1. PICK n \in Limits : seen' = [seen EXCEPT ![o] = Plan!Top(Plan!Gaps, n)]
  BY DEF Plan!CoverageGaps
<1> DEFINE new == Plan!Top(Plan!Gaps, n)
<1>2. /\ rows' = rows /\ used' = used
      /\ rows \subseteq Plan!Span /\ used \subseteq Sizes
      /\ seen \in [Operator -> SUBSET Plan!Span]
  BY DEF Plan!CoverageGaps, PlanInv, Plan!CoverageTypeOK
<1>3. new \subseteq Plan!Gaps
  BY DEF Plan!Top
<1>4. Plan!Gaps \subseteq Plan!Span
  <2> SUFFICES ASSUME NEW g \in Plan!Gaps
               PROVE  g \in Plan!Span
    OBVIOUS
  <2>1. PICK m \in rows \X rows :
          Plan!GapBelow(m[1], m[2]) /\ g = <<m[2][2] + 1, m[1][1] - 1>>
    BY DEF Plan!Gaps
  <2>2. m[1] \in Plan!Span /\ m[2] \in Plan!Span /\ m[1][1] > m[2][2] + 1
    BY <1>2, <2>1 DEF Plan!GapBelow
  <2>3. m[2][2] + 1 \in 1 .. MaxId /\ m[1][1] - 1 \in 1 .. MaxId /\ m[2][2] + 1 <= m[1][1] - 1
    <3>1. m[1][1] \in 1 .. MaxId /\ m[2][2] \in 1 .. MaxId /\ MaxId \in Nat
      BY <2>2, SpanIsTyped, PlanConstants
    <3> QED
      BY <2>2, <3>1
  <2> QED
    BY <2>1, <2>3, SpanOf
<1>5. Plan!CoverageTypeOK'
  <2>1. new \in SUBSET Plan!Span /\ seen' = [seen EXCEPT ![o] = new]
    BY <1>1, <1>3, <1>4
  <2> HIDE DEF new
  <2> QED
    BY <1>2, <2>1 DEF Plan!CoverageTypeOK
<1>6. ASSUME OneSize'
      PROVE  (Plan!Disjoint(rows) /\ SeenGapsFit /\ SeenGapsApart)'
  <2>1. OneSize
    BY <1>2, <1>6 DEF OneSize
  <2>2. Plan!Disjoint(rows) /\ SeenGapsFit /\ SeenGapsApart
    BY <2>1 DEF PlanInv
  <2>3. \A g \in new : IsHole(g, rows)
    BY <1>2, <1>3, <2>2, GapsFound, HolesAre
  <2>4. \A p \in Operator : seen'[p] = IF p = o THEN new ELSE seen[p]
    BY <1>1, <1>2
  <2> HIDE DEF new
  <2>5. SeenGapsFit'
    <3>1. \A p \in Operator : \A g \in seen'[p] :
            IsHole(g, rows) \/ \E s \in used : IsFilled(g, rows, s)
      BY <2>2, <2>3, <2>4 DEF SeenGapsFit
    <3> QED
      BY <1>2, <3>1 DEF SeenGapsFit
  <2>6. ASSUME NEW g \in new, NEW h, IsHole(h, rows) \/ \E s \in used : IsFilled(h, rows, s)
        PROVE  SameOrApart(g, h) /\ SameOrApart(h, g)
    <3>1. CASE IsHole(h, rows)
      <4>1. g \in Plan!Holes /\ h \in Plan!Holes
        BY <2>3, <3>1, HolesAre
      <4> QED
        BY <4>1, HolesApart DEF SameOrApart
    <3>2. ASSUME NEW s \in used, IsFilled(h, rows, s)
          PROVE  Plan!Ids(g) \cap Plan!Ids(h) = {}
      <4> SUFFICES ASSUME NEW i \in Plan!Ids(h), i \in Plan!Ids(g)
                   PROVE  FALSE
        OBVIOUS
      <4>1. PICK r \in Plan!Planned(h, s) : i \in Plan!Ids(r)
        BY <1>2, <3>2, PlannedCovers DEF IsFilled
      <4>2. r \in rows
        BY <3>2 DEF IsFilled
      <4> QED
        BY <2>3, <4>1, <4>2 DEF IsHole
    <3> QED
      BY <2>6, <3>1, <3>2 DEF SameOrApart
  <2>7. SeenGapsApart'
    <3>1. ASSUME NEW p \in Operator, NEW q \in Operator, NEW g \in seen'[p], NEW h \in seen'[q]
          PROVE  SameOrApart(g, h)
      <4>1. CASE p = o
        BY <2>3, <2>4, <2>6, <4>1, <2>2 DEF SeenGapsFit
      <4>2. CASE p # o /\ q = o
        BY <2>4, <2>6, <4>2, <2>2 DEF SeenGapsFit
      <4>3. CASE p # o /\ q # o
        BY <2>2, <2>4, <4>3 DEF SeenGapsApart
      <4> QED
        BY <4>1, <4>2, <4>3
    <3> QED
      BY <3>1 DEF SeenGapsApart
  <2> QED
    BY <1>2, <2>2, <2>5, <2>7
<1> QED
  BY <1>5, <1>6 DEF PlanInv

LEMMA PlanKeepsPlan ==
    ASSUME PlanInv, NEW o \in Operator, Plan!PlanGapRanges(o)
    PROVE  PlanInv'
<1>1. PICK s \in Sizes : rows' = FillOf(rows, seen[o], s) /\ used' = used \cup {s}
  BY DEF Plan!PlanGapRanges, FillOf
<1>2. /\ rows \subseteq Plan!Span /\ used \subseteq Sizes
      /\ seen \in [Operator -> SUBSET Plan!Span]
      /\ seen' = [seen EXCEPT ![o] = {}]
  BY DEF Plan!PlanGapRanges, PlanInv, Plan!CoverageTypeOK
<1>3. seen[o] \in SUBSET Plan!Span
  BY <1>2
<1>4. rows' \subseteq Plan!Span
  BY <1>1, <1>2, <1>3, PlannedIds DEF FillOf
<1>5. Plan!CoverageTypeOK'
  BY <1>1, <1>2, <1>4 DEF Plan!CoverageTypeOK
<1>6. ASSUME OneSize'
      PROVE  (Plan!Disjoint(rows) /\ SeenGapsFit /\ SeenGapsApart)'
  <2>1. OneSize /\ \A t \in used : t = s
    BY <1>1, <1>6 DEF OneSize
  <2>2. Plan!Disjoint(rows) /\ SeenGapsFit /\ SeenGapsApart
    BY <2>1 DEF PlanInv
  <2>3. \A p \in Operator : \A g \in seen[p] : IsHole(g, rows) \/ IsFilled(g, rows, s)
    BY <2>1, <2>2 DEF SeenGapsFit
  <2>4. \A p \in Operator : seen'[p] = IF p = o THEN {} ELSE seen[p]
    BY <1>2
  <2>5. Plan!Disjoint(rows')
    <3>1. Plan!Disjoint(FillOf(rows, seen[o], s))
      BY <1>2, <1>3, <2>2, <2>3, FillIsDisjoint DEF SeenGapsApart
    <3> QED
      BY <1>1, <3>1
  <2>6. ASSUME NEW p \in Operator, NEW h \in seen'[p]
        PROVE  IsHole(h, rows') \/ IsFilled(h, rows', s)
    <3>1. h \in seen[p] /\ \A g \in seen[o] : SameOrApart(g, h)
      BY <2>2, <2>4, <2>6 DEF SeenGapsApart
    <3>2. IsHole(h, FillOf(rows, seen[o], s)) \/ IsFilled(h, FillOf(rows, seen[o], s), s)
      BY <1>2, <1>3, <2>3, <3>1, FillKeepsGap
    <3> QED
      BY <1>1, <3>2
  <2>7. SeenGapsFit'
    BY <1>1, <2>6 DEF SeenGapsFit
  <2>8. SeenGapsApart'
    BY <2>2, <2>4 DEF SeenGapsApart
  <2> QED
    BY <2>5, <2>7, <2>8 DEF Plan!Disjoint
<1> QED
  BY <1>5, <1>6 DEF PlanInv

\* A fill covers what its operator was shown.
LEMMA PlanCovers ==
    ASSUME PlanInv, NEW o \in Operator, Plan!CoverageGaps(o) \/ Plan!PlanGapRanges(o),
           NEW p \in Operator, seen[p] # {}, seen'[p] = {}
    PROVE  Plan!Covered(seen[p]) \subseteq Plan!Covered(rows')
<1>1. /\ rows \subseteq Plan!Span /\ seen \in [Operator -> SUBSET Plan!Span]
  BY DEF PlanInv, Plan!CoverageTypeOK
<1>2. ~ Plan!CoverageGaps(o)
  <2> SUFFICES ASSUME Plan!CoverageGaps(o)
               PROVE  FALSE
    OBVIOUS
  <2>1. PICK n \in Limits : seen' = [seen EXCEPT ![o] = Plan!Top(Plan!Gaps, n)]
    BY DEF Plan!CoverageGaps
  <2>2. seen[o] = {} /\ seen'[o] # {}
    BY DEF Plan!CoverageGaps
  <2> QED
    BY <1>1, <2>1, <2>2
<1>3. Plan!PlanGapRanges(o) /\ seen' = [seen EXCEPT ![o] = {}]
  BY <1>2 DEF Plan!PlanGapRanges
<1>4. p = o
  BY <1>1, <1>3
<1>5. PICK s \in Sizes : rows' = FillOf(rows, seen[o], s)
  BY <1>3 DEF Plan!PlanGapRanges, FillOf
<1>6. ASSUME NEW i \in Plan!Covered(seen[o])
      PROVE  i \in Plan!Covered(rows')
  <2>1. PICK g \in seen[o] : i \in Plan!Ids(g)
    BY DEF Plan!Covered
  <2>2. PICK r \in Plan!Planned(g, s) : i \in Plan!Ids(r)
    BY <1>1, <2>1, PlannedCovers
  <2>3. r \in rows'
    BY <1>5, <2>1, <2>2 DEF FillOf
  <2> QED
    BY <2>2, <2>3 DEF Plan!Covered
<1> QED
  BY <1>4, <1>6

LEMMA PlanCounts == \A S : Plan!Cardinality(S) = Cardinality(S)
BY DEF Plan!Cardinality, Cardinality, Plan!IsFiniteSet, IsFiniteSet

\* The properties from the invariant.
LEMMA PlanIsRight ==
    ASSUME PlanInv, IsFiniteSet(used)
    PROVE  Plan!CoverageTypeOK /\ Plan!GapsAreHoles /\ Plan!OneSizeKeepsDisjoint
<1>1. Plan!CoverageTypeOK
  BY DEF PlanInv
<1>2. Plan!GapsAreHoles
  BY <1>1, GapsFound DEF Plan!GapsAreHoles, Plan!CoverageTypeOK
<1>3. ASSUME Cardinality(used) <= 1
      PROVE  Plan!Disjoint(rows)
  <2>1. OneSize
    <3> SUFFICES ASSUME NEW s \in used, NEW t \in used, s # t
                 PROVE  FALSE
      BY DEF OneSize
    <3>1. Cardinality({s, t}) = 2
      <4>1. IsFiniteSet({s}) /\ Cardinality({s}) = 1
        BY FS_Singleton
      <4>2. Cardinality({s} \cup {t}) = Cardinality({s}) + 1
        BY <4>1, FS_AddElement
      <4>3. {s, t} = {s} \cup {t}
        OBVIOUS
      <4> QED
        BY <4>1, <4>2, <4>3
    <3>2. Cardinality({s, t}) <= Cardinality(used)
      BY FS_Subset
    <3>3. Cardinality(used) \in Nat
      BY FS_CardinalityType
    <3> QED
      BY <1>3, <3>1, <3>2, <3>3
  <2> QED
    BY <2>1 DEF PlanInv
<1>4. Plan!OneSizeKeepsDisjoint
  BY <1>3, PlanCounts, Zenon DEF Plan!OneSizeKeepsDisjoint
<1> QED
  BY <1>1, <1>2, <1>4

\* A range read to its end has been read completely, each post once, whatever
\* is published meanwhile; the gaps found are the holes between the rows, a fill
\* covers what its operator was shown, and operators that use one size leave the
\* rows disjoint, for any number of them and any order of reading and filling.
THEOREM RangesAreRead == CrawlSpec => RangesAreComplete
<1> DEFINE v == <<part, vars, queue, scan, plan, rate, path, models>>
           Scanned == part = "scan" => Scan!PageScanTypeOK /\ Scan!ScanIsComplete
           Planned == part = "plan" =>
                        Plan!CoverageTypeOK /\ Plan!GapsAreHoles /\ Plan!OneSizeKeepsDisjoint
           Covers == \A o \in Operator :
                       seen[o] # {} /\ seen'[o] = {} =>
                         Plan!Covered(seen[o]) \subseteq Plan!Covered(rows')
           Used == IsFiniteSet(used)
<1>1. CrawlInit => ScanInv
  BY InitHasScan DEF CrawlInit
<1>2. ScanInv /\ [CrawlNext]_v => ScanInv'
  <2> SUFFICES ASSUME ScanInv, CrawlNext \/ UNCHANGED scan
               PROVE  ScanInv'
    OBVIOUS
  <2>1. CASE UNCHANGED scan
    BY <2>1 DEF scan, ScanInv, Scan!PageScanTypeOK, Scan!Wanted
  <2>2. CASE Scan!PageScanNext
    BY <2>2, FetchKeepsScan, EndKeepsScan, PublishKeepsScan DEF Scan!PageScanNext
  <2> QED
    BY <2>1, <2>2 DEF CrawlNext
<1>3. ScanInv => Scanned
  <2> SUFFICES ASSUME ScanInv
               PROVE  Scan!ScanIsComplete
    BY DEF ScanInv
  <2>1. \A p \in 1 .. MaxPost : found[p] \in Nat /\ found[p] <= 1 /\ (found[p] > 0 => p \in Scan!Wanted)
    BY DEF ScanInv, Scan!PageScanTypeOK
  <2>2. \A p \in 1 .. MaxPost : found[p] <= IF p \in Scan!Wanted THEN 1 ELSE 0
    BY <2>1
  <2>3. scanning = "done" /\ nameless = {} => \A p \in posts \cap Scan!Wanted : found[p] = 1
    BY DEF ScanInv
  <2> QED
    BY <2>2, <2>3 DEF Scan!ScanIsComplete
<1>4. CrawlInit => PlanInv /\ Used
  BY InitHasPlan, FS_EmptySet DEF CrawlInit, Plan!CoverageInit
<1>5. PlanInv /\ Used /\ [CrawlNext]_v => (PlanInv /\ Used)'
  <2> SUFFICES ASSUME PlanInv, Used, CrawlNext \/ UNCHANGED plan
               PROVE  PlanInv' /\ Used'
    OBVIOUS
  <2>1. CASE UNCHANGED plan
    BY <2>1 DEF plan, PlanInv, Plan!CoverageTypeOK, Plan!Disjoint,
       OneSize, SeenGapsFit, SeenGapsApart
  <2>2. CASE Plan!CoverageNext
    BY <2>2, GapsKeepPlan, PlanKeepsPlan, FS_AddElement
       DEF Plan!CoverageNext, Plan!CoverageGaps, Plan!PlanGapRanges
  <2> QED
    BY <2>1, <2>2 DEF CrawlNext
<1>6. PlanInv /\ Used => Planned
  BY PlanIsRight
<1>7. PlanInv /\ [CrawlNext]_v => [Covers]_Plan!coverage
  <2> SUFFICES ASSUME PlanInv, CrawlNext \/ UNCHANGED plan
               PROVE  Covers \/ UNCHANGED plan
    BY DEF plan, Plan!coverage
  <2>1. CASE Plan!CoverageNext
    BY <2>1, PlanCovers DEF Plan!CoverageNext
  <2> QED
    BY <2>1 DEF CrawlNext
<1> HIDE DEF Scanned, Planned, Covers, Used, v
<1> QED
  BY <1>1, <1>2, <1>3, <1>4, <1>5, <1>6, <1>7, PTL
     DEF CrawlSpec, RangesAreComplete, Plan!FillCovers, Scanned, Planned, Covers, v

-----------------------------------------------------------------------------
(* The retry queue.  RetryQueueProofs proves its claims of RetryQueue; here  *)
(* the queue is a part of MCCrawl, so what they say of it is an instance.    *)

QueueProofs == INSTANCE RetryQueueProofs

\* Both instances of RetryQueue say the same: of an item,
LEMMA SameItems ==
    ASSUME NEW item, NEW n, NEW out
    PROVE  /\ Queue!LeasedItem(item, n) = QueueProofs!LeasedItem(item, n)
           /\ Queue!Settled(item, out) = QueueProofs!Settled(item, out)
           /\ Queue!Pended(item) = QueueProofs!Pended(item)
<1>1. Queue!LeasedItem(item, n) = QueueProofs!LeasedItem(item, n)
  BY DEF Queue!LeasedItem, QueueProofs!LeasedItem
<1>2. Queue!Settled(item, out) = QueueProofs!Settled(item, out)
  BY DEF Queue!Settled, QueueProofs!Settled, Queue!Succeeded, QueueProofs!Succeeded,
         Queue!Rescheduled, QueueProofs!Rescheduled, Queue!Released, QueueProofs!Released
<1>3. Queue!Pended(item) = QueueProofs!Pended(item)
  BY DEF Queue!Pended, QueueProofs!Pended
<1> QED
  BY <1>1, <1>2, <1>3

\* of the rows a node gives up,
LEMMA SameReclaimed ==
    ASSUME NEW n
    PROVE  Queue!Reclaimed(n) = QueueProofs!Reclaimed(n)
BY DEF Queue!Reclaimed, QueueProofs!Reclaimed

\* of the start and of every step,
LEMMA SameQueue == Queue!Init = QueueProofs!Init /\ Queue!Next = QueueProofs!Next
<1>1. Queue!Init = QueueProofs!Init
  BY DEF Queue!Init, QueueProofs!Init, Queue!NoItem, QueueProofs!NoItem
<1>2. \A S : Queue!Cardinality(S) = QueueProofs!Cardinality(S)
  BY DEF Queue!Cardinality, QueueProofs!Cardinality, Queue!IsFiniteSet, QueueProofs!IsFiniteSet
<1>3. ASSUME NEW n \in Node PROVE Queue!LeaseRetries(n) = QueueProofs!LeaseRetries(n)
  BY <1>2, SameItems, SMTT(60)
  DEF Queue!LeaseRetries, QueueProofs!LeaseRetries, Queue!Due, QueueProofs!Due
<1>4. ASSUME NEW n \in Node PROVE Queue!Try(n) = QueueProofs!Try(n)
  BY DEF Queue!Try, QueueProofs!Try, Queue!TryAs, QueueProofs!TryAs,
         Queue!HasRoom, QueueProofs!HasRoom, Queue!Outcome, QueueProofs!Outcome
<1>5. ASSUME NEW n \in Node PROVE Queue!Settle(n) = QueueProofs!Settle(n)
  BY SameItems
  DEF Queue!Settle, QueueProofs!Settle, Queue!Fenced, QueueProofs!Fenced
<1>6. ASSUME NEW n \in Node PROVE Queue!Forget(n) = QueueProofs!Forget(n)
  BY DEF Queue!Forget, QueueProofs!Forget
<1>7. ASSUME NEW n \in Node PROVE Queue!LimitNext(n) = QueueProofs!LimitNext(n)
  BY DEF Queue!LimitNext, QueueProofs!LimitNext, Queue!OthersReserve, QueueProofs!OthersReserve,
         Queue!LimitReached, QueueProofs!LimitReached
<1>8. ASSUME NEW n \in Node PROVE Queue!NodeNext(n) = QueueProofs!NodeNext(n)
  BY SameReclaimed
  DEF Queue!NodeNext, QueueProofs!NodeNext, Queue!Start, QueueProofs!Start,
      Queue!Crash, QueueProofs!Crash, Queue!Shutdown, QueueProofs!Shutdown,
      Queue!Sweep, QueueProofs!Sweep, Queue!Cleared, QueueProofs!Cleared
<1>9. ASSUME NEW p \in Posts PROVE Queue!PostNext(p) = QueueProofs!PostNext(p)
  BY SameItems
  DEF Queue!PostNext, QueueProofs!PostNext, Queue!Enqueue, QueueProofs!Enqueue,
      Queue!Expire, QueueProofs!Expire, Queue!DelayOver, QueueProofs!DelayOver
<1>10. Queue!Next = QueueProofs!Next
  BY <1>3, <1>4, <1>5, <1>6, <1>7, <1>8, <1>9
  DEF Queue!Next, QueueProofs!Next, Queue!RetryNext, QueueProofs!RetryNext
<1> QED
  BY <1>1, <1>10

\* and of what is claimed.
LEMMA SameClaims ==
    Queue!TypeOK = QueueProofs!TypeOK /\ Queue!Exclusive = QueueProofs!Exclusive
<1>1. Queue!TypeOK = QueueProofs!TypeOK
  BY DEF Queue!TypeOK, QueueProofs!TypeOK, Queue!Item, QueueProofs!Item,
         Queue!Status, QueueProofs!Status, Queue!Lease, QueueProofs!Lease,
         Queue!Outcome, QueueProofs!Outcome
<1>2. Queue!Exclusive = QueueProofs!Exclusive
  BY DEF Queue!Exclusive, QueueProofs!Exclusive, Queue!Leases, QueueProofs!Leases,
         Queue!Fenced, QueueProofs!Fenced
<1> QED
  BY <1>1, <1>2

\* Of all leases given out on a retry at most one is accepted by FinishRetry,
\* RescheduleRetry and ReleaseRetry, none goes beyond its attempts, and a retry
\* that has succeeded is never put back.
THEOREM RetriesStayFenced == CrawlSpec => RetriesAreFenced
<1> DEFINE v == <<part, vars, queue, scan, plan, rate, path, models>>
           Guarded == part = "queue" => Queue!TypeOK /\ Queue!Exclusive
           Final == \A p \in Posts : items[p].status = "succeeded" => items'[p] = items[p]
<1>1. CrawlInit => QueueProofs!Init
  BY SameQueue DEF CrawlInit
<1>2. [CrawlNext]_v => [QueueProofs!Next]_(QueueProofs!vars)
  <2> SUFFICES ASSUME CrawlNext \/ UNCHANGED queue
               PROVE  QueueProofs!Next \/ UNCHANGED queue
    BY DEF queue, QueueProofs!vars
  <2> QED
    BY SameQueue DEF CrawlNext
<1>3. CrawlSpec => QueueProofs!Spec
  BY <1>1, <1>2, PTL DEF CrawlSpec, QueueProofs!Spec
<1>4. /\ QueueProofs!Spec => []QueueProofs!IInv
      /\ QueueProofs!Spec => []QueueProofs!Exclusive
      /\ QueueProofs!Spec => QueueProofs!SucceededForGood
  BY QueueAssumption, QueueProofs!IInvHolds, QueueProofs!RetriesAreExclusive,
     QueueProofs!SuccessIsFinal
<1>5. QueueProofs!IInv /\ QueueProofs!Exclusive => Guarded
  BY SameClaims DEF QueueProofs!IInv
<1>6. QueueProofs!SucceededForGood => Queue!SucceededForGood
  BY DEF QueueProofs!SucceededForGood, Queue!SucceededForGood, QueueProofs!vars, Queue!vars
<1> QED
  BY <1>3, <1>4, <1>5, <1>6, PTL DEF RetriesAreFenced
=============================================================================
