--------------------------- MODULE SettlingProofs ---------------------------
(***************************************************************************)
(* The life of nodes (NodeLife), as MCSettling composes it with the retry  *)
(* queue: a node that sends its beats in time is never taken for dead, for *)
(* any number of nodes, leases, stops and crashes, and for any timeout     *)
(* that NewFleet lets pass.                                                *)
(*                                                                         *)
(* The row of a node only knows when the last beat was written, its        *)
(* process only when it last wrote one.  The two are tied by an invariant: *)
(* unless a beat was late or failed, the row is no older than the process  *)
(* believes (age <= due), and the process beats before HeartbeatEvery,     *)
(* which is less than NodeTimeout.  What could break it is a status that   *)
(* an earlier run left behind, so the invariant also says from where on in *)
(* a start the row is known to be online.                                  *)
(***************************************************************************)
EXTENDS MCSettling, TLAPS

-----------------------------------------------------------------------------
(* The invariant. *)

LifeTypes ==
    /\ online \in [Node -> BOOLEAN] /\ age \in [Node -> 0 .. NodeTimeout]
    /\ fleet \in [Node -> Nodes!Phases] /\ crawls \in [Node -> BOOLEAN]
    /\ ending \in [Node -> BOOLEAN] /\ asked \in [Node -> BOOLEAN]
    /\ due \in [Node -> 0 .. HeartbeatEvery] /\ missed \in [Node -> BOOLEAN]
    /\ holder \in [Leasable -> Node \cup {Nobody}]
    /\ past \in [Leasable -> BOOLEAN] /\ stops \in 0 .. MaxStops

\* What an earlier run was granted is not held by a node in its loop.
NothingIsLeft ==
    \A n \in Node, r \in Leasable : fleet[n] = "loop" /\ holder[r] = n => ~past[r]

\* From the registration to the loop the row says online.
Registered == \A n \in Node : fleet[n] \in Nodes!Reclaiming \cup {"loop"} => online[n]

\* While the beats are in time, the row is no older than the process believes.
RowKeepsUp == \A n \in Node : fleet[n] = "loop" /\ ~missed[n] => age[n] <= due[n]

LifeInv == LifeTypes /\ NothingIsLeft /\ Registered /\ RowKeepsUp

-----------------------------------------------------------------------------
(* Lemmas. *)

\* The constants, as NewFleet checks them.
LEMMA Timeouts ==
    /\ HeartbeatEvery \in Nat /\ NodeTimeout \in Nat /\ HeartbeatEvery < NodeTimeout
    /\ Nobody \notin Node /\ MaxStops \in Nat
  BY PartsAssumption DEF Nodes!NodeLifeAssumption

\* A beat that is due in time finds the row alive: the property follows.
LEMMA LifeImpliesAlive ==
    ASSUME LifeInv
    PROVE  Nodes!NodeLifeTypeOK /\ Nodes!PunctualIsAlive
<1>1. Nodes!NodeLifeTypeOK
  BY DEF LifeInv, LifeTypes, NothingIsLeft, Nodes!NodeLifeTypeOK
<1>2. ASSUME NEW n \in Node, fleet[n] = "loop", ~missed[n]
      PROVE  Nodes!Alive(n)
  <2>1. online[n]
    BY <1>2 DEF LifeInv, Registered
  <2>2. age[n] <= due[n]
    BY <1>2 DEF LifeInv, RowKeepsUp
  <2>3. age[n] \in Int /\ due[n] \in Int /\ due[n] <= HeartbeatEvery
    BY Timeouts DEF LifeInv, LifeTypes
  <2> QED
    BY <2>1, <2>2, <2>3, Timeouts DEF Nodes!Alive
<1> QED
  BY <1>1, <1>2 DEF Nodes!PunctualIsAlive

\* A process that ends leaves the rest of the state as it is, except that what
\* its node holds is now of an earlier run.
LEMMA DownKeepsLife ==
    ASSUME LifeInv, NEW n \in Node, Nodes!Down(n), stops' \in 0 .. MaxStops
    PROVE  LifeInv'
<1>1. LifeTypes'
  BY DEF LifeInv, LifeTypes, Nodes!Down, Nodes!row, Nodes!Phases
<1>2. NothingIsLeft'
  BY DEF LifeInv, LifeTypes, NothingIsLeft, Nodes!Down
<1>3. Registered'
  BY DEF LifeInv, LifeTypes, Registered, Nodes!Down, Nodes!row, Nodes!Reclaiming
<1>4. RowKeepsUp'
  BY DEF LifeInv, LifeTypes, RowKeepsUp, Nodes!Down, Nodes!row
<1> QED
  BY <1>1, <1>2, <1>3, <1>4 DEF LifeInv

\* Only a process that moves into the loop, the row it writes and the grants it
\* gets can break the invariant: the other steps of a node do none of these.
LEMMA AsideKeepsLife ==
    ASSUME LifeInv, LifeTypes',
           UNCHANGED <<online, age, due, holder, past>>,
           \A n \in Node : fleet'[n] \in Nodes!Reclaiming \cup {"loop"} => fleet'[n] = fleet[n],
           \A n \in Node : missed[n] => missed'[n]
    PROVE  LifeInv'
<1>1. NothingIsLeft'
  BY DEF LifeInv, NothingIsLeft
<1>2. Registered'
  BY DEF LifeInv, Registered
<1>3. RowKeepsUp'
  BY DEF LifeInv, RowKeepsUp
<1> QED
  BY <1>1, <1>2, <1>3 DEF LifeInv

\* Leases that are taken back become nobody's.
LEMMA TakenBack ==
    ASSUME LifeInv, NEW nodes,
           holder' = Nodes!TakeBack(nodes) \/ holder' = Nodes!TakeBack_Dead(nodes)
                                           \/ holder' = holder
    PROVE  /\ holder' \in [Leasable -> Node \cup {Nobody}]
           /\ \A r \in Leasable : holder'[r] = holder[r] \/ holder'[r] = Nobody
  BY DEF LifeInv, LifeTypes, Nodes!TakeBack, Nodes!TakeBack_Dead

\* Taking leases back disturbs nothing else.
LEMMA TakingKeepsLife ==
    ASSUME LifeInv, LifeTypes', UNCHANGED <<online, age, due, missed, past>>,
           \A n \in Node : fleet'[n] \in Nodes!Reclaiming \cup {"loop"} => fleet'[n] = fleet[n],
           \A r \in Leasable : holder'[r] = holder[r] \/ holder'[r] = Nobody
    PROVE  LifeInv'
<1>1. NothingIsLeft'
  BY Timeouts DEF LifeInv, NothingIsLeft
<1>2. Registered'
  BY DEF LifeInv, Registered
<1>3. RowKeepsUp'
  BY DEF LifeInv, RowKeepsUp
<1> QED
  BY <1>1, <1>2, <1>3 DEF LifeInv

-----------------------------------------------------------------------------
(* One lemma for each action that can disturb the invariant. *)

LEMMA RegisterKeepsLife ==
    ASSUME LifeInv, NEW n \in Node, Nodes!Register(n)
    PROVE  LifeInv'
<1> USE DEF LifeInv, LifeTypes, Nodes!Register, Nodes!RegisterNode, Nodes!leases,
        Nodes!Registering
<1>1. LifeTypes'
  BY Timeouts DEF Nodes!Phases, Nodes!Reclaiming
<1>2. NothingIsLeft'
  BY DEF NothingIsLeft
<1>3. Registered'
  BY DEF Registered, Nodes!Reclaiming
<1>4. RowKeepsUp'
  BY DEF RowKeepsUp
<1> QED
  BY <1>1, <1>2, <1>3, <1>4

\* The node enters its loop with nothing, and counts a beat as missed when its
\* registration is already old.
LEMMA ReclaimKeepsLife ==
    ASSUME LifeInv, NEW n \in Node, Nodes!ReclaimOwnLeases(n)
    PROVE  LifeInv'
<1> USE DEF Nodes!ReclaimOwnLeases, Nodes!row
<1>0. /\ holder' \in [Leasable -> Node \cup {Nobody}]
      /\ \A r \in Leasable : holder'[r] = holder[r] \/ holder'[r] = Nobody
  BY TakenBack
<1>a. \A r \in Leasable : holder'[r] # n
  BY Timeouts DEF Nodes!TakeBack
<1>1. LifeTypes'
  <2>1. fleet' \in [Node -> Nodes!Phases]
    BY DEF LifeInv, LifeTypes, Nodes!Phases
  <2>2. 0 \in 0 .. HeartbeatEvery /\ (age[n] > 0) \in BOOLEAN
    BY Timeouts
  <2>3. due' \in [Node -> 0 .. HeartbeatEvery] /\ missed' \in [Node -> BOOLEAN]
    BY <2>2, Zenon DEF LifeInv, LifeTypes
  <2> QED
    BY <1>0, <2>1, <2>3 DEF LifeInv, LifeTypes
<1>2. NothingIsLeft'
  BY Timeouts, <1>0, <1>a DEF LifeInv, LifeTypes, NothingIsLeft
<1>3. Registered'
  BY DEF LifeInv, LifeTypes, Registered, Nodes!Reclaiming
<1>4. ASSUME NEW m \in Node, fleet'[m] = "loop", ~missed'[m]
      PROVE  age'[m] <= due'[m]
  <2>1. CASE m = n
    <3>1. (~missed'[n] => ~(age[n] > 0)) /\ due'[n] = 0 /\ age' = age
      BY Zenon DEF LifeInv, LifeTypes
    <3>2. age[n] \in Int /\ age[n] >= 0
      BY Timeouts DEF LifeInv, LifeTypes
    <3> QED
      BY <1>4, <2>1, <3>1, <3>2
  <2>2. CASE m # n
    BY <1>4, <2>2 DEF LifeInv, LifeTypes, RowKeepsUp
  <2> QED
    BY <2>1, <2>2
<1>5. RowKeepsUp'
  BY <1>4 DEF RowKeepsUp
<1> QED
  BY <1>1, <1>2, <1>3, <1>5 DEF LifeInv

\* A lease that is granted late, to a process that has ended, is of a run that
\* is over.
LEMMA AcquireKeepsLife ==
    ASSUME LifeInv, NEW n \in Node, Nodes!Acquire(n)
    PROVE  LifeInv'
<1> USE DEF Nodes!Acquire, Nodes!row, Nodes!leases
<1>1. LifeTypes'
  BY ZenonT(60) DEF LifeInv, LifeTypes
<1>2. NothingIsLeft'
  BY Timeouts DEF LifeInv, LifeTypes, NothingIsLeft
<1>3. Registered'
  BY DEF LifeInv, Registered
<1>4. RowKeepsUp'
  BY DEF LifeInv, RowKeepsUp
<1> QED
  BY <1>1, <1>2, <1>3, <1>4 DEF LifeInv

LEMMA FinishKeepsLife ==
    ASSUME LifeInv, NEW n \in Node, NEW r \in Leasable, Nodes!Finish(n, r)
    PROVE  LifeInv'
<1> USE DEF Nodes!Finish, Nodes!row, Nodes!process
<1>1. LifeTypes'
  BY DEF LifeInv, LifeTypes
<1>2. \A s \in Leasable : holder'[s] = holder[s] \/ holder'[s] = Nobody
  BY DEF LifeInv, LifeTypes
<1> QED
  BY <1>1, <1>2, TakingKeepsLife

\* A beat that succeeds makes the row and the process agree again; one that
\* fails is counted as missed.
LEMMA HeartbeatKeepsLife ==
    ASSUME LifeInv, NEW n \in Node, Nodes!Heartbeat(n)
    PROVE  LifeInv'
<1> USE DEF Nodes!Heartbeat, Nodes!row, Nodes!leases, Nodes!Trouble
<1>1. LifeTypes'
  <2>1. 0 \in 0 .. HeartbeatEvery /\ 0 \in 0 .. NodeTimeout
    BY Timeouts
  <2>2. /\ due' \in [Node -> 0 .. HeartbeatEvery] /\ age' \in [Node -> 0 .. NodeTimeout]
        /\ online' \in [Node -> BOOLEAN] /\ missed' \in [Node -> BOOLEAN]
    BY <2>1, Zenon DEF LifeInv, LifeTypes
  <2>3. stops' \in 0 .. MaxStops
    BY Timeouts DEF LifeInv, LifeTypes
  <2> QED
    BY <2>2, <2>3 DEF LifeInv, LifeTypes
<1>2. NothingIsLeft'
  BY DEF LifeInv, NothingIsLeft
<1>3. Registered'
  BY DEF LifeInv, LifeTypes, Registered
<1>4. RowKeepsUp'
  BY Timeouts DEF LifeInv, LifeTypes, RowKeepsUp
<1> QED
  BY <1>1, <1>2, <1>3, <1>4 DEF LifeInv

\* The stop: the row goes offline only when the node has left its loop.
LEMMA ShutdownKeepsLife ==
    ASSUME LifeInv, NEW n \in Node, Nodes!Shutdown(n)
    PROVE  LifeInv'
<1> USE DEF Nodes!Shutdown, Nodes!row, Nodes!leases, Nodes!Trouble
<1>1. CASE fleet[n] = "loop"
  <2>1. LifeTypes'
    BY <1>1 DEF LifeInv, LifeTypes, Nodes!Phases
  <2> QED
    BY <1>1, <2>1, AsideKeepsLife DEF LifeInv, LifeTypes, Nodes!Reclaiming
<1>2. CASE fleet[n] = "return"
  <2>0. /\ holder' \in [Leasable -> Node \cup {Nobody}]
        /\ \A r \in Leasable : holder'[r] = holder[r] \/ holder'[r] = Nobody
    BY <1>2, TakenBack
  <2>1. LifeTypes'
    BY <1>2, <2>0, Timeouts DEF LifeInv, LifeTypes, Nodes!Phases
  <2>2. \A m \in Node : fleet'[m] \in Nodes!Reclaiming \cup {"loop"} => fleet'[m] = fleet[m]
    BY <1>2 DEF LifeInv, LifeTypes, Nodes!Reclaiming
  <2> QED
    BY <1>2, <2>0, <2>1, <2>2, TakingKeepsLife
<1>3. CASE fleet[n] = "mark"
  <2>0. fleet' \in [Node -> Nodes!Phases] /\ online' \in [Node -> BOOLEAN]
    BY <1>3 DEF LifeInv, LifeTypes, Nodes!Phases
  <2>1. LifeTypes'
    BY <1>3, <2>0, Timeouts DEF LifeInv, LifeTypes
  <2>2. NothingIsLeft'
    BY <1>3 DEF LifeInv, LifeTypes, NothingIsLeft
  <2>3. Registered'
    BY <1>3 DEF LifeInv, LifeTypes, Registered, Nodes!Reclaiming
  <2>4. RowKeepsUp'
    BY <1>3 DEF LifeInv, LifeTypes, RowKeepsUp
  <2> QED
    BY <2>1, <2>2, <2>3, <2>4 DEF LifeInv
<1> QED
  BY <1>1, <1>2, <1>3

\* Time ages the row and the process alike; who lets HeartbeatEvery pass has
\* missed a beat.
LEMMA TimeKeepsLife ==
    ASSUME LifeInv, Nodes!TimePasses
    PROVE  LifeInv'
<1> USE DEF Nodes!TimePasses, Nodes!leases
<1>1. LifeTypes'
  BY Timeouts DEF LifeInv, LifeTypes, Nodes!Older
<1>2. NothingIsLeft'
  BY DEF LifeInv, NothingIsLeft
<1>3. Registered'
  BY DEF LifeInv, Registered
<1>4. ASSUME NEW n \in Node, fleet'[n] = "loop", ~missed'[n]
      PROVE  age'[n] <= due'[n]
  <2>1. fleet[n] = "loop" /\ ~missed[n] /\ due[n] # HeartbeatEvery
    BY <1>4 DEF LifeInv, LifeTypes
  <2>2. age[n] <= due[n] /\ age[n] \in Int /\ due[n] \in Int /\ due[n] < HeartbeatEvery
    BY <2>1, Timeouts DEF LifeInv, LifeTypes, RowKeepsUp
  <2> QED
    BY <2>2, Timeouts DEF Nodes!Older
<1>5. RowKeepsUp'
  BY <1>4 DEF RowKeepsUp
<1> QED
  BY <1>1, <1>2, <1>3, <1>5 DEF LifeInv

-----------------------------------------------------------------------------
(* Every step. *)

LEMMA StartFailsKeepsLife ==
    ASSUME LifeInv, NEW n \in Node, Nodes!StartFails(n)
    PROVE  LifeInv'
<1> stops' \in 0 .. MaxStops
  BY Timeouts DEF LifeInv, LifeTypes, Nodes!StartFails, Nodes!Trouble
<1>1. CASE Nodes!Down(n)
  BY <1>1, DownKeepsLife
<1>2. CASE /\ fleet[n] \in {"registerAgain", "reclaimAgain"}
           /\ fleet' = [fleet EXCEPT ![n] = "over"] /\ ending' = [ending EXCEPT ![n] = TRUE]
           /\ UNCHANGED <<online, age, crawls, asked, due, missed, holder, past>>
  <2>1. LifeTypes'
    BY <1>2 DEF LifeInv, LifeTypes, Nodes!Phases
  <2> QED
    BY <1>2, <2>1, AsideKeepsLife DEF LifeInv, LifeTypes, Nodes!Reclaiming
<1> QED
  BY <1>1, <1>2 DEF Nodes!StartFails, Nodes!row, Nodes!leases

\* A step that only moves a node towards its loop, or concerns its crawler.
LEMMA QuietKeepsLife ==
    ASSUME LifeInv, NEW n \in Node,
           \/ Nodes!Start(n) \/ Nodes!RunAll(n) \/ Nodes!Ask(n)
           \/ Nodes!CrawlerReturns(n) \/ Nodes!Signal(n)
    PROVE  LifeInv'
<1>1. LifeTypes'
  <2> USE DEF LifeInv, LifeTypes, Nodes!row, Nodes!leases
  <2>1. CASE Nodes!Start(n)
    <3>1. fleet' \in [Node -> Nodes!Phases]
      BY <2>1 DEF Nodes!Start, Nodes!Phases, Nodes!Registering
    <3> QED
      BY <2>1, <3>1 DEF Nodes!Start
  <2>4. CASE Nodes!RunAll(n)
    <3>1. fleet' \in [Node -> Nodes!Phases]
      BY <2>4 DEF Nodes!RunAll, Nodes!Phases, Nodes!Registering
    <3>2. PICK c \in {TRUE, n # Control} : crawls' = [crawls EXCEPT ![n] = c]
      BY <2>4 DEF Nodes!RunAll
    <3>3. c \in BOOLEAN
      BY <3>2
    <3>4. crawls' \in [Node -> BOOLEAN]
      BY <3>2, <3>3, Zenon
    <3> QED
      BY <2>4, <3>1, <3>4 DEF Nodes!RunAll
  <2>5. CASE Nodes!Ask(n)
    <3>1. asked' \in [Node -> BOOLEAN]
      BY <2>5, Zenon DEF Nodes!Ask
    <3> QED
      BY <2>5, <3>1 DEF Nodes!Ask
  <2>2. CASE Nodes!CrawlerReturns(n)
    <3>1. stops' \in 0 .. MaxStops
      BY <2>2, Timeouts DEF Nodes!CrawlerReturns, Nodes!Trouble
    <3>2. crawls' \in [Node -> BOOLEAN] /\ ending' \in [Node -> BOOLEAN]
      BY <2>2, Zenon DEF Nodes!CrawlerReturns
    <3> QED
      BY <2>2, <3>1, <3>2 DEF Nodes!CrawlerReturns
  <2>3. CASE Nodes!Signal(n)
    BY <2>3, Timeouts DEF Nodes!Signal, Nodes!Trouble
  <2> QED
    BY <2>1, <2>2, <2>3, <2>4, <2>5
<1>2. UNCHANGED <<online, age, due, missed, holder, past>>
  BY DEF Nodes!Start, Nodes!RunAll, Nodes!Ask, Nodes!CrawlerReturns, Nodes!Signal,
         Nodes!row, Nodes!leases
<1>3. \A m \in Node : fleet'[m] \in Nodes!Reclaiming \cup {"loop"} => fleet'[m] = fleet[m]
  BY DEF LifeInv, LifeTypes, Nodes!Start, Nodes!RunAll, Nodes!Ask, Nodes!CrawlerReturns,
         Nodes!Signal, Nodes!Reclaiming
<1> QED
  BY <1>1, <1>2, <1>3, AsideKeepsLife

LEMMA NextKeepsLife ==
    ASSUME LifeInv, Nodes!NodeLifeNext
    PROVE  LifeInv'
<1>1. ASSUME NEW n \in Node, Nodes!ProcessEnds(n)
      PROVE  LifeInv'
  BY <1>1, DownKeepsLife DEF Nodes!ProcessEnds, LifeInv, LifeTypes
<1>2. ASSUME NEW n \in Node, Nodes!Crash(n)
      PROVE  LifeInv'
  <2>1. stops' \in 0 .. MaxStops
    BY <1>2, Timeouts DEF Nodes!Crash, Nodes!Trouble, LifeInv, LifeTypes
  <2> QED
    BY <1>2, <2>1, DownKeepsLife DEF Nodes!Crash
<1>3. ASSUME NEW n \in Node, Nodes!ProcessStep(n)
      PROVE  LifeInv'
  BY <1>1, <1>3, RegisterKeepsLife, ReclaimKeepsLife, QuietKeepsLife, ShutdownKeepsLife
     DEF Nodes!ProcessStep
<1>4. ASSUME Nodes!ReclaimDeadNodeLeases
      PROVE  LifeInv'
  <2>1. /\ holder' \in [Leasable -> Node \cup {Nobody}]
        /\ \A r \in Leasable : holder'[r] = holder[r] \/ holder'[r] = Nobody
    BY <1>4, TakenBack DEF Nodes!ReclaimDeadNodeLeases
  <2>2. UNCHANGED <<online, age, fleet, crawls, ending, asked, due, missed, past, stops>>
    BY <1>4 DEF Nodes!ReclaimDeadNodeLeases, Nodes!row, Nodes!process
  <2>3. LifeTypes'
    BY <2>1, <2>2 DEF LifeInv, LifeTypes
  <2> QED
    BY <2>1, <2>2, <2>3, TakingKeepsLife
<1> QED
  BY <1>2, <1>3, <1>4, QuietKeepsLife, StartFailsKeepsLife, AcquireKeepsLife, FinishKeepsLife,
     HeartbeatKeepsLife, TimeKeepsLife
     DEF Nodes!NodeLifeNext, Nodes!Sweep

LEMMA InitHasLife ==
    ASSUME Nodes!NodeLifeInit
    PROVE  LifeInv
  BY Timeouts DEF Nodes!NodeLifeInit, LifeInv, LifeTypes, NothingIsLeft, Registered, RowKeepsUp,
     Nodes!Phases, Nodes!Reclaiming

-----------------------------------------------------------------------------
\* The invariant holds in every behaviour of the composition, also in those in
\* which the retry queue moves: the row of a node and its process agree.
THEOREM LifeInvHolds == SettlingSpec => []LifeInv
<1>1. SettlingInit => LifeInv
  BY InitHasLife DEF SettlingInit
<1>2. LifeInv /\ [SettlingNext]_allVars => LifeInv'
  <2> SUFFICES ASSUME LifeInv, SettlingNext \/ UNCHANGED nodeVars
               PROVE  LifeInv'
    BY DEF allVars
  <2>1. CASE UNCHANGED nodeVars
    BY <2>1 DEF nodeVars, LifeInv, LifeTypes, NothingIsLeft, Registered, RowKeepsUp
  <2>2. CASE SettlingNext
    BY <2>1, <2>2, NextKeepsLife DEF SettlingNext, InQueue, InNodes
  <2> QED
    BY <2>1, <2>2
<1> QED
  BY <1>1, <1>2, PTL DEF SettlingSpec

\* A node none of whose beats was late is never taken for dead: the sweep of
\* the central node (ReclaimDeadNodeLeases) spares its leases and the list of
\* nodes shows it online, whichever run of it this is, however the one before
\* ended, and wherever its statements failed; and in its loop it holds nothing
\* that an earlier run was granted.
THEOREM PunctualNodesLive == SettlingSpec => []PunctualIsAlive
<1>1. LifeInv => PunctualIsAlive
  BY LifeImpliesAlive DEF PunctualIsAlive
<1> QED
  BY <1>1, LifeInvHolds, PTL
=============================================================================
