------------------------------ MODULE NodeLife ------------------------------
(***************************************************************************)
(* The life of a node's process: it registers, verifies its models, starts *)
(* its tasks beside each other (runAll, cmd/saucedust/main.go), beats, and *)
(* hands its leases back when it stops (internal/app/fleet.go, internal/   *)
(* adapter/postgres/nodes.go).  The central node takes back the leases of  *)
(* nodes whose beat has ended.                                             *)
(*                                                                         *)
(* Of a lease only its owner is kept here; attempts, tokens and the expiry *)
(* after 30 minutes are in RangeLease.  Time is counted in steps and only  *)
(* since the last beat, so nothing bounds it.                              *)
(***************************************************************************)
EXTENDS Integers

CONSTANTS
    Host, Control,   \* nodes, and the central one
    Leasable,        \* ranges and retries that can be leased
    HeartbeatEvery, NodeTimeout,
    MaxStops,        \* bound on signals, crashes and errors
    Nobody

NodeLifeAssumption ==   \* the latter is checked by NewFleet
    /\ Control \in Host /\ Nobody \notin Host /\ MaxStops \in Nat
    /\ HeartbeatEvery \in Nat \ {0} /\ NodeTimeout \in Nat /\ NodeTimeout > HeartbeatEvery

VARIABLES
    online, age,     \* nodes: status, and the time since heartbeat_at
    fleet,           \* node -> where Register and Run of its Fleet are
    crawls,          \* node -> its crawler runs
    ending,          \* node -> the context of runAll is over
    asked,           \* node -> its crawler has asked for a lease, answer pending
    due, missed,     \* node -> time since the last beat; one was late or failed
    holder, past,    \* lease -> its node_id; whether it is of an earlier run
    stops

row == <<online, age>>
process == <<fleet, crawls, ending, asked, due, missed>>
leases == <<holder, past>>
nodeLife == <<row, process, leases, stops>>

Registering == {"register", "registerAgain"}
Reclaiming == {"reclaim", "reclaimAgain"}
Phases == Registering \cup Reclaiming \cup {"down", "boot", "loop", "return", "mark", "over"}

Trouble == stops < MaxStops /\ stops' = stops + 1

-----------------------------------------------------------------------------
(* The statements. *)

\* A row is there from the first registration on; without one, offline.
RegisterNode_KeepsStatus(n) == age' = [age EXCEPT ![n] = 0] /\ UNCHANGED online
RegisterNode(n) == age' = [age EXCEPT ![n] = 0] /\ online' = [online EXCEPT ![n] = TRUE]

Alive_ByStatus(n) == online[n]
\* The same condition shows a node as online (ListNodes).
Alive(n) == online[n] /\ age[n] < NodeTimeout

TakeBack_Dead(nodes) ==
    [r \in Leasable |-> IF holder[r] \in nodes /\ ~Alive(holder[r]) THEN Nobody ELSE holder[r]]
TakeBack(nodes) == [r \in Leasable |-> IF holder[r] \in nodes THEN Nobody ELSE holder[r]]

-----------------------------------------------------------------------------
(* Start.  Each statement may fail. *)

Down(n) ==
    /\ fleet' = [fleet EXCEPT ![n] = "down"]
    /\ crawls' = [crawls EXCEPT ![n] = FALSE] /\ ending' = [ending EXCEPT ![n] = FALSE]
    /\ past' = [r \in Leasable |-> past[r] \/ holder[r] = n]
    /\ UNCHANGED <<row, holder, asked, due, missed>>

\* What an earlier process asked for is answered by the time the next starts.
Start(n) ==
    /\ fleet[n] = "down" /\ ~asked[n]
    /\ fleet' = [fleet EXCEPT ![n] = "register"]
    /\ UNCHANGED <<row, crawls, ending, asked, due, missed, leases, stops>>

\* The first half of Register, in cmdControl or cmdWorker and again in Run.
Register(n) ==
    /\ fleet[n] \in Registering
    /\ RegisterNode(n)
    /\ fleet' = [fleet EXCEPT ![n] = IF @ = "register" THEN "reclaim" ELSE "reclaimAgain"]
    /\ UNCHANGED <<crawls, ending, asked, due, missed, leases, stops>>

\* The second half.  The loop's ticker starts after the second time.
ReclaimOwnLeases(n) ==
    /\ fleet[n] \in Reclaiming
    /\ holder' = TakeBack({n})
    /\ fleet' = [fleet EXCEPT ![n] = IF @ = "reclaim" THEN "boot" ELSE "loop"]
    /\ due' = [due EXCEPT ![n] = 0] /\ missed' = [missed EXCEPT ![n] = age[n] > 0]
    /\ UNCHANGED <<row, crawls, ending, asked, past, stops>>

\* Models are verified; then fleet.Run, the crawler and the others start at
\* once.  control -no-crawl has no crawler.
RunAll(n) ==
    /\ fleet[n] = "boot"
    /\ fleet' = [fleet EXCEPT ![n] = "registerAgain"]
    /\ \E c \in {TRUE, n # Control} : crawls' = [crawls EXCEPT ![n] = c]
    /\ UNCHANGED <<row, ending, asked, due, missed, leases, stops>>

\* Before runAll an error ends the process; in Run it ends the fleet's task
\* without shutdown, and runAll cancels the others.
StartFails(n) ==
    /\ Trouble
    /\ \/ fleet[n] \in {"register", "reclaim", "boot"} /\ Down(n)
       \/ /\ fleet[n] \in {"registerAgain", "reclaimAgain"}
          /\ fleet' = [fleet EXCEPT ![n] = "over"] /\ ending' = [ending EXCEPT ![n] = TRUE]
          /\ UNCHANGED <<row, crawls, asked, due, missed, leases>>

-----------------------------------------------------------------------------
(* The crawler, as far as it leases. *)

Ask(n) ==
    /\ crawls[n] /\ ~ending[n] /\ ~asked[n]
    /\ asked' = [asked EXCEPT ![n] = TRUE]
    /\ UNCHANGED <<row, fleet, crawls, ending, due, missed, leases, stops>>

\* The statement commits or finds nothing, even when its caller has gone.
Acquire(n) ==
    /\ asked[n] /\ asked' = [asked EXCEPT ![n] = FALSE]
    /\ \/ \E r \in Leasable :
            /\ holder[r] = Nobody
            /\ holder' = [holder EXCEPT ![r] = n]
            /\ past' = [past EXCEPT ![r] = fleet[n] = "down"]
       \/ UNCHANGED leases
    /\ UNCHANGED <<row, fleet, crawls, ending, due, missed, stops>>

\* finish says nothing once the context is over.
Finish(n, r) ==
    /\ crawls[n] /\ ~ending[n] /\ holder[r] = n /\ ~past[r]
    /\ holder' = [holder EXCEPT ![r] = Nobody]
    /\ UNCHANGED <<row, process, past, stops>>

CrawlerReturns(n) ==
    /\ crawls[n] /\ crawls' = [crawls EXCEPT ![n] = FALSE]
    /\ \/ ending[n] /\ UNCHANGED <<ending, stops>>
       \/ ~ending[n] /\ Trouble /\ ending' = [ending EXCEPT ![n] = TRUE]
    /\ UNCHANGED <<row, fleet, asked, due, missed, leases>>

-----------------------------------------------------------------------------
(* Fleet.Run *)

Heartbeat(n) ==
    /\ fleet[n] = "loop" /\ due[n] >= HeartbeatEvery
    /\ due' = [due EXCEPT ![n] = 0]
    /\ \/ /\ online' = [online EXCEPT ![n] = TRUE] /\ age' = [age EXCEPT ![n] = 0]
          /\ UNCHANGED <<missed, stops>>
       \/ Trouble /\ missed' = [missed EXCEPT ![n] = TRUE] /\ UNCHANGED row
    /\ UNCHANGED <<fleet, crawls, ending, asked, leases>>

\* Whoever asks: the central node's own loop, node reclaim, the console.
ReclaimDeadNodeLeases ==
    /\ holder' = TakeBack({n \in Host : ~Alive(n)})
    /\ UNCHANGED <<row, process, past, stops>>

Sweep == fleet[Control] = "loop" /\ ReclaimDeadNodeLeases

\* shutdown, with a context of its own; an error is only logged.
Shutdown(n) ==
    /\ \/ /\ fleet[n] = "loop" /\ ending[n]
          /\ fleet' = [fleet EXCEPT ![n] = "return"]
          /\ UNCHANGED <<row, leases, stops>>
       \/ /\ fleet[n] = "return"
          /\ fleet' = [fleet EXCEPT ![n] = "mark"]
          /\ \/ holder' = TakeBack({n}) /\ UNCHANGED stops
             \/ Trouble /\ UNCHANGED holder
          /\ UNCHANGED <<row, past>>
       \/ /\ fleet[n] = "mark"
          /\ fleet' = [fleet EXCEPT ![n] = "over"]
          /\ \/ online' = [online EXCEPT ![n] = FALSE] /\ UNCHANGED <<age, stops>>
             \/ Trouble /\ UNCHANGED row
          /\ UNCHANGED leases
    /\ UNCHANGED <<crawls, ending, asked, due, missed>>

ProcessEnds(n) == fleet[n] = "over" /\ ~crawls[n] /\ Down(n) /\ UNCHANGED stops

Signal(n) ==
    /\ fleet[n] \notin {"down", "register", "reclaim", "boot"} /\ ~ending[n] /\ Trouble
    /\ ending' = [ending EXCEPT ![n] = TRUE]
    /\ UNCHANGED <<row, fleet, crawls, asked, due, missed, leases>>

Crash(n) == fleet[n] # "down" /\ Trouble /\ Down(n)

Older(t, most) == IF t < most THEN t + 1 ELSE most

TimePasses ==
    /\ age' = [n \in Host |-> Older(age[n], NodeTimeout)]
    /\ due' = [n \in Host |-> Older(due[n], HeartbeatEvery)]
    /\ missed' = [n \in Host |-> missed[n] \/ due[n] = HeartbeatEvery]
    /\ UNCHANGED <<online, fleet, crawls, ending, asked, leases, stops>>

-----------------------------------------------------------------------------
NodeLifeInit ==
    /\ online = [n \in Host |-> FALSE] /\ age = [n \in Host |-> NodeTimeout]
    /\ fleet = [n \in Host |-> "down"]
    /\ crawls = [n \in Host |-> FALSE] /\ ending = [n \in Host |-> FALSE] /\ asked = [n \in Host |-> FALSE]
    /\ due = [n \in Host |-> 0] /\ missed = [n \in Host |-> FALSE]
    /\ holder = [r \in Leasable |-> Nobody] /\ past = [r \in Leasable |-> FALSE] /\ stops = 0

ProcessStep(n) ==
    \/ Register(n) \/ ReclaimOwnLeases(n) \/ RunAll(n)
    \/ Shutdown(n) \/ CrawlerReturns(n) \/ ProcessEnds(n)

NodeLifeNext ==
    \/ \E n \in Host :
         \/ Start(n) \/ ProcessStep(n) \/ StartFails(n) \/ Ask(n) \/ Acquire(n)
         \/ Heartbeat(n) \/ Signal(n) \/ Crash(n)
         \/ \E r \in Leasable : Finish(n, r)
    \/ Sweep \/ ReclaimDeadNodeLeases
    \/ TimePasses

-----------------------------------------------------------------------------
\* Types; a node in its loop holds nothing an earlier run of it was granted.
NodeLifeTypeOK ==
    /\ online \in [Host -> BOOLEAN] /\ age \in [Host -> 0 .. NodeTimeout]
    /\ fleet \in [Host -> Phases] /\ crawls \in [Host -> BOOLEAN] /\ ending \in [Host -> BOOLEAN]
    /\ asked \in [Host -> BOOLEAN] /\ due \in [Host -> 0 .. HeartbeatEvery]
    /\ missed \in [Host -> BOOLEAN] /\ holder \in [Leasable -> Host \cup {Nobody}]
    /\ past \in [Leasable -> BOOLEAN] /\ stops \in 0 .. MaxStops
    /\ \A n \in Host, r \in Leasable : fleet[n] = "loop" /\ holder[r] = n => ~past[r]

\* A node none of whose beats was late is never taken for dead, whichever
\* run of it this is and however the one before ended: its leases are not
\* swept and it is listed as online.
PunctualIsAlive == \A n \in Host : fleet[n] = "loop" /\ ~missed[n] => Alive(n)

\* A lease of a run that is over comes back, whether the run crashed, failed
\* to start, could not hand it back, or was still being granted it while it
\* stopped; not even its node has to start again.
LeftLeasesReturn == \A r \in Leasable, n \in Host :
    holder[r] = n /\ past[r] ~> holder[r] # n \/ ~past[r]

\* "Registers the node and takes back only the leases a previous run left"
\* (fleet.go:71): no lease of the run that registers.
OwnRunIsSpared == [][\A r \in Leasable, n \in Host :
    holder[r] = n /\ fleet[n] = "reclaimAgain" /\ fleet'[n] = "loop" => past[r]]_nodeLife
=============================================================================
