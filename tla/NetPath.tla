------------------------------- MODULE NetPath -------------------------------
(***************************************************************************)
(* The choice of a network path for one host (internal/adapter/netpath):   *)
(* requests that try the paths in turn, the path the chain remembers, the  *)
(* table of probes it is taken from after a restart, a `probe` run of the  *)
(* operator beside it, and the cache of the ECH resolver.                  *)
(*                                                                         *)
(* Which paths get through is the environment's, and changes.              *)
(***************************************************************************)
EXTENDS Integers, Sequences, FiniteSets

CONSTANTS
    Order,        \* the configured paths, in order
    Unready,      \* those buildTransport refused, a proxy without an address
    Ech,          \* the path that needs an ECH configuration
    None,
    Requester,    \* goroutines with a request to this host
    MaxDisturbed, \* bound: changes of the network and requests cut short
    MaxRestarts   \* bound: restarts of the process

Mode == {Order[i] : i \in 1 .. Len(Order)}

NetPathAssumption ==
    /\ Unready \subseteq Mode /\ Mode \ Unready # {}
    /\ None \notin Mode /\ MaxDisturbed \in Nat /\ MaxRestarts \in Nat

VARIABLES
    open,      \* paths that get through at present
    chosen,    \* c.chosen[host], or None
    probes,    \* net_probes within the last day: mode -> "none", "ok", "failed"
    ech,       \* the resolver's entry: "none", "config", "without"
    req,       \* requester -> where it is
    lead,      \* requester -> the candidate it tries first
    todo,      \* requester -> candidates it has not tried
    refused,   \* requester -> paths that failed it
    answered,  \* ghost: paths that have carried an answer
    disturbed, restarts

netpath == <<open, chosen, probes, ech, req, lead, todo, refused, answered, disturbed, restarts>>

\* RecordProbe; rows are kept only while a restart may still read them.
Row(m, result) ==
    probes' = IF restarts < MaxRestarts THEN [probes EXCEPT ![m] = result] ELSE probes

\* New keeps the paths it can build, in order.
Clients == Mode \ Unready
Place(m) == CHOOSE i \in 1 .. Len(Order) : Order[i] = m
FirstOf(ms) == CHOOSE m \in ms : \A o \in ms : Place(m) <= Place(o)

-----------------------------------------------------------------------------
(* Do *)

Preferred == IF chosen # None THEN chosen ELSE FirstOf(Clients)

\* The remembered path first, the others in their order.
Candidates_Below == {m \in Clients : Place(m) >= Place(Preferred)}
Candidates == Clients
Turn(r) == IF lead[r] \in todo[r] THEN lead[r] ELSE FirstOf(todo[r])

Ask(r) ==
    /\ req[r] = "idle"
    /\ req' = [req EXCEPT ![r] = "trying"]
    /\ lead' = [lead EXCEPT ![r] = Preferred]
    /\ todo' = [todo EXCEPT ![r] = Candidates]
    /\ UNCHANGED <<open, chosen, probes, ech, refused, answered, disturbed, restarts>>

\* The request is over.
Done(r) ==
    /\ req' = [req EXCEPT ![r] = "idle"]
    /\ lead' = [lead EXCEPT ![r] = None]
    /\ todo' = [todo EXCEPT ![r] = {}]
    /\ refused' = [refused EXCEPT ![r] = {}]

\* ConfigFor, on the ECH path: a lookup when there is no entry.
LookUp(r) ==
    /\ req[r] = "trying" /\ todo[r] # {} /\ Turn(r) = Ech /\ ech = "none"
    /\ req' = [req EXCEPT ![r] = "looking"]
    /\ UNCHANGED <<open, chosen, probes, ech, lead, todo, refused, answered, disturbed, restarts>>

\* What ConfigFor may give to the attempt of r, and the entry it leaves: what
\* a lookup found is kept for an hour, and so is that it found nothing.
Found(r) ==
    IF todo[r] = {} \/ req[r] \notin {"trying", "looking"} THEN {}
    ELSE IF Turn(r) # Ech THEN {"unasked"}
    ELSE IF req[r] = "looking" THEN {"config", "without"}
    ELSE {ech} \ {"none"}

Entry(r, e) == IF req[r] = "looking" THEN e ELSE ech

GetsThrough(m, e) == m \in open /\ e # "without"

\* The path answers: the response is in hand before anything is remembered.
Carry(r) ==
    /\ \E e \in Found(r) : GetsThrough(Turn(r), e) /\ ech' = Entry(r, e)
    /\ answered' = answered \cup {Turn(r)}
    /\ req' = [req EXCEPT ![r] = "carried"]
    /\ UNCHANGED <<open, chosen, probes, lead, todo, refused, disturbed, restarts>>

Remembered_First(m) == IF chosen = None THEN m ELSE chosen
Remembered(m) == m

\* remember, then the row in net_probes, which may fail, or come too late
\* for a restart.
Remember(r) ==
    /\ req[r] = "carried"
    /\ chosen' = Remembered(Turn(r))
    /\ \/ Row(Turn(r), "ok")
       \/ UNCHANGED probes
    /\ Done(r)
    /\ UNCHANGED <<open, ech, answered, disturbed, restarts>>

\* The path fails: a row, and on to the next one.
Descend(r) ==
    /\ \E e \in Found(r) : ~GetsThrough(Turn(r), e) /\ ech' = Entry(r, e)
    /\ refused' = [refused EXCEPT ![r] = @ \cup {Turn(r)}]
    /\ \/ Row(Turn(r), "failed")
       \/ UNCHANGED probes
    /\ todo' = [todo EXCEPT ![r] = @ \ {Turn(r)}]
    /\ req' = [req EXCEPT ![r] = "trying"]
    /\ UNCHANGED <<open, chosen, lead, answered, disturbed, restarts>>

\* "every path has failed"
GiveUp(r) ==
    /\ req[r] = "trying" /\ todo[r] = {}
    /\ req' = [req EXCEPT ![r] = "failed"]
    /\ UNCHANGED <<open, chosen, probes, ech, lead, todo, refused, answered, disturbed, restarts>>

\* The caller tries again: get has retries, a post its own queue.
AskAgain(r) ==
    /\ req[r] = "failed"
    /\ Done(r)
    /\ UNCHANGED <<open, chosen, probes, ech, answered, disturbed, restarts>>

\* Its context ends in the middle of an attempt: nothing is remembered or
\* recorded, but a lookup it was waiting for has failed, too, and is kept.
End(r) ==
    /\ req[r] \in {"trying", "looking"} /\ todo[r] # {}
    /\ disturbed < MaxDisturbed /\ disturbed' = disturbed + 1
    /\ Done(r)
    /\ ech' = IF req[r] = "looking" THEN "without" ELSE ech
    /\ UNCHANGED <<open, chosen, probes, answered, restarts>>

-----------------------------------------------------------------------------
(* The operator, the clock and the network. *)

\* `saucedust probe` on the same node: its own chain, the same table.
Probe(m) ==
    /\ m \notin Unready
    /\ \/ Row(m, "ok") /\ m \in open /\ answered' = answered \cup {m}
       \/ Row(m, "failed") /\ UNCHANGED answered
    /\ UNCHANGED <<open, chosen, ech, req, lead, todo, refused, disturbed, restarts>>

\* checked_at is more than a day ago: the row no longer counts.
Age(m) ==
    /\ probes[m] = "ok"
    /\ Row(m, "none")
    /\ UNCHANGED <<open, chosen, ech, req, lead, todo, refused, answered, disturbed, restarts>>

\* An entry of the resolver expires after its hour.
EchExpires ==
    /\ ech # "none"
    /\ ech' = "none"
    /\ UNCHANGED <<open, chosen, probes, req, lead, todo, refused, answered, disturbed, restarts>>

Changes ==
    /\ disturbed < MaxDisturbed
    /\ open' \in (SUBSET (Mode \ Unready)) \ {open}
    /\ disturbed' = disturbed + 1
    /\ UNCHANGED <<chosen, probes, ech, req, lead, todo, refused, answered, restarts>>

\* BestPaths: of the paths that were found open within a day, the fastest,
\* which may be any of them; Prime takes it if there is a client for it.
BestPaths_Any == {m \in Mode : probes[m] # "none"}
BestPaths == {m \in Mode : probes[m] = "ok"}

Primed(m) == IF m \in Unready THEN None ELSE m

Restart ==
    /\ restarts < MaxRestarts
    /\ restarts' = restarts + 1
    /\ IF BestPaths = {} THEN chosen' = None ELSE \E m \in BestPaths : chosen' = Primed(m)
    /\ ech' = "none"
    /\ req' = [r \in Requester |-> "idle"]
    /\ lead' = [r \in Requester |-> None]
    /\ todo' = [r \in Requester |-> {}]
    /\ refused' = [r \in Requester |-> {}]
    /\ UNCHANGED <<open, probes, answered, disturbed>>

-----------------------------------------------------------------------------
NetPathInit ==
    /\ open \in SUBSET (Mode \ Unready)
    /\ chosen = None /\ ech = "none"
    \* rows of a run that had a proxy, an hour ago
    /\ answered \in SUBSET Unready
    /\ probes = [m \in Mode |-> IF m \in answered THEN "ok" ELSE "none"]
    /\ req = [r \in Requester |-> "idle"]
    /\ lead = [r \in Requester |-> None]
    /\ todo = [r \in Requester |-> {}]
    /\ refused = [r \in Requester |-> {}]
    /\ disturbed = 0 /\ restarts = 0

DoStep(r) ==
    \/ Ask(r) \/ LookUp(r) \/ Carry(r) \/ Remember(r) \/ Descend(r)
    \/ GiveUp(r) \/ AskAgain(r)

NetPathNext ==
    \/ \E r \in Requester : DoStep(r) \/ End(r)
    \/ \E m \in Mode : Probe(m) \/ Age(m)
    \/ EchExpires \/ Changes \/ Restart

NetPathSpec ==
    /\ NetPathInit /\ [][NetPathNext]_netpath
    /\ \A r \in Requester : WF_netpath(DoStep(r))

-----------------------------------------------------------------------------
NetPathTypeOK ==
    /\ open \subseteq Mode \ Unready /\ answered \subseteq Mode
    /\ chosen \in {None} \cup (Mode \ Unready)
    /\ probes \in [Mode -> {"none", "ok", "failed"}]
    /\ ech \in {"none", "config", "without"}
    /\ req \in [Requester -> {"idle", "trying", "looking", "carried", "failed"}]
    /\ lead \in [Requester -> {None} \cup Mode]
    /\ todo \in [Requester -> SUBSET (Mode \ Unready)]
    /\ refused \in [Requester -> SUBSET (Mode \ Unready)]

\* "every path has failed" is only said when every path has: each of them was
\* tried and failed during this request, whatever others remembered meanwhile.
FailedMeansAllFailed ==
    \A r \in Requester : req[r] = "failed" => refused[r] = Mode \ Unready

\* The chain prefers no path that has never carried an answer, in this run
\* or in the one its memory comes from.
ChosenHasAnswered == chosen # None => chosen \in answered

OpenIsPreferred == open \ {Ech} # {} => Preferred \in open

\* When the network stops changing, the path that is tried first is one that
\* gets through: late answers over a path that has been closed meanwhile are
\* remembered over newer ones, but not for ever.
SettlesOnAnOpenPath == <>[]OpenIsPreferred
=============================================================================
