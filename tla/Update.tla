-------------------------------- MODULE Update --------------------------------
(***************************************************************************)
(* The program's update of itself (internal/release, httpapi/update.go):   *)
(* a request downloads the latest release beside the executable, under one *)
(* name for all requests, renames it over the executable, answers, and     *)
(* replaces the process 300 ms later.  Files are inodes: who has one open  *)
(* goes on writing to it wherever it was renamed to.                       *)
(***************************************************************************)
EXTENDS Integers, FiniteSets

CONSTANTS
    Applier,     \* requests to POST /v1/update
    Releases,    \* the version numbers a release may have
    Pieces,      \* writes a download takes
    MaxApplies,  \* bound on downloads
    MaxTroubles  \* bound on crashes, failing renames and failing execs

UpdateAssumption ==
    /\ Releases \subseteq Nat \ {0} /\ 2 \in Releases   \* it starts as release 2
    /\ Pieces \in Nat \ {0} /\ MaxApplies \in Nat /\ MaxTroubles \in Nat

VARIABLES
    process,  \* the version that runs, Broken if it cannot
    dest,     \* the inode of the executable
    new,      \* the inode of "<executable>.new", 0 without one
    disk,     \* inode -> its pieces: the version they are of, 0 for a hole
    req,      \* request -> where it is, what it downloads, which inode it writes
    restarts, \* restarts that were promised
    applies, troubles,
    excuse    \* ghost: "overlap" of two downloads, a refused "exec"

update == <<process, dest, new, disk, req, restarts, applies, troubles, excuse>>

Broken == 0
Inode == 1 .. MaxApplies + 1
Blank == [n \in 1 .. Pieces |-> 0]
Rest == [at |-> "idle", version |-> 0, file |-> 0, wrote |-> 0]

Downloading == {a \in Applier : req[a].at \in {"copy", "verify", "swap"}}
Whole(file) == \E v \in Releases : file = [n \in 1 .. Pieces |-> v]

-----------------------------------------------------------------------------
Newer_Differs(current, latest) == latest # current
Newer(current, latest) == latest > current

\* Check: whatever release is the latest now, it may also have been withdrawn.
Check(a) ==
    /\ process # Broken
    /\ req[a].at = "idle" /\ applies < MaxApplies
    /\ \E v \in Releases : /\ Newer(process, v)
                         /\ req' = [req EXCEPT ![a] = [Rest EXCEPT !.at = "open", !.version = v]]
    /\ applies' = applies + 1
    /\ UNCHANGED <<process, dest, new, disk, restarts, troubles, excuse>>

\* O_CREATE|O_TRUNC: a file that is there is emptied, whoever is writing it.
Open(a) ==
    /\ req[a].at = "open"
    /\ new' = IF new # 0 THEN new ELSE CHOOSE i \in Inode \ {dest} :
                  disk[i] = Blank /\ \A b \in Applier : req[b].file # i
    /\ disk' = [disk EXCEPT ![new'] = Blank]
    /\ req' = [req EXCEPT ![a].at = "copy", ![a].file = new']
    /\ excuse' = IF Downloading = {} THEN excuse ELSE excuse \cup {"overlap"}
    /\ UNCHANGED <<process, dest, restarts, applies, troubles>>

Copy(a) ==
    /\ req[a].at = "copy"
    /\ LET n == req[a].wrote + 1 IN
       /\ disk' = [disk EXCEPT ![req[a].file][n] = req[a].version]
       /\ req' = [req EXCEPT ![a].wrote = n, ![a].at = IF n = Pieces THEN "verify" ELSE "copy"]
    /\ UNCHANGED <<process, dest, new, restarts, applies, troubles, excuse>>

\* A request that fails removes the file of that name.
Removed(a) ==
    /\ req' = [req EXCEPT ![a] = Rest]
    /\ new' = 0 /\ UNCHANGED disk

\* The connection breaks or 90 seconds are over.
AfterBreak_Verified(a) ==
    req' = [req EXCEPT ![a].at = "verify"] /\ UNCHANGED <<new, disk>>
AfterBreak(a) == Removed(a)

CopyFails(a) ==
    /\ req[a].at = "copy"
    /\ AfterBreak(a)
    /\ UNCHANGED <<process, dest, restarts, applies, troubles, excuse>>

\* looksExecutable reads the first bytes of whatever has the name now.
Verify(a) ==
    /\ req[a].at = "verify"
    /\ IF new # 0 /\ disk[new][1] # 0
       THEN req' = [req EXCEPT ![a].at = "swap", ![a].file = 0] /\ UNCHANGED <<new, disk>>
       ELSE Removed(a)
    /\ UNCHANGED <<process, dest, restarts, applies, troubles, excuse>>

AfterFailedRename_Promised(a) == Removed(a) /\ restarts' = restarts + 1
AfterFailedRename(a) == Removed(a) /\ UNCHANGED restarts

\* The rename, and the answer that a restart follows.
Swap(a) ==
    /\ req[a].at = "swap"
    /\ \/ /\ new # 0
          /\ dest' = new /\ new' = 0
          /\ req' = [req EXCEPT ![a] = Rest]
          /\ restarts' = restarts + 1
          /\ UNCHANGED <<disk, troubles>>
       \/ /\ new = 0
          /\ Removed(a) /\ UNCHANGED <<dest, restarts, troubles>>
       \/ /\ troubles < MaxTroubles /\ troubles' = troubles + 1
          /\ AfterFailedRename(a) /\ UNCHANGED dest
    /\ UNCHANGED <<process, applies, excuse>>

-----------------------------------------------------------------------------
\* A process begins with the executable: what is not whole may not run.
Begin ==
    /\ \/ /\ Whole(disk[dest])
          /\ process' = disk[dest][1]
       \/ ~ Whole(disk[dest]) /\ process' = Broken
    /\ req' = [a \in Applier |-> Rest]
    /\ restarts' = 0
    /\ UNCHANGED <<dest, new, disk, applies, excuse>>

\* An exec that fails changes nothing, and its error is dropped: the file is
\* still open for writing, or no program, or the system refuses.
ExecFails ==
    /\ \/ /\ \E b \in Applier : req[b].at = "copy" /\ req[b].file = dest
          /\ UNCHANGED <<excuse, troubles>>
       \/ ~ Whole(disk[dest]) /\ UNCHANGED <<excuse, troubles>>
       \/ /\ troubles < MaxTroubles /\ troubles' = troubles + 1
          /\ excuse' = excuse \cup {"exec"}
    /\ restarts' = restarts - 1
    /\ UNCHANGED <<process, dest, new, disk, req, applies>>

Restart ==
    /\ process # Broken /\ restarts > 0
    /\ \/ ExecFails
       \/ /\ \A b \in Applier : req[b].at = "copy" => req[b].file # dest
          /\ Begin /\ UNCHANGED troubles

\* The process ends, and the service starts the executable again.
Crash ==
    /\ process # Broken
    /\ troubles < MaxTroubles /\ troubles' = troubles + 1
    /\ Begin

-----------------------------------------------------------------------------
UpdateInit ==
    /\ process = 2 /\ dest = 1 /\ new = 0
    /\ disk = [i \in Inode |-> IF i = 1 THEN [n \in 1 .. Pieces |-> 2] ELSE Blank]
    /\ req = [a \in Applier |-> Rest]
    /\ restarts = 0 /\ applies = 0 /\ troubles = 0 /\ excuse = {}

Apply(a) == Check(a) \/ Open(a) \/ Copy(a) \/ CopyFails(a) \/ Verify(a) \/ Swap(a)

UpdateNext == (\E a \in Applier : Apply(a)) \/ Restart \/ Crash

UpdateSpec == UpdateInit /\ [][UpdateNext]_update

-----------------------------------------------------------------------------
\* The executable is a whole release whatever breaks, unless two downloads
\* overlapped: they write one file, and the first to end renames what the
\* other is still writing.
ExecutableIsWhole == "overlap" \in excuse \/ (process # Broken /\ Whole(disk[dest]))

\* No restart goes back to an older version, also after a release was withdrawn.
NeverOlder == [][process' # Broken => process' >= process]_update

\* A restart that was promised brings a newer version: only an exec the system
\* refused, or overlapping downloads, use the promise up without one.
PromisesAreKept ==
    [][restarts' < restarts => process' > process \/ excuse' # {}]_update
=============================================================================
