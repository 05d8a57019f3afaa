------------------------------ MODULE FlatIndex ------------------------------
(***************************************************************************)
(* A collection of the flat index (internal/adapter/flatindex): a file of  *)
(* codes and a file of image ids, slot by slot, opened by one writing      *)
(* process or several reading ones.  Processes die, the power fails, and a *)
(* write or a sync may fail half way.  A code is named by the image it was *)
(* made from, a file holds whole slots.                                    *)
(***************************************************************************)
EXTENDS Integers, Sequences, FiniteSets

CONSTANTS
    Image,
    Writer, Reader,   \* processes, by how they open the folder
    MaxSlots,         \* bound on the length of the files
    MaxBatch          \* bound on the points of one Upsert

FlatIndexAssumption ==
    MaxSlots \in Nat /\ MaxBatch \in Nat \ {0} /\ Writer \cap Reader = {}

VARIABLES
    codes, ids,            \* the files as the kernel shows them
    diskCodes, diskIds,    \* what of them a power cut cannot take
    count,                 \* process -> its number of slots, Closed if not open
    adding,                \* the points the writer is appending, <<>> if none
    phase,                 \* where that append is
    acked,                 \* <<slot, image>> of every append that returned nil
    mishap                 \* an append has returned an error

files == <<codes, ids>>
disk == <<diskCodes, diskIds>>
flat == <<codes, ids, diskCodes, diskIds, count, adding, phase, acked, mishap>>

Process == Writer \cup Reader
Closed == -1
Least(m, n) == IF m < n THEN m ELSE n

-----------------------------------------------------------------------------
(* Opening. *)

\* flock without waiting: exclusive for a writer, shared for readers.
LockFree(p) ==
    \A q \in Process \ {p} : count[q] # Closed => p \in Reader /\ q \in Reader

Slots_ByCodes == Len(codes)

\* The shorter file counts,
Slots == Least(Len(codes), Len(ids))

\* and a writer cuts both to it; the cuts are not synced.
Open(p) ==
    /\ count[p] = Closed /\ LockFree(p)
    /\ count' = [count EXCEPT ![p] = Slots]
    /\ IF p \in Writer
       THEN /\ codes' = SubSeq(codes, 1, Slots)
            /\ ids' = SubSeq(ids, 1, Least(Len(ids), Slots))
       ELSE UNCHANGED files
    /\ UNCHANGED <<disk, adding, phase, acked, mishap>>

Shut(p) ==
    /\ count[p] # Closed /\ ~(p \in Writer /\ phase # "idle")
    /\ count' = [count EXCEPT ![p] = Closed]
    /\ UNCHANGED <<files, disk, adding, phase, acked, mishap>>

-----------------------------------------------------------------------------
(* append, one call after another under the collection's lock *)

\* WriteAt: points over a file from slot `at` on, what is behind stays.
Written(file, at, points) ==
    LET end == at + Len(points)
        size == IF end > Len(file) THEN end ELSE Len(file)
    IN  [i \in 1 .. size |-> IF at < i /\ i <= end THEN points[i - at] ELSE file[i]]

Batches == UNION {[1 .. n -> Image] : n \in 1 .. MaxBatch}

Upsert(p, points) ==
    /\ p \in Writer /\ count[p] # Closed /\ phase = "idle"
    /\ count[p] + Len(points) <= MaxSlots
    /\ adding' = points /\ phase' = "codes"
    /\ UNCHANGED <<files, disk, count, acked, mishap>>

\* The append returns an error: the slots are not counted, the files keep
\* whatever was written.
Failed == phase' = "idle" /\ adding' = <<>> /\ mishap' = TRUE

WriteCodes(p) ==
    /\ count[p] # Closed /\ phase = "codes"
    /\ \/ codes' = Written(codes, count[p], adding) /\ phase' = "syncCodes"
          /\ UNCHANGED <<adding, mishap>>
       \/ /\ \E n \in 0 .. Len(adding) - 1 :
               codes' = Written(codes, count[p], SubSeq(adding, 1, n))
          /\ Failed
    /\ UNCHANGED <<ids, disk, count, acked>>

SyncedCodes_Not == diskCodes
SyncedCodes == codes

SyncCodes ==
    /\ phase = "syncCodes"
    /\ \/ diskCodes' = SyncedCodes /\ phase' = "ids" /\ UNCHANGED <<adding, mishap>>
       \/ Failed /\ UNCHANGED diskCodes
    /\ UNCHANGED <<files, diskIds, count, acked>>

WriteIds(p) ==
    /\ count[p] # Closed /\ phase = "ids"
    /\ \/ ids' = Written(ids, count[p], adding) /\ phase' = "syncIds"
          /\ UNCHANGED <<adding, mishap>>
       \/ /\ \E n \in 0 .. Len(adding) - 1 :
               ids' = Written(ids, count[p], SubSeq(adding, 1, n))
          /\ Failed
    /\ UNCHANGED <<codes, disk, count, acked>>

SyncedIds_Not == diskIds
SyncedIds == ids

SyncIds ==
    /\ phase = "syncIds"
    /\ \/ diskIds' = SyncedIds /\ phase' = "map" /\ UNCHANGED <<adding, mishap>>
       \/ Failed /\ UNCHANGED diskIds
    /\ UNCHANGED <<files, diskCodes, count, acked>>

\* The grown file is mapped again, then the slots count and nil is returned;
\* when the old map cannot be given back they count although an error is.
Remap(p) ==
    /\ count[p] # Closed /\ phase = "map"
    /\ \/ /\ count' = [count EXCEPT ![p] = @ + Len(adding)]
          /\ acked' = acked \cup {<<count[p] + i, adding[i]>> : i \in 1 .. Len(adding)}
          /\ phase' = "idle" /\ adding' = <<>> /\ UNCHANGED mishap
       \/ Failed /\ count' \in {count, [count EXCEPT ![p] = @ + Len(adding)]} /\ UNCHANGED acked
    /\ UNCHANGED <<files, disk>>

-----------------------------------------------------------------------------
(* Faults. *)

Crash(p) ==
    /\ count[p] # Closed
    /\ count' = [count EXCEPT ![p] = Closed]
    /\ IF p \in Writer THEN phase' = "idle" /\ adding' = <<>> ELSE UNCHANGED <<phase, adding>>
    /\ UNCHANGED <<files, disk, acked, mishap>>

\* Of what was not synced, any slots and any length in between may survive.
Survivors(old, new) ==
    LET short == Least(Len(old), Len(new))
        long == Len(old) + Len(new) - short
    IN  UNION {{f \in [1 .. n -> Image] : \A i \in 1 .. n :
                  \/ i <= Len(old) /\ f[i] = old[i]
                  \/ i <= Len(new) /\ f[i] = new[i]} : n \in short .. long}

PowerCut ==
    /\ files # disk
    /\ codes' \in Survivors(diskCodes, codes) /\ diskCodes' = codes'
    /\ ids' \in Survivors(diskIds, ids) /\ diskIds' = ids'
    /\ count' = [p \in Process |-> Closed]
    /\ phase' = "idle" /\ adding' = <<>>
    /\ UNCHANGED <<acked, mishap>>

-----------------------------------------------------------------------------
FlatInit ==
    /\ codes = <<>> /\ ids = <<>> /\ diskCodes = <<>> /\ diskIds = <<>>
    /\ count = [p \in Process |-> Closed]
    /\ adding = <<>> /\ phase = "idle" /\ acked = {} /\ mishap = FALSE

AppendStep(p) == WriteCodes(p) \/ SyncCodes \/ WriteIds(p) \/ SyncIds \/ Remap(p)

FlatNext ==
    \/ \E p \in Process : Open(p) \/ Shut(p) \/ Crash(p)
    \/ \E p \in Writer : AppendStep(p) \/ \E points \in Batches : Upsert(p, points)
    \/ PowerCut

FlatSpec == FlatInit /\ [][FlatNext]_flat

-----------------------------------------------------------------------------
\* Types; nobody counts slots a file does not have.
FlatTypeOK ==
    /\ {codes, ids, diskCodes, diskIds, adding} \subseteq Seq(Image)
    /\ count \in [Process -> {Closed} \cup 0 .. MaxSlots]
    /\ \A p \in Process : count[p] <= Least(Len(codes), Len(ids))
    /\ phase \in {"idle", "codes", "syncCodes", "ids", "syncIds", "map"}
    /\ acked \subseteq (1 .. MaxSlots) \X Image
    /\ mishap \in BOOLEAN

\* What Upsert reported as stored stays: PostgreSQL marks it indexed and
\* never sends it again.  Crashes, power cuts, failed appends behind it and a
\* second process must leave its slot alone, in both files and on disk.
AckedIsKept ==
    \A k \in acked :
        /\ k[1] <= Slots /\ codes[k[1]] = k[2] /\ ids[k[1]] = k[2]
        /\ k[1] <= Len(diskCodes) /\ diskCodes[k[1]] = k[2]
        /\ k[1] <= Len(diskIds) /\ diskIds[k[1]] = k[2]

\* "Left alone, a slot would pair the code of one picture with the id of
\* another, and only the results of searches would be wrong, without an
\* error" (collection.go:67-69, 138-140): no process ever counts such a slot.
Paired == \A p \in Process : \A i \in 1 .. count[p] : codes[i] = ids[i]

\* Sudden ends alone, of a process or of the power, never mispair a slot.
PairedUnlessAnAppendFailed == mishap \/ Paired
=============================================================================
