------------------------------- MODULE Models -------------------------------
(***************************************************************************)
(* Which model a vector was made with.  The registry of embedding models   *)
(* (internal/adapter/postgres/nodes.go) is changed while nodes run; each   *)
(* process reads it once, when it starts (activeModels, cmd/saucedust/     *)
(* wire.go), nodes are compared with it then, and the central node opens a *)
(* collection per model.  What stops vectors of two models from being      *)
(* mixed afterwards are the checks of a submission (internal/app/ingest.go)*)
(* and of the index (internal/adapter/flatindex).                          *)
(*                                                                         *)
(* A vector is named by its model, its size and the weights it was made    *)
(* with; how many there are does not matter.                               *)
(***************************************************************************)
EXTENDS Integers, FiniteSets

CONSTANTS
    Id,           \* names of models, and of collections
    Sizes, Weights,
    Worker,       \* worker nodes
    Central,      \* the central node, as the owner of an embedding worker
    Additions,    \* models an operator adds
    Sync,         \* what models.json can list: sets of [id, kind, size, weights]
    Loads,        \* what an embedding worker can come up with
    MaxChanges,   \* bound on registrations and on restarts of embedding workers
    MaxStarts     \* bound on starts of nodes

VARIABLES
    registry,     \* rows of embedding_models, one per id
    loaded,       \* node -> what its embedding worker makes: [id, size, weights]
    snapshot,     \* node -> the models it started with, {} while it is down
    checking,     \* worker -> models read and not yet verified
    opening,      \* models whose collections the central node has yet to open
    serving,      \* the central node is up
    collections,  \* opened collections: [name, id, size]
    points,       \* vectors in the index: [in, id, size, weights]
    backups,      \* image_vectors: [id, size, weights]
    syncing,      \* what SyncModels has yet to register
    synced,       \* ghost: what the last finished SyncModels registered
    resized,      \* ghost: ids registered again with another size
    changes, starts

tables == <<registry, resized>>
nodes == <<loaded, snapshot, checking, opening, serving>>
stored == <<collections, points, backups>>
models == <<tables, nodes, stored, syncing, synced, changes, starts>>

Kind == {"copy", "semantic"}
Model == [id : Id, kind : Kind, size : Sizes, weights : Weights, in : Id, active : BOOLEAN]
Active == {m \in registry : m.active}
Made == [id : Id, size : Sizes, weights : Weights]
OnePerId(s) == \A m, o \in s : m.id = o.id => m = o
\* An entry of models.json.
Entry == [id : Id, kind : Kind, size : Sizes, weights : Weights]

\* A worker answers with one vector per id.
ModelsAssumption ==
    /\ Sizes \subseteq Nat \ {0} /\ Central \notin Worker
    /\ Additions \subseteq Model /\ Sync \subseteq SUBSET Entry
    /\ \A made \in Loads : made # {} /\ made \subseteq Made /\ OnePerId(made)
    /\ MaxChanges \in Nat /\ MaxStarts \in Nat

-----------------------------------------------------------------------------
(* The registry. *)

StepsDown_AnyKind(m, o) == o.id # m.id
\* The active model of the same kind steps down.
StepsDown(m, o) == o.id # m.id /\ o.kind = m.kind

\* UpsertModel, one transaction.
UpsertModel(m) ==
    /\ changes < MaxChanges /\ changes' = changes + 1
    /\ registry' = {IF StepsDown(m, o) THEN [o EXCEPT !.active = FALSE] ELSE o :
                        o \in {r \in registry : r.id # m.id}} \cup {m}
    /\ resized' = IF \E o \in registry : o.id = m.id /\ o.size # m.size
                  THEN resized \cup {m.id} ELSE resized

\* model add and the console's form: any collection, "" is the id.
AddModel(m) ==
    /\ UpsertModel(m)
    /\ synced' = {}
    /\ UNCHANGED <<nodes, stored, syncing, starts>>

\* SyncModels: what models.json lists, one transaction each; the collection
\* is the id.  A failure leaves the rest out.
BeginSync(specs) ==
    /\ syncing = {} /\ changes + Cardinality(specs) <= MaxChanges
    /\ syncing' = specs /\ synced' = {}
    /\ UNCHANGED <<tables, nodes, stored, changes, starts>>

Spec(s) == [id |-> s.id, kind |-> s.kind, size |-> s.size, weights |-> s.weights,
            in |-> s.id, active |-> TRUE]

SyncOne(s) ==
    /\ s \in syncing
    /\ UpsertModel(Spec(s))
    /\ syncing' = syncing \ {s}
    /\ synced' = synced \cup {s}
    /\ UNCHANGED <<nodes, stored, starts>>

SyncFails ==
    /\ syncing # {}
    /\ syncing' = {} /\ synced' = {}
    /\ UNCHANGED <<tables, nodes, stored, changes, starts>>

-----------------------------------------------------------------------------
(* Starts. *)

\* What VerifyNodeModels, ValidateVectors and Reembed ask for.
Carries(made, m) == \E v \in made : v.id = m.id /\ v.size = m.size

Verified(n) == \A m \in Active : Carries(loaded[n], m)

\* activeModels of a worker reads the registry,
ReadModels(w) ==
    /\ snapshot[w] = {} /\ checking[w] = {} /\ starts < MaxStarts
    /\ starts' = starts + 1
    /\ checking' = [checking EXCEPT ![w] = Active]
    /\ UNCHANGED <<tables, loaded, snapshot, opening, serving, stored, syncing, synced, changes>>

\* and VerifyNodeModels reads it again.
VerifyNodeModels(w) ==
    /\ checking[w] # {}
    /\ snapshot' = [snapshot EXCEPT ![w] = IF Verified(w) THEN checking[w] ELSE {}]
    /\ checking' = [checking EXCEPT ![w] = {}]
    /\ UNCHANGED <<tables, loaded, opening, serving, stored, syncing, synced, changes, starts>>

\* The central node; -no-crawl skips the comparison with its own worker.
StartCentral(crawl) ==
    /\ snapshot[Central] = {} /\ Active # {} /\ starts < MaxStarts
    /\ crawl => Verified(Central)
    /\ starts' = starts + 1
    /\ snapshot' = [snapshot EXCEPT ![Central] = Active]
    /\ opening' = Active
    /\ UNCHANGED <<tables, loaded, checking, serving, stored, syncing, synced, changes>>

CollectionOf(name) == {c \in collections : c.name = name}

Fits_BySize(m) == \A c \in CollectionOf(m.in) : c.size = m.size
\* A collection belongs to the model it was made for.
Fits(m) == \A c \in CollectionOf(m.in) : c.id = m.id /\ c.size = m.size

\* Opened, or made.
Opened(m) ==
    /\ Fits(m)
    /\ collections' = IF CollectionOf(m.in) # {} THEN collections
                      ELSE collections \cup {[name |-> m.in, id |-> m.id, size |-> m.size]}

\* newIngest: one after the other; the first that does not fit ends the
\* process, with what was made before it.
EnsureCollection(m) ==
    /\ m \in opening
    /\ m.kind = "semantic" => \A o \in opening : o.kind # "copy"
    /\ \/ /\ Opened(m)
          /\ opening' = opening \ {m} /\ serving' = (opening' = {})
          /\ UNCHANGED snapshot
       \/ /\ ~Fits(m)
          /\ opening' = {} /\ snapshot' = [snapshot EXCEPT ![Central] = {}]
          /\ UNCHANGED <<collections, serving>>
    /\ UNCHANGED <<tables, loaded, checking, points, backups, syncing, synced, changes, starts>>

Stop(n) ==
    /\ snapshot[n] # {}
    /\ snapshot' = [snapshot EXCEPT ![n] = {}]
    /\ IF n = Central THEN opening' = {} /\ serving' = FALSE ELSE UNCHANGED <<opening, serving>>
    /\ UNCHANGED <<tables, loaded, checking, stored, syncing, synced, changes, starts>>

\* The embedding worker is a process of its own: it may come back with other
\* models while its node goes on.
ReloadWorker(n, made) ==
    /\ changes < MaxChanges /\ changes' = changes + 1
    /\ loaded' = [loaded EXCEPT ![n] = made]
    /\ UNCHANGED <<tables, snapshot, checking, opening, serving, stored, syncing, synced, starts>>

-----------------------------------------------------------------------------
(* Vectors. *)

Valid_Unchecked(made, known) == TRUE
\* ValidateVectors, of the indexer and again of the central node.
Valid(made, known) == \A m \in known : Carries(made, m)

\* findModel: a model the central node does not know.
Known(made) == \A v \in made : \E m \in snapshot[Central] : m.id = v.id

Home(v) == (CHOOSE m \in snapshot[Central] : m.id = v.id).in
Indexed(v) == [in |-> Home(v), id |-> v.id, size |-> v.size, weights |-> v.weights]

Refused(n) == ~Valid(loaded[n], snapshot[Central]) \/ ~Known(loaded[n])

\* All vectors of a node's worker: backed up, then appended.
Submit(n) ==
    /\ serving /\ snapshot[n] # {}
    /\ Valid(loaded[n], snapshot[n])
    /\ ~Refused(n)
    /\ backups' = backups \cup loaded[n]
    /\ points' = points \cup {Indexed(v) : v \in loaded[n]}
    /\ UNCHANGED <<tables, nodes, collections, syncing, synced, changes, starts>>

\* StartReembed reads the registry again and may open a new collection.
ReembedModel(m) ==
    /\ serving /\ m \in Active /\ Verified(Central)
    /\ Opened(m)
    /\ \E v \in loaded[Central] :
         /\ v.id = m.id /\ v.size = m.size
         /\ backups' = backups \cup {v}
         /\ points' = points \cup {[in |-> m.in, id |-> v.id, size |-> v.size, weights |-> v.weights]}
    /\ UNCHANGED <<tables, nodes, syncing, synced, changes, starts>>

-----------------------------------------------------------------------------
ModelsInit ==
    /\ registry = {} /\ resized = {} /\ synced = {} /\ syncing = {}
    /\ loaded \in [Worker \cup {Central} -> Loads]
    /\ snapshot = [n \in Worker \cup {Central} |-> {}]
    /\ checking = [w \in Worker |-> {}]
    /\ opening = {} /\ serving = FALSE
    /\ collections = {} /\ points = {} /\ backups = {} /\ changes = 0 /\ starts = 0

ModelsNext ==
    \/ \E m \in Additions : AddModel(m)
    \/ \E specs \in Sync : BeginSync(specs) \/ \E s \in specs : SyncOne(s)
    \/ SyncFails
    \/ \E w \in Worker : ReadModels(w) \/ VerifyNodeModels(w)
    \/ \E crawl \in BOOLEAN : StartCentral(crawl)
    \/ \E m \in opening : EnsureCollection(m)
    \/ \E n \in Worker \cup {Central} :
         Stop(n) \/ Submit(n) \/ \E made \in Loads : ReloadWorker(n, made)
    \/ \E m \in Active : ReembedModel(m)

-----------------------------------------------------------------------------
\* Types; one row per id, one active model per kind.
ModelsTypeOK ==
    /\ registry \subseteq Model /\ OnePerId(registry)
    /\ \A m, o \in Active : m.kind = o.kind => m = o
    /\ \A n \in DOMAIN snapshot : loaded[n] \subseteq Made /\ snapshot[n] \subseteq Model
    /\ opening \subseteq snapshot[Central] /\ (serving => snapshot[Central] # {} /\ opening = {})
    /\ backups \subseteq Made /\ \A c, d \in collections : c.name = d.name => c = d

\* Vectors of two models never meet in a collection, whatever was registered
\* under a name or a collection while nodes with older models went on.
CollectionsKeepToOneModel ==
    \A p \in points : \E c \in collections : c.name = p.in /\ c.id = p.id /\ c.size = p.size

\* What is backed up of a model has its registered size, by whichever node
\* and from whichever reading of the registry it came; only registering a
\* name again with another size leaves old vectors behind.
BackupsFit ==
    \A v \in backups :
        \E m \in registry : m.id = v.id /\ (v.id \in resized \/ m.size = v.size)

\* A sync that came to its end left what it registered active, unless two of
\* its models are of one kind or have one name.
SyncTakesEffect ==
    syncing = {} /\ (\A s, t \in synced : s.kind = t.kind \/ s.id = t.id => s = t)
        => \A s \in synced : Spec(s) \in registry

\* "Checks that the models a node reports are the same as the active ones"
\* (nodes.go:241): a node that passed is not refused by the central node
\* while both hold the same models and its worker is the one that reported.
VerifiedIsAccepted ==
    \A w \in Worker :
        serving /\ snapshot[w] = snapshot[Central] /\ changes = Cardinality(registry) => ~Refused(w)

\* "Nodes with different models could not compare vectors, so it is stopped
\* here" (wire.go:105): with one registration per model and no other worker
\* since, the vectors of a collection are made with the same weights.
SameWeights ==
    changes = Cardinality(registry) =>
        \A p, q \in points : p.in = q.in => p.weights = q.weights
=============================================================================
