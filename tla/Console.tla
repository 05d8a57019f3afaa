------------------------------- MODULE Console -------------------------------
(***************************************************************************)
(* The settings page of the control node: what is saved is merged into the *)
(* running configuration, tried, written to web-config.json by way of a    *)
(* temporary file all saves share, with no lock held, and taken up by a    *)
(* restart (cmd/saucedust/webops.go, internal/adapter/httpapi/console.go,  *)
(* internal/config).  A start reads .env into the environment, the         *)
(* environment, then the file; the restart is an exec, which keeps the     *)
(* environment.                                                            *)
(***************************************************************************)
EXTENDS Integers, FiniteSets

CONSTANTS
    Saver,       \* requests that may save at the same time
    Spans,       \* values of the two times
    MaxSaves,    \* bound on saves
    MaxStarts    \* bound on starts, edits of .env, and steps of a save that fail

ConsoleAssumption == Spans \subseteq Nat /\ MaxSaves \in Nat /\ MaxStarts \in Nat

VARIABLES
    dotenv,      \* what .env says
    environ,     \* the environment of the process, once .env is read into it
    webFile,     \* what web-config.json holds
    webTmp,      \* what web-config.json.tmp holds
    webFd,       \* saver -> the name the file it has open goes by, "none" without one
    save,        \* saver -> where SaveSettings is, and what it writes
    cfg,         \* rt.cfg
    process,     \* "up", "down", or "refused": the start failed
    restarts,    \* restarts a save has scheduled
    saves, starts,
    wanted,      \* ghost: what the accepted saves amount to, until one is raced
    raced,       \* ghost: one was accepted before the restart of another, or while
                 \* another was being written, or gave the token as null
    collided     \* ghost: a save of this process opened the file before another was
                 \* done with it

files == <<webFile, webTmp, webFd>>
console == <<dotenv, environ, files, save, cfg, process, restarts, saves, starts, wanted, raced, collided>>

\* Of the configuration: the address and the token it needs, and two times of
\* which one must exceed the other.  "none" is the empty token;
\* Null is a value the file leaves out.
Field == {"bind", "key", "beat", "timeout"}
Config == [bind : {"loopback", "localhost", "outside"}, key : {"none", "long"}, beat : Spans, timeout : Spans]
Null == "null"
File == [bind : {"loopback", "localhost", "outside"}, key : {"none", "long", Null}, beat : Spans, timeout : Spans]
Absent == [key |-> "absent"]

\* A file just opened, and one that holds parts of two writings, or of one.
Empty == [key |-> "empty"]
Broken == [key |-> "broken"]

NoSave == [at |-> "idle", file |-> Absent, want |-> Absent]
NoneOpen == [b \in Saver |-> "none"]
Writing == {b \in Saver : save[b].at # "idle"}

-----------------------------------------------------------------------------
(* internal/config *)

\* Config.validate
Valid(c) == c.beat > 0 /\ c.timeout > c.beat

\* exposureOK takes an address for what net.ParseIP says of it;
Exposable(c) == c.bind = "loopback" \/ c.key = "long"

\* checkExposure of the server knows localhost.
Servable(c) == c.bind \in {"loopback", "localhost"} \/ c.key = "long"

\* WebFile.Apply to a configuration: all its fields, but for a null.
Applied(file, c) == [file EXCEPT !.key = IF @ = Null THEN c.key ELSE @]

Accepts_Unchecked(file, c) == file.beat > 0 /\ Exposable(Applied(file, c))
Accepts(file, c) ==
    /\ file.beat > 0
    /\ Exposable(Applied(file, c)) /\ Valid(Applied(file, c))

\* Load, ApplyWebFile, and New of the server.
Starts(env, file) ==
    /\ Valid(env)
    /\ IF file = Absent THEN Servable(env)
       ELSE file \notin {Empty, Broken} /\ Accepts(file, env) /\ Servable(Applied(file, env))

Loaded(env, file) == IF file = Absent THEN env ELSE Applied(file, env)

-----------------------------------------------------------------------------
(* Settings *)

Base_Environ == environ

\* WebFileFrom: what a save leaves out comes from the running configuration.
Base == cfg

Merged(given, input) == [f \in Field |-> IF f \in given THEN input[f] ELSE Base[f]]

Tried_Not(file) == TRUE

\* MergeWebFile tries it on a copy.
Tried(file) == Accepts(file, cfg)

\* SaveSettings: MergeWebFile, which reads only what a process never changes,
\* and the opening of the file by WriteWebFile, O_CREATE|O_TRUNC, also of a file
\* others have open.  What is refused, or cannot be opened, changes nothing.
OpenTmp(b, given, input, noKey) ==
    LET file == IF noKey THEN [Merged(given, input) EXCEPT !.key = Null] ELSE Merged(given, input) IN
    /\ process = "up" /\ save[b].at = "idle" /\ saves < MaxSaves
    /\ noKey => "key" \notin given
    /\ Tried(file)
    /\ saves' = saves + 1
    /\ webTmp' = Empty /\ webFd' = [webFd EXCEPT ![b] = "tmp"]
    /\ save' = [save EXCEPT ![b] = [at |-> "write", file |-> file,
           want |-> [f \in Field |-> IF f \in given THEN input[f]
                                    ELSE IF webFile = Absent \/ raced THEN cfg[f] ELSE wanted[f]]]]
    /\ raced' = (raced \/ Writing # {}) /\ collided' = (collided \/ Writing # {})
    /\ UNCHANGED <<dotenv, environ, webFile, cfg, process, restarts, starts, wanted>>

\* What a text can come to be when a save writes from the start of the file: over
\* what another wrote there, the rest of a longer text stays; of a write that
\* fails any part may be there, or all of it.
Written(text, file, whole) ==
    IF ~ whole THEN {text, file, Broken} ELSE IF text = Empty THEN {file} ELSE {file, Broken}

\* The file may have another name by now than when it was opened, or none.
Write(b, whole) ==
    /\ webTmp' \in IF webFd[b] = "tmp" THEN Written(webTmp, save[b].file, whole) ELSE {webTmp}
    /\ webFile' \in IF webFd[b] = "file" THEN Written(webFile, save[b].file, whole) ELSE {webFile}
    /\ webFd' = [webFd EXCEPT ![b] = "none"]

AfterFailedWrite_Renames(b) == [save EXCEPT ![b].at = "rename"]
AfterFailedWrite(b) == [save EXCEPT ![b] = NoSave]

Fails == starts < MaxStarts /\ starts' = starts + 1

WriteTmp(b) ==
    /\ save[b].at = "write"
    /\ \/ Write(b, TRUE) /\ save' = [save EXCEPT ![b].at = "rename"] /\ UNCHANGED starts
       \/ Write(b, FALSE) /\ save' = AfterFailedWrite(b) /\ Fails
    /\ UNCHANGED <<dotenv, environ, cfg, process, restarts, saves, wanted, raced, collided>>

\* Whatever has the name of the temporary file now becomes web-config.json, also
\* when another is still writing it; a restart follows 300 ms later.
Rename(b) ==
    /\ save[b].at = "rename" /\ webTmp # Absent
    /\ webFile' = webTmp /\ webTmp' = Absent
    /\ webFd' = [c \in Saver |-> IF webFd[c] = "tmp" THEN "file" ELSE "none"]
    /\ save' = [save EXCEPT ![b] = NoSave]
    /\ raced' = (raced \/ save[b].file.key = Null \/ Loaded(environ, webFile) # cfg)
    /\ wanted' = IF raced' THEN wanted ELSE save[b].want
    /\ restarts' = restarts + 1
    /\ UNCHANGED <<dotenv, environ, cfg, process, saves, starts, collided>>

\* The rename of another may have taken the name away.
RenameFails(b) ==
    /\ save[b].at = "rename"
    /\ IF webTmp = Absent THEN UNCHANGED starts ELSE Fails
    /\ save' = [save EXCEPT ![b].at = "remove"]
    /\ UNCHANGED <<dotenv, environ, files, cfg, process, restarts, saves, wanted, raced, collided>>

\* The error of the removal is dropped.
RemoveTmp(b) ==
    /\ save[b].at = "remove"
    /\ \/ /\ webTmp' = Absent
          /\ webFd' = [c \in Saver |-> IF webFd[c] = "tmp" THEN "none" ELSE webFd[c]]
          /\ UNCHANGED starts
       \/ Fails /\ UNCHANGED <<webTmp, webFd>>
    /\ save' = [save EXCEPT ![b] = NoSave]
    /\ UNCHANGED <<dotenv, environ, webFile, cfg, process, restarts, saves, wanted, raced, collided>>

\* Saves die with their process, and leave the temporary file.
Forgotten == save' = [b \in Saver |-> NoSave] /\ webFd' = NoneOpen

\* loadDotEnv sets only what the environment lacks.
Environ == IF environ = Absent THEN dotenv ELSE environ

Boot ==
    /\ starts < MaxStarts /\ starts' = starts + 1
    /\ environ' = Environ
    /\ IF Starts(environ', webFile)
       THEN process' = "up" /\ cfg' = Loaded(environ', webFile) /\ collided' = FALSE
       ELSE process' = "refused" /\ UNCHANGED <<cfg, collided>>
    /\ restarts' = 0
    /\ Forgotten
    /\ UNCHANGED <<dotenv, webFile, webTmp, saves, wanted, raced>>

\* Restart: an exec, which may fail and then nothing has happened.
Restart ==
    /\ process = "up" /\ restarts > 0
    /\ \/ Boot
       \/ /\ restarts' = restarts - 1
          /\ UNCHANGED <<dotenv, environ, files, save, cfg, process, saves, starts, wanted, raced, collided>>

\* A crash or a stop; the service manager starts it again, with a new environment.
Exit ==
    /\ process = "up"
    /\ process' = "down" /\ environ' = Absent /\ restarts' = 0
    /\ Forgotten
    /\ UNCHANGED <<dotenv, webFile, webTmp, cfg, saves, starts, wanted, raced, collided>>

StartAgain == process = "down" /\ Boot

EditDotEnv ==
    /\ starts < MaxStarts /\ starts' = starts + 1
    /\ dotenv' \in {c \in Config : Starts(c, Absent)} \ {dotenv}
    /\ UNCHANGED <<environ, files, save, cfg, process, restarts, saves, wanted, raced, collided>>

-----------------------------------------------------------------------------
ConsoleInit ==
    /\ dotenv \in {c \in Config : Starts(c, Absent)} /\ environ = dotenv
    /\ webFile = Absent /\ webTmp = Absent /\ webFd = NoneOpen /\ save = [b \in Saver |-> NoSave]
    /\ cfg = dotenv /\ process = "up" /\ restarts = 0
    /\ saves = 0 /\ starts = 0 /\ wanted = dotenv /\ raced = FALSE /\ collided = FALSE

\* What a browser may send in the fields it gives; what the others hold is not read.
Inputs(given) ==
    [bind : IF "bind" \in given THEN {"loopback", "localhost", "outside"} ELSE {cfg.bind},
     key : IF "key" \in given THEN {"none", "long"} ELSE {cfg.key},
     beat : IF "beat" \in given THEN Spans ELSE {cfg.beat},
     timeout : IF "timeout" \in given THEN Spans ELSE {cfg.timeout}]

SaveStep(b) == WriteTmp(b) \/ Rename(b) \/ RenameFails(b) \/ RemoveTmp(b)

ConsoleNext ==
    \/ \E b \in Saver : SaveStep(b) \/ \E given \in SUBSET Field, noKey \in BOOLEAN :
          \E input \in Inputs(given) : OpenTmp(b, given, input, noKey)
    \/ Restart \/ Exit \/ StartAgain \/ EditDotEnv

-----------------------------------------------------------------------------
\* Types; a process that is up holds what validate lets pass: no ticker of
\* zero, no node that is dead before its next heartbeat, no open address
\* without a token.
ConsoleTypeOK ==
    /\ dotenv \in Config /\ environ \in Config \cup {Absent} /\ cfg \in Config
    /\ {webFile, webTmp} \subseteq File \cup {Absent, Empty, Broken}
    /\ process \in {"up", "down", "refused"} /\ restarts \in Nat
    /\ saves \in 0 .. MaxSaves /\ starts \in 0 .. MaxStarts
    /\ process = "up" => Valid(cfg) /\ Servable(cfg)

\* What the page accepted never keeps the process from starting, whatever .env
\* says by then: it is tried on the running configuration before it is written,
\* and a save that fails or never ends leaves the file alone.  A token given as
\* null is an exception: it is tried with the token in use and stored as none.
\* So are saves of one process that met in the temporary file.
SavedSettingsStart ==
    process = "refused" /\ webFile # Absent /\ ~collided => webFile.key = Null

\* Saves build up, also over restarts that failed to come about in time,
\* crashes, failed saves and edits of .env, as long as none is made while
\* another is written or waits for its restart.
SavesBuildUp ==
    webFile # Absent /\ ~raced => webFile = wanted
=============================================================================
