------------------------------- MODULE BotHost -------------------------------
(***************************************************************************)
(* The bot of the control node and its token (cmd/saucedust/bot_host.go):  *)
(* requests of the console set the token while one goroutine runs a bot    *)
(* with it, and the token is kept in a file the next process starts with.  *)
(* The file is written by way of a temporary one all calls share, with no  *)
(* lock held.                                                              *)
(***************************************************************************)
EXTENDS Integers, FiniteSets

CONSTANTS
    Setter,      \* requests that may call Set at the same time
    Token,       \* tokens BotFather gave
    MaxSets,     \* bound on calls of Set
    MaxTroubles  \* bound on failing steps of a write, bots that cannot be made, restarts

Off == "off"     \* the empty token: no bot
Absent == "absent" \* there is no such file
Empty == "empty" \* a file just opened
Broken == "broken" \* one that holds parts of two writings, or of one

BotHostAssumption ==
    {Off, Absent, Empty, Broken} \cap Token = {} /\ MaxSets \in Nat /\ MaxTroubles \in Nat

VARIABLES
    token,       \* botHost.token
    telegramFile,\* what telegram.json holds
    telegramTmp, \* what telegram.json.tmp holds
    fd,          \* setter -> the name the file it has open goes by, "none" without one
    wake,        \* botHost.wake holds a signal
    child,       \* botHost.child: the bot its cancel function belongs to, 0 for nil
    ended,       \* bots whose context is cancelled
    running,     \* bots whose Run has not returned
    host,        \* where botHost.Run is; "refused" when the process did not start
    seen,        \* the token it read
    made,        \* bots made
    request,     \* setter -> where Set is, what it sets, whom it cancels
    sets, troubles,
    crossed      \* ghost: a call of Set opened the file before another was done with it

files == <<telegramFile, telegramTmp, fd>>
loop == <<child, ended, running, host, seen, made>>
botHost == <<token, files, wake, loop, request, sets, troubles, crossed>>

Idle == [at |-> "idle", token |-> Off, cancel |-> 0]
NoneOpen == [s \in Setter |-> "none"]
Between == {s \in Setter : request[s].at = "keep"}

\* Calls that have opened the file and not yet taken the token into memory.
Writing == {s \in Setter : request[s].at \in {"write", "rename", "remove", "keep"}}

-----------------------------------------------------------------------------
(* Set *)

Trouble == troubles < MaxTroubles /\ troubles' = troubles + 1

\* The form of the token and getMe have been tried: a refusal changes nothing,
\* and neither does a file that cannot be opened.  The file first: what cannot
\* be kept is not used.  O_CREATE|O_TRUNC, also of a file others have open.
OpenTmp(s, t) ==
    /\ host # "refused" /\ request[s].at = "idle" /\ sets < MaxSets
    /\ sets' = sets + 1
    /\ telegramTmp' = Empty /\ fd' = [fd EXCEPT ![s] = "tmp"]
    /\ request' = [request EXCEPT ![s] = [at |-> "write", token |-> t, cancel |-> 0]]
    /\ crossed' = (crossed \/ Writing # {})
    /\ UNCHANGED <<token, telegramFile, wake, loop, troubles>>

\* What a text can come to be when a call writes t from the start of the file:
\* over what another wrote there, the rest of a longer text stays; of a write that
\* fails any part may be there, or all of it.
Written(text, t, whole) ==
    IF ~ whole THEN {text, t, Broken} ELSE IF text = Empty THEN {t} ELSE {t, Broken}

\* The file may have another name by now than when it was opened, or none.
Write(s, whole) ==
    /\ telegramTmp' \in IF fd[s] = "tmp" THEN Written(telegramTmp, request[s].token, whole) ELSE {telegramTmp}
    /\ telegramFile' \in IF fd[s] = "file" THEN Written(telegramFile, request[s].token, whole) ELSE {telegramFile}
    /\ fd' = [fd EXCEPT ![s] = "none"]

AfterFailedWrite_Renames(s) == [request EXCEPT ![s].at = "rename"]
AfterFailedWrite(s) == [request EXCEPT ![s] = Idle]

WriteTmp(s) ==
    /\ request[s].at = "write"
    /\ \/ /\ Write(s, TRUE)
          /\ request' = [request EXCEPT ![s].at = "rename"]
          /\ UNCHANGED troubles
       \/ /\ Trouble /\ Write(s, FALSE)
          /\ request' = AfterFailedWrite(s)
    /\ UNCHANGED <<token, wake, loop, sets, crossed>>

\* Whatever has the name of the temporary file now becomes telegram.json, also
\* when another is still writing it.
Rename(s) ==
    /\ request[s].at = "rename" /\ telegramTmp # Absent
    /\ telegramFile' = telegramTmp /\ telegramTmp' = Absent
    /\ fd' = [r \in Setter |-> IF fd[r] = "tmp" THEN "file" ELSE "none"]
    /\ request' = [request EXCEPT ![s].at = "keep"]
    /\ UNCHANGED <<token, wake, loop, sets, troubles, crossed>>

AfterFailedRename_Kept(s) == [request EXCEPT ![s].at = "keep"]
AfterFailedRename(s) == [request EXCEPT ![s].at = "remove"]

\* The rename of another may have taken the name away.
RenameFails(s) ==
    /\ request[s].at = "rename"
    /\ IF telegramTmp = Absent THEN UNCHANGED troubles ELSE Trouble
    /\ request' = AfterFailedRename(s)
    /\ UNCHANGED <<token, files, wake, loop, sets, crossed>>

\* The error of the removal is dropped.
RemoveTmp(s) ==
    /\ request[s].at = "remove"
    /\ \/ /\ telegramTmp' = Absent
          /\ fd' = [r \in Setter |-> IF fd[r] = "tmp" THEN "none" ELSE fd[r]]
          /\ UNCHANGED troubles
       \/ Trouble /\ UNCHANGED <<telegramTmp, fd>>
    /\ request' = [request EXCEPT ![s] = Idle]
    /\ UNCHANGED <<token, telegramFile, wake, loop, sets, crossed>>

\* Under the lock: the same token ends the call.
Keep(s) ==
    /\ request[s].at = "keep"
    /\ token' = request[s].token
    /\ request' = [request EXCEPT ![s] =
           IF token = @.token THEN Idle ELSE [@ EXCEPT !.at = "cancel", !.cancel = child]]
    /\ UNCHANGED <<files, wake, loop, sets, troubles, crossed>>

CancelChild(s) ==
    /\ request[s].at = "cancel"
    /\ ended' = ended \cup ({request[s].cancel} \ {0})
    /\ request' = [request EXCEPT ![s].at = "poke"]
    /\ UNCHANGED <<token, files, wake, child, running, host, seen, made, sets, troubles, crossed>>

Woken_IfRunning == wake \/ host = "run"
Woken == TRUE

\* A send on a channel of one place, given up when it is full.
Poke(s) ==
    /\ request[s].at = "poke"
    /\ wake' = Woken
    /\ request' = [request EXCEPT ![s] = Idle]
    /\ UNCHANGED <<token, files, loop, sets, troubles, crossed>>

-----------------------------------------------------------------------------
(* Run *)

Look ==
    /\ host = "look"
    /\ seen' = token
    /\ host' = IF token = Off THEN "rest" ELSE "make"
    /\ UNCHANGED <<token, files, wake, child, ended, running, made, request, sets, troubles, crossed>>

\* No token, or a bot that could not be made: wait for a call of Set, and in
\* the second case five seconds at the most.
Rest ==
    /\ \/ host \in {"rest", "again"} /\ wake /\ wake' = FALSE
       \/ host = "again" /\ UNCHANGED wake
    /\ host' = "look"
    /\ UNCHANGED <<token, files, child, ended, running, seen, made, request, sets, troubles, crossed>>

MakeBot ==
    /\ host = "make"
    /\ \/ host' = "start" /\ UNCHANGED troubles
       \/ Trouble /\ host' = "again"
    /\ UNCHANGED <<token, files, wake, child, ended, running, seen, made, request, sets, crossed>>

\* The token may have changed meanwhile; the bot in hand is then not run.
StartBot ==
    /\ host = "start"
    /\ made' = made + 1 /\ child' = made'
    /\ IF token # seen THEN ended' = ended \cup {made'} /\ host' = "look" /\ UNCHANGED running
       ELSE running' = running \cup {made'} /\ host' = "run" /\ UNCHANGED ended
    /\ UNCHANGED <<token, files, wake, seen, request, sets, troubles, crossed>>

BotEnds(b) ==
    /\ b \in running /\ b \in ended
    /\ running' = running \ {b}
    /\ UNCHANGED <<token, files, wake, child, ended, host, seen, made, request, sets, troubles, crossed>>

AfterWake_NoWait == "look"

\* The old bot is waited for, so that two never ask for updates at once.
AfterWake == "wait"

StopBot ==
    /\ host = "run"
    /\ \/ wake /\ wake' = FALSE /\ host' = AfterWake
       \/ made \notin running /\ host' = "look" /\ UNCHANGED wake
    /\ ended' = ended \cup {made}
    /\ UNCHANGED <<token, files, child, running, seen, made, request, sets, troubles, crossed>>

Stopped ==
    /\ host = "wait" /\ made \notin running
    /\ host' = "look"
    /\ UNCHANGED <<token, files, wake, child, ended, running, seen, made, request, sets, troubles, crossed>>

-----------------------------------------------------------------------------
(* loadTelegramFile: the file goes before the environment, and the start    *)
(* fails with one that cannot be parsed.                                     *)
Restart ==
    /\ host # "refused" /\ Trouble
    /\ CASE telegramFile = Absent -> token' \in Token \cup {Off} /\ host' = "look"
         [] telegramFile \in {Empty, Broken} -> host' = "refused" /\ UNCHANGED token
         [] OTHER -> token' = telegramFile /\ host' = "look"
    /\ wake' = FALSE /\ child' = 0 /\ ended' = {} /\ running' = {} /\ made' = 0
    /\ request' = [s \in Setter |-> Idle] /\ fd' = NoneOpen
    /\ crossed' = (crossed /\ host' = "refused")
    /\ UNCHANGED <<telegramFile, telegramTmp, seen, sets>>

BotHostInit ==
    /\ token \in Token \cup {Off} /\ telegramFile \in {Absent, token} /\ telegramTmp = Absent
    /\ wake = FALSE /\ child = 0 /\ ended = {} /\ running = {} /\ host = "look" /\ seen = Off /\ made = 0
    /\ request = [s \in Setter |-> Idle] /\ fd = NoneOpen
    /\ sets = 0 /\ troubles = 0 /\ crossed = FALSE

SetStep(s) ==
    WriteTmp(s) \/ Rename(s) \/ RenameFails(s) \/ RemoveTmp(s) \/ Keep(s) \/ CancelChild(s) \/ Poke(s)
RunStep == Look \/ Rest \/ MakeBot \/ StartBot \/ StopBot \/ Stopped \/ \E b \in 1 .. made : BotEnds(b)

BotHostNext ==
    \/ \E s \in Setter : SetStep(s) \/ \E t \in Token \cup {Off} : OpenTmp(s, t)
    \/ RunStep \/ Restart

-----------------------------------------------------------------------------
\* The file is what the process runs with, so that a restart changes nothing
\* and does not fail: a step of a call that failed leaves both alone, and so
\* does the temporary file of one that never ended.  Only a call that opened the
\* file before another had kept its token, or given up, may leave them apart.
FileIsToken ==
    \/ crossed
    \/ /\ host # "refused"
       /\ telegramFile = Absent \/ Between # {} \/ telegramFile = token

\* Telegram refuses two bots that ask with one token, and two bots answer one
\* user twice: a new bot waits for the end of the old one.
OneBot == Cardinality(running) <= 1

\* Whatever calls of Set raced each other and the loop, the token that is set
\* in the end takes effect: its bot runs uncancelled, or no bot runs.  A process
\* that did not start runs none.
TokenInEffect ==
    IF host = "refused" THEN running = {}
    ELSE IF token = Off THEN host = "rest" /\ running = {}
    ELSE host = "run" /\ seen = token /\ running = {made} \ ended
=============================================================================
