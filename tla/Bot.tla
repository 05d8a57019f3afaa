--------------------------------- MODULE Bot ---------------------------------
(***************************************************************************)
(* The Telegram bot (internal/app/bot.go) and what it asks of Telegram     *)
(* (internal/adapter/telegram/client.go): one loop that asks for updates   *)
(* from an offset on, which confirms everything below it, and handles them *)
(* one by one.  A bot may be cancelled between any two calls and a new one *)
(* starts from offset 0; every call may fail, and a message may arrive     *)
(* although its call failed.                                               *)
(***************************************************************************)
EXTENDS Integers, FiniteSets

CONSTANTS
    Updates,     \* bound: updates 1 .. Updates arrive
    MaxFaults,   \* bound on failing calls
    MaxBots      \* bound on bots

BotAssumption == Updates \in Nat /\ MaxFaults \in Nat /\ MaxBots \in Nat \ {0}

VARIABLES
    arrived,     \* updates that exist
    kind,        \* update -> what it is: "none" has no message, "text" is
                 \* answered at once, "image" is searched for
    confirmed,   \* Telegram forgets updates up to this one
    offset,      \* Bot.offset
    batch,       \* updates of the answer being handled, the next one is the least
    handling,       \* where handle is with that one
    searching,   \* the "Searching..." message has an id
    answers,     \* update -> final answers the user has seen
    muted,       \* updates whose last message may have been lost
    cancelled,   \* the context of the bot is over
    bots,        \* bots started
    faults

bot == <<arrived, kind, confirmed, offset, batch, handling, searching, answers, muted, cancelled, bots, faults>>

Update == 1 .. Updates
Lowest(s) == CHOOSE u \in s : \A v \in s : u <= v
Current == Lowest(batch)

-----------------------------------------------------------------------------
(* Telegram. *)

Arrive ==
    /\ arrived < Updates
    /\ arrived' = arrived + 1
    /\ UNCHANGED <<kind, confirmed, offset, batch, handling, searching, answers, muted, cancelled, bots, faults>>

\* An offset confirms what is below it; offset 0 is not sent.
Confirmed == IF offset - 1 > confirmed THEN offset - 1 ELSE confirmed

-----------------------------------------------------------------------------
(* The loop. *)

MayAsk_Always == TRUE
MayAsk == ~cancelled

GetUpdates ==
    /\ handling = "poll" /\ MayAsk
    /\ confirmed' = Confirmed
    /\ \E n \in confirmed' .. arrived : batch' = confirmed' + 1 .. n
    /\ handling' = IF batch' = {} THEN "poll" ELSE "next"
    /\ UNCHANGED <<arrived, kind, offset, searching, answers, muted, cancelled, bots, faults>>

\* The answer is lost, or the call: the loop rests and asks the same again.
GetUpdatesFails ==
    /\ handling = "poll" /\ MayAsk /\ faults < MaxFaults
    /\ faults' = faults + 1
    /\ confirmed' \in {confirmed, Confirmed}
    /\ UNCHANGED <<arrived, kind, offset, batch, handling, searching, answers, muted, cancelled, bots>>

Raised_Same == Current
Raised == Current + 1

\* The offset goes up before the update is handled, whatever comes of it.
TakeUpdate ==
    /\ handling = "next"
    /\ offset' = IF Current >= offset THEN Raised ELSE offset
    /\ handling' = CASE kind[Current] = "none" -> "handled"
                  [] kind[Current] = "text" -> "answer"
                  [] OTHER -> "download"
    /\ UNCHANGED <<arrived, kind, confirmed, batch, searching, answers, muted, cancelled, bots, faults>>

NextUpdate ==
    /\ handling = "handled"
    /\ batch' = batch \ {Current}
    /\ handling' = IF batch' = {} THEN "poll" ELSE "next"
    /\ searching' = FALSE
    /\ UNCHANGED <<arrived, kind, confirmed, offset, answers, muted, cancelled, bots, faults>>

-----------------------------------------------------------------------------
(* handle *)

\* A final message goes out, or is lost on its way out, or arrives while its
\* call fails: muted if nothing else is tried.  Nothing goes out once the
\* context is over.
Sent(arrives) == IF arrives THEN answers' = [answers EXCEPT ![Current] = @ + 1] ELSE UNCHANGED answers

Say(ok, failed) ==
    \/ cancelled /\ handling' = failed /\ UNCHANGED <<answers, faults, muted>>
    \/ ~cancelled /\ handling' = ok /\ Sent(TRUE) /\ UNCHANGED <<faults, muted>>
    \/ /\ ~cancelled /\ faults < MaxFaults
       /\ faults' = faults + 1
       /\ handling' = failed
       /\ muted' = IF failed = "handled" THEN muted \cup {Current} ELSE muted
       /\ Sent(FALSE) \/ Sent(TRUE)

\* DownloadFile: getFile, then the file; too big a file or a failure is told.
Download ==
    /\ handling = "download"
    /\ handling' \in (IF cancelled THEN {"handled"} ELSE {"searching", "answer"})
    /\ UNCHANGED <<arrived, kind, confirmed, offset, batch, searching, answers, muted, cancelled, bots, faults>>

SaySearching ==
    /\ handling = "searching" /\ handling' = "search"
    /\ \/ searching' = ~cancelled /\ UNCHANGED faults
       \/ ~cancelled /\ faults < MaxFaults /\ faults' = faults + 1 /\ searching' = FALSE
    /\ UNCHANGED <<arrived, kind, confirmed, offset, batch, answers, muted, cancelled, bots>>

\* ByImage: a result or an error is told by the same message.
Search ==
    /\ handling = "search"
    /\ handling' \in (IF cancelled THEN {"handled", "replace"} ELSE {"replace"})
    /\ UNCHANGED <<arrived, kind, confirmed, offset, batch, searching, answers, muted, cancelled, bots, faults>>

Fallback_None == "handled"

\* What is left when the message cannot be edited.
Fallback == "answer"

\* replace: edit the message, or send a new one.
Replace ==
    /\ handling = "replace"
    /\ IF searching THEN Say("handled", Fallback)
       ELSE handling' = Fallback /\ UNCHANGED <<answers, faults, muted>>
    /\ UNCHANGED <<arrived, kind, confirmed, offset, batch, searching, cancelled, bots>>

Answer ==
    /\ handling = "answer"
    /\ Say("handled", "handled")
    /\ UNCHANGED <<arrived, kind, confirmed, offset, batch, searching, cancelled, bots>>

-----------------------------------------------------------------------------
(* Ends and starts: a shutdown, another token, a crash. *)

Cancel ==
    /\ ~cancelled /\ handling # "off" /\ bots < MaxBots
    /\ cancelled' = TRUE
    /\ UNCHANGED <<arrived, kind, confirmed, offset, batch, handling, searching, answers, muted, bots, faults>>

Off == handling' = "off" /\ batch' = {} /\ searching' = FALSE

RunReturns ==
    /\ handling = "poll" /\ cancelled
    /\ Off
    /\ UNCHANGED <<arrived, kind, confirmed, offset, answers, muted, cancelled, bots, faults>>

Crash ==
    /\ handling # "off" /\ bots < MaxBots
    /\ Off
    /\ UNCHANGED <<arrived, kind, confirmed, offset, answers, muted, cancelled, bots, faults>>

NewBot ==
    /\ handling = "off" /\ bots < MaxBots
    /\ handling' = "poll" /\ offset' = 0 /\ cancelled' = FALSE /\ bots' = bots + 1
    /\ UNCHANGED <<arrived, kind, confirmed, batch, searching, answers, muted, faults>>

-----------------------------------------------------------------------------
BotInit ==
    /\ arrived = 0 /\ confirmed = 0 /\ offset = 0 /\ batch = {} /\ faults = 0
    /\ kind \in [Update -> {"none", "text", "image"}]
    /\ handling = "poll" /\ searching = FALSE /\ cancelled = FALSE /\ bots = 1
    /\ answers = [u \in Update |-> 0] /\ muted = {}

Handle == Download \/ SaySearching \/ Search \/ Replace \/ Answer

Run == GetUpdates \/ TakeUpdate \/ NextUpdate \/ Handle \/ RunReturns

BotNext == Arrive \/ Run \/ GetUpdatesFails \/ Cancel \/ Crash \/ NewBot

-----------------------------------------------------------------------------
BotTypeOK ==
    /\ arrived \in 0 .. Updates /\ confirmed \in 0 .. arrived
    /\ offset \in 0 .. Updates + 1 /\ batch \subseteq Update
    /\ handling \in {"off", "poll", "next", "download", "searching", "search", "replace", "answer", "handled"}
    /\ answers \in [Update -> Nat] /\ muted \subseteq Update
    /\ {searching, cancelled} \subseteq BOOLEAN /\ bots \in 1 .. MaxBots /\ faults \in 0 .. MaxFaults

\* Telegram forgets an update only after its user has an answer, or a
\* message to the user was lost: a bot that ends in the middle of an answer
\* confirms nothing.
ConfirmedIsAnswered ==
    \A u \in 1 .. confirmed : kind[u] # "none" => answers[u] > 0 \/ u \in muted

\* Two answers only for a lost reply or from two bots.
RepeatsAreAccountedFor ==
    \A u \in Update : answers[u] <= bots + faults

\* Everyone who writes is answered in the end, or the reply was lost.
EveryoneIsAnswered ==
    \A u \in Update :
        kind[u] # "none" => (arrived >= u ~> answers[u] > 0 \/ u \in muted)
=============================================================================
