----------------------------- MODULE MCServices -----------------------------
(* What the central node does beside the crawl, for TLC: the Telegram bot    *)
(* (Bot) and its host (BotHost), re-embedding (Reembed), the settings of the *)
(* console (Console), its jobs (WebJobs) and its account (Account), the      *)
(* update of the program by itself (Update), and a submission that comes in  *)
(* by HTTP (HttpIngest).  The parts share no variable, so a behaviour moves  *)
(* one of them, chosen at its start; each brings its own fairness.           *)
EXTENDS Integers, FiniteSets, TLC

CONSTANTS
    t1, t2, s1, s2, n1, a1, a2,
    Updates, MaxFaults, MaxBots,
    Setter, Token, MaxSets, MaxTroubles,
    Images, PageSize, Mishaps,
    Saver, Spans, Jobs, MaxSaves, MaxStarts,
    Node, Calls, Retries, Nobody,
    Applier, Releases, Pieces, MaxApplies,
    Browser, MaxSetups, MaxMishaps

VARIABLES
    part,   \* the part that moves
    arrived, kind, confirmed, offset, batch, handling, searching, answers, muted,
    cancelled, bots, faults,
    token, telegramFile, telegramTmp, fd, wake, child, ended, running, host, seen, made, request,
    sets, troubles, crossed,
    thumbed, onDisk, vectored, searchable, flagged, sending, step, mark,
    page, todo, items, skipped, owed, mishaps,
    dotenv, environ, webFile, webTmp, webFd, save, cfg, process, restarts, saves,
    starts, wanted, raced, collided,
    job, atWork,
    posting, call, try, attempt, keeper, entry, entryMark, wrote, verdict, overtaken,
    version, dest, new, disk, req, promises, applies, breaks, excuse,
    account, envAdmin, adminFile, adminTmp, written, setup, served, confirmedAs, owners,
    setups, slips, together

Chat == INSTANCE Bot
Landlord == INSTANCE BotHost
Again == INSTANCE Reembed
Settings == INSTANCE Console
Work == INSTANCE WebJobs
Delivery == INSTANCE HttpIngest
    WITH request <- attempt, kept <- keeper, mark <- entryMark, crossed <- overtaken
Self == INSTANCE Update WITH process <- version, restarts <- promises, troubles <- breaks
Admin == INSTANCE Account WITH confirmed <- confirmedAs

ASSUME PartsAssumption ==
    /\ Chat!BotAssumption /\ Landlord!BotHostAssumption /\ Again!ReembedAssumption
    /\ Settings!ConsoleAssumption /\ Work!JobsAssumption /\ Delivery!HttpIngestAssumption
    /\ Self!UpdateAssumption /\ Admin!AccountAssumption

chat == <<arrived, kind, confirmed, offset, batch, handling, searching, answers, muted,
                cancelled, bots, faults>>
landlord == <<token, telegramFile, telegramTmp, fd, wake, child, ended, running, host,
                    seen, made, request, sets, troubles, crossed>>
reembed == <<thumbed, onDisk, vectored, searchable, flagged, sending, step, mark,
                   page, todo, items, skipped, owed, mishaps>>
settings == <<dotenv, environ, webFile, webTmp, webFd, save, cfg, process, restarts,
                    saves, starts, wanted, raced, collided>>
jobs == <<job, atWork>>
http == <<posting, call, try, attempt, keeper, entry, entryMark, wrote, verdict, overtaken>>
self == <<version, dest, new, disk, req, promises, applies, breaks, excuse>>
admin == <<account, envAdmin, adminFile, adminTmp, written, setup, served, confirmedAs,
                 owners, setups, slips, together>>
all == <<part, chat, landlord, reembed, settings, jobs, http, self, admin>>

\* A step of one part.
InChat(A) ==
    part = "chat" /\ A /\ UNCHANGED <<part, landlord, reembed, settings, jobs, http, self, admin>>
InLandlord(A) ==
    part = "landlord" /\ A /\ UNCHANGED <<part, chat, reembed, settings, jobs, http, self, admin>>
InReembed(A) ==
    part = "reembed" /\ A /\ UNCHANGED <<part, chat, landlord, settings, jobs, http, self, admin>>
InSettings(A) ==
    part = "settings" /\ A /\ UNCHANGED <<part, chat, landlord, reembed, jobs, http, self, admin>>
InJobs(A) ==
    part = "jobs" /\ A /\ UNCHANGED <<part, chat, landlord, reembed, settings, http, self, admin>>
InHttp(A) ==
    part = "http" /\ A /\ UNCHANGED <<part, chat, landlord, reembed, settings, jobs, self, admin>>
InSelf(A) ==
    part = "self" /\ A /\ UNCHANGED <<part, chat, landlord, reembed, settings, jobs, http, admin>>
InAdmin(A) ==
    part = "admin" /\ A /\ UNCHANGED <<part, chat, landlord, reembed, settings, jobs, http, self>>

\* The parts that do not move start in one of their initial states.
SomeSettings == CHOOSE c \in Settings!Config : Settings!Starts(c, Settings!Absent)

ServicesInit ==
    /\ part \in {"chat", "landlord", "reembed", "settings", "jobs", "http", "self", "admin"}
    /\ part = "chat" \/ kind = [u \in 1 .. Updates |-> "none"]
    /\ \/ part = "landlord"
       \/ token = Landlord!Off /\ telegramFile = Landlord!Absent
    /\ part = "reembed" \/ thumbed = {}
    /\ part = "settings" \/ dotenv = SomeSettings
    /\ part = "admin" \/ envAdmin = Admin!OfEnv
    /\ Chat!BotInit /\ Landlord!BotHostInit /\ Again!ReembedInit /\ Settings!ConsoleInit
    /\ Work!JobsInit /\ Delivery!HttpInit /\ Self!UpdateInit /\ Admin!AccountInit

ServicesNext ==
    \/ InChat(Chat!BotNext) \/ InLandlord(Landlord!BotHostNext) \/ InReembed(Again!ReembedNext)
    \/ InSettings(Settings!ConsoleNext) \/ InJobs(Work!JobsNext) \/ InHttp(Delivery!HttpNext)
    \/ InSelf(Self!UpdateNext) \/ InAdmin(Admin!AccountNext)

ServicesSpec ==
    /\ ServicesInit /\ [][ServicesNext]_all
    \* the bot: calls have timeouts, its host starts a bot again
    /\ WF_chat(InChat(Chat!Run)) /\ WF_chat(InChat(Chat!NewBot))
    \* the host: goroutines are scheduled
    /\ WF_landlord(InLandlord(Landlord!RunStep))
    /\ \A s \in Setter : WF_landlord(InLandlord(Landlord!SetStep(s)))
    \* re-embedding: a run goes on; its operator starts it again and rebuilds
    /\ WF_reembed(InReembed(Again!RunStep))
    /\ SF_reembed(InReembed(Again!Start /\ owed' # {})) /\ SF_reembed(InReembed(Again!Rebuild))
    \* a submission: an answer is waited for 120 seconds
    /\ \A n \in Node : WF_http(InHttp(Delivery!SubmitStep(n)))
-----------------------------------------------------------------------------
\* Telegram forgets an update only after its user has an answer, or a message
\* to the user was lost; two answers come only of a lost reply or from two bots.
UpdatesAreAnswered ==
    part = "chat" =>
        Chat!BotTypeOK /\ Chat!ConfirmedIsAnswered /\ Chat!RepeatsAreAccountedFor

\* Three of the files the console writes hold what their writer says, also after
\* steps that failed and restarts, unless two requests met in the temporary
\* file: telegram.json the token in use, the executable a whole release,
\* web-admin.json the account somebody was told to have; and two browsers never
\* both set up the account.
FilesHoldUnlessCrossed ==
    /\ part = "landlord" => Landlord!FileIsToken
    /\ part = "self" => Self!ExecutableIsWhole
    /\ part = "admin" => Admin!OneOwner /\ Admin!ConfirmedIsKept

\* A run of re-embedding that ended has left out nothing but what it counts as
\* missing or failed, and an interrupted one marks nothing as indexed that
\* cannot be found.
RunsLeaveNothingOut ==
    part = "reembed" =>
        Again!ReembedTypeOK /\ Again!RunCoversAll /\ Again!FlaggedIsSearchable

\* What the settings page accepted never keeps the process from starting, and
\* saves build up over restarts, crashes, failed saves and edits of .env, unless
\* two saves met; a rebuild and a re-embedding never run at once, and none that
\* ended keeps the next one out.
ConsoleHolds ==
    /\ part = "settings" =>
          Settings!ConsoleTypeOK /\ Settings!SavedSettingsStart /\ Settings!SavesBuildUp
    /\ part = "jobs" => Work!OneJob

\* Everyone who writes to the bot is answered in the end, or the reply was lost;
\* and a node's Submit returns: attempts are counted and answers have a timeout.
EveryoneIsAnswered == Chat!EveryoneIsAnswered /\ Delivery!SubmitReturns

\* The token that is set in the end takes effect, and on the way a new bot
\* waits for the end of the old one.
TokenTakesEffect ==
    []Landlord!OneBot /\ <>[](part = "landlord" => Landlord!TokenInEffect)

\* With runs interrupted and started again, submissions beside them and a
\* rebuild once in a while, every thumbnail's image is searchable in the end.
ThumbsBecomeSearchable == Again!ThumbsBecomeSearchable

\* A restart an update has promised brings a newer version, and none goes back
\* to an older one.
UpdatesGoForward == Self!NeverOlder /\ Self!PromisesAreKept
=============================================================================
