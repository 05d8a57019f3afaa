--------------------------- MODULE ServicesProofs ---------------------------
(***************************************************************************)
(* What the central node does beside the crawl, as MCServices composes it: *)
(* the bot and its host, re-embedding, the settings and jobs of the        *)
(* console, its account, and the update of the program by itself, for any  *)
(* values of their constants.  The submission by HTTP is in ImagesProofs.  *)
(***************************************************************************)
EXTENDS MCServices, FiniteSetTheorems, WellFoundedInduction, TLAPS

-----------------------------------------------------------------------------
(* The bot.  Updates of a batch lie without a gap above the offset, and every *)
(* bot that still runs has answered what it has passed.                       *)

\* Where the loop has updates in hand.
Working == handling \notin {"off", "poll"}

\* What the bot that runs has dealt with.
Passed(u) ==
    IF handling = "poll" THEN u < offset
    ELSE u < Chat!Current \/ (u = Chat!Current /\ handling = "handled")

DoneWith(u) == kind[u] # "none" => answers[u] > 0 \/ u \in muted

BatchInOrder ==
    /\ offset <= arrived + 1 /\ batch \subseteq 1 .. arrived
    /\ Working <=> batch # {}
    /\ \A u, w \in batch : \A v \in u .. w : v \in batch
    /\ handling = "next" => offset <= Chat!Current
    /\ Working /\ handling # "next" => offset = Chat!Current + 1

AnswersCounted ==
    \A u \in Chat!Update :
        /\ answers[u] <= bots + faults
        /\ handling # "off" =>
              /\ ~ Passed(u) => answers[u] < bots + faults
              /\ ~ cancelled /\ Passed(u) => DoneWith(u)

ChatInv == Chat!BotTypeOK /\ Chat!ConfirmedIsAnswered /\ BatchInOrder /\ AnswersCounted

-----------------------------------------------------------------------------
(* Its host. *)

Request == [at : {"idle", "write", "rename", "remove", "keep", "cancel", "poke"},
            token : Token \cup {Landlord!Off}, cancel : Nat]

Contents == Token \cup {Landlord!Off, Landlord!Absent, Landlord!Empty, Landlord!Broken}

SetterTypes ==
    /\ request \in [Setter -> Request] /\ fd \in [Setter -> {"tmp", "file", "none"}]
    /\ {telegramFile, telegramTmp} \subseteq Contents
    /\ crossed \in BOOLEAN /\ token \in Token \cup {Landlord!Off}

\* A call alone with the file: the temporary one holds what it has written, and
\* between file and memory the file holds its token.
OneSetter ==
    \A s \in Landlord!Writing :
        /\ Landlord!Writing = {s}
        /\ request[s].at = "write" => fd[s] = "tmp" /\ telegramTmp = Landlord!Empty
        /\ request[s].at = "rename" => telegramTmp = request[s].token
        /\ request[s].at = "keep" => telegramFile = request[s].token

SettersInOrder ==
    /\ SetterTypes
    /\ host = "refused" => crossed
    /\ crossed \/ (OneSetter /\ Landlord!FileIsToken)

HostInOrder ==
    /\ made \in Nat /\ child \in Nat
    /\ host \in {"look", "rest", "again", "make", "start", "run", "wait", "refused"}
    /\ running \subseteq {made} /\ (host \notin {"run", "wait"} => running = {})

LandlordInv == SettersInOrder /\ HostInOrder

-----------------------------------------------------------------------------
(* Re-embedding. *)

\* The images of the page a run has read and not yet dealt with.
InHand ==
    CASE step = "missing" -> page
      [] step = "embed" -> todo \cup items
      [] step = "save" -> items
      [] OTHER -> {}

ReembedInv ==
    /\ Again!ReembedTypeOK /\ Again!FlaggedIsSearchable /\ Again!RunCoversAll
    /\ thumbed \subseteq Again!Image /\ sending \subseteq vectored /\ owed \subseteq thumbed
    /\ page \subseteq thumbed /\ items \subseteq thumbed
    /\ step \in {"page", "missing", "save", "upsert", "flag"} => todo = {}
    /\ step \in {"upsert", "flag"} => items \subseteq vectored
    /\ step = "flag" => items \subseteq searchable
    /\ step \notin Again!Resting =>
          \A i \in owed : i <= mark => i \in vectored \cup skipped \cup InHand

-----------------------------------------------------------------------------
(* Settings and jobs. *)

Texts == {Settings!Absent, Settings!Empty, Settings!Broken}

Save == [at : {"idle", "write", "rename", "remove"},
         file : Settings!File \cup {Settings!Absent}, want : Settings!Config \cup {Settings!Absent}]

\* Any process starts with this file, unless it leaves out the token.
Startable(file) ==
    /\ file \in Settings!File
    /\ file.key # Settings!Null => \A env \in Settings!Config : Settings!Accepts(file, env)

SettingsTypes ==
    /\ dotenv \in Settings!Config /\ Settings!Starts(dotenv, Settings!Absent)
    /\ environ = Settings!Absent => process = "down"
    /\ environ # Settings!Absent =>
          environ \in Settings!Config /\ Settings!Starts(environ, Settings!Absent)
    /\ cfg \in Settings!Config /\ wanted \in Settings!Config
    /\ process \in {"up", "down", "refused"} /\ raced \in BOOLEAN /\ collided \in BOOLEAN
    /\ saves \in 0 .. MaxSaves /\ restarts \in Nat /\ starts \in 0 .. MaxStarts
    /\ process = "up" => Settings!Valid(cfg) /\ Settings!Servable(cfg)

\* Whatever the files hold was accepted by the page, or cannot be read.
FilesStartable ==
    /\ webFile \in Texts \/ Startable(webFile)
    /\ webTmp \in Texts \/ Startable(webTmp)
    /\ save \in [Saver -> Save] /\ webFd \in [Saver -> {"tmp", "file", "none"}]
    /\ \A b \in Settings!Writing :
          process = "up" /\ Startable(save[b].file) /\ save[b].want \in Settings!Config

\* A save alone with the temporary file, which holds what it has written.
OneSave ==
    /\ webFile \notin {Settings!Empty, Settings!Broken}
    /\ process = "refused" => webFile # Settings!Absent /\ webFile.key = Settings!Null
    /\ \A b \in Settings!Writing :
          /\ Settings!Writing = {b}
          /\ save[b].at = "write" => webFd[b] = "tmp" /\ webTmp = Settings!Empty
          /\ save[b].at = "rename" => webTmp = save[b].file

\* What a save made while nothing waits for a restart writes is what it adds.
SavesAdd ==
    /\ ~ collided
    /\ webFile = Settings!Absent \/ webFile = wanted
    /\ \A b \in Settings!Writing :
          save[b].file.key = Settings!Null \/ Settings!Loaded(environ, webFile) # cfg
             \/ save[b].want = save[b].file

SettingsInv == SettingsTypes /\ FilesStartable /\ (collided \/ OneSave) /\ (raced \/ SavesAdd)

JobsInv == job \in Jobs \cup {"none"} /\ atWork = IF job = "none" THEN {} ELSE {job}

-----------------------------------------------------------------------------
(* The update of the program by itself. *)

Opening == {a \in Applier : req[a].at = "open"}

\* Inodes that are not free for a new file: each was taken by one request.
Used ==
    {i \in Self!Inode : \/ i = dest \/ i = new \/ disk[i] # Self!Blank
                        \/ \E a \in Applier : req[a].file = i}

Apply == [at : {"idle", "open", "copy", "verify", "swap"}, version : Releases \cup {0},
          file : Self!Inode \cup {0}, wrote : 0 .. Pieces]

SelfTypes ==
    /\ version \in Nat /\ dest \in Self!Inode /\ new \in Self!Inode \cup {0}
    /\ disk \in [Self!Inode -> [1 .. Pieces -> Nat]] /\ req \in [Applier -> Apply]
    /\ \A a \in Applier : /\ req[a].at = "open" => req[a].wrote = 0
                          /\ req[a].at = "copy" => req[a].wrote < Pieces
    /\ promises \in Nat /\ applies \in 0 .. MaxApplies

InodesSuffice ==
    IsFiniteSet(Opening) /\ Cardinality(Used) + Cardinality(Opening) <= 1 + applies

\* Nothing on its way to be the executable is older than what runs.
NothingOlder ==
    /\ \A a \in Applier : req[a].at # "idle" => req[a].version > version
    /\ \A n \in 1 .. Pieces : disk[dest][n] = 0 \/ disk[dest][n] >= version
    /\ Self!Downloading # {} /\ new # 0 =>
          \A n \in 1 .. Pieces : disk[new][n] = 0 \/ disk[new][n] > version

\* As long as downloads did not overlap.
OneDownload ==
    /\ version # Self!Broken /\ Self!Whole(disk[dest]) /\ new # dest
    /\ \A a, b \in Self!Downloading : a = b
    /\ \A a \in Self!Downloading :
          /\ new # 0 /\ (req[a].at = "copy" => req[a].file = new)
          /\ \A n \in 1 .. Pieces :
                disk[new][n] = IF req[a].at = "copy" /\ n > req[a].wrote THEN 0
                               ELSE req[a].version

PromiseIsOnDisk == excuse = {} /\ promises > 0 => disk[dest][1] > version

SelfInv ==
    /\ SelfTypes /\ InodesSuffice /\ NothingOlder
    /\ "overlap" \in excuse \/ OneDownload
    /\ PromiseIsOnDisk

-----------------------------------------------------------------------------
(* The account. *)

Asking == {b \in Browser : setup[b].at = "open"}

Filled ==
    {i \in Admin!Sheet : \/ i = adminFile \/ i = adminTmp \/ written[i] # Admin!NoAccount
                         \/ \E b \in Browser : setup[b].file = i}

\* A request to set up or change the account.
Ask == [at : {"away", "open", "write", "rename", "commit"}, for : {"setup", "password"},
        secret : Nat, file : Admin!Sheet \cup {0}]

AdminTypes ==
    /\ account \in Nat /\ envAdmin \in {Admin!NoAccount, Admin!OfEnv}
    /\ adminFile \in Admin!Sheet \cup {0} /\ adminTmp \in Admin!Sheet \cup {0}
    /\ written \in [Admin!Sheet -> Nat]
    /\ setup \in [Browser -> Ask]
    /\ served \in BOOLEAN /\ together \in BOOLEAN
    /\ confirmedAs \in Nat /\ owners \in Nat /\ setups \in 0 .. MaxSetups

SheetsSuffice ==
    IsFiniteSet(Asking) /\ Cardinality(Filled) + Cardinality(Asking) <= setups

\* Who has set up the account has left it in the file.
OwnerHasFile ==
    /\ Admin!OneOwner
    /\ owners > 0 \/ confirmedAs > 0 => adminFile # 0
    /\ served /\ account = Admin!NoAccount => envAdmin = Admin!NoAccount /\ owners = 0
    /\ ~ served => Admin!Underway = {}
    /\ \A b \in Admin!Underway :
          /\ setup[b].secret > Admin!OfEnv
          /\ setup[b].at = "commit" => adminFile # 0

\* As long as requests did not cross.
OneRequest ==
    /\ served /\ account >= confirmedAs /\ confirmedAs <= Admin!OfEnv + setups
    /\ adminFile # 0 =>
          /\ written[adminFile] # Admin!NoAccount /\ written[adminFile] >= confirmedAs
          /\ adminTmp # adminFile
    /\ \A b, c \in Admin!Underway : b = c
    /\ \A b \in Admin!Underway :
          /\ setup[b].secret = Admin!OfEnv + setups /\ confirmedAs < setup[b].secret
          /\ setup[b].at = "write" => setup[b].file = adminTmp /\ adminTmp # 0
          /\ setup[b].at = "rename" => adminTmp # 0 /\ written[adminTmp] = setup[b].secret
          /\ setup[b].at = "commit" => adminFile # 0 /\ written[adminFile] = setup[b].secret

AdminInv ==
    /\ AdminTypes /\ SheetsSuffice /\ OwnerHasFile
    /\ together \/ OneRequest

AllInv ==
    ChatInv /\ LandlordInv /\ ReembedInv /\ SettingsInv /\ JobsInv /\ SelfInv /\ AdminInv
-----------------------------------------------------------------------------
(* Numbers. *)

\* A set of numbers from below has a least,
LEMMA HasLeast ==
    ASSUME NEW S \in SUBSET Nat, S # {}
    PROVE  \E x \in S : \A y \in S : x <= y
<1>1. PICK x \in S : \A y \in S : ~(<<y, x>> \in OpToRel(<, Nat))
  BY NatLessThanWellFounded, WFMin, Zenon
<1>2. \A y \in S : ~(y < x)
  BY <1>1 DEF OpToRel
<1> QED
  BY <1>2

\* and one that is bounded has a greatest.
LEMMA HasGreatest ==
    ASSUME NEW N \in Nat, NEW S \in SUBSET (0 .. N), S # {}
    PROVE  \E x \in S : \A y \in S : y <= x
<1> DEFINE T == {N - x : x \in S}
<1>1. T \in SUBSET Nat /\ T # {}
  <2>1. \A x \in S : N - x \in Nat
    OBVIOUS
  <2> QED
    BY <2>1
<1>2. PICK t \in T : \A y \in T : t <= y
  BY <1>1, HasLeast
<1>3. PICK x \in S : t = N - x
  BY <1>2
<1>4. ASSUME NEW y \in S
      PROVE  y <= x
  <2>1. N - x <= N - y
    BY <1>2, <1>3
  <2> QED
    BY <2>1
<1> QED
  BY <1>4

\* An element more or less.
LEMMA OneMore ==
    ASSUME NEW S, NEW x, IsFiniteSet(S)
    PROVE  IsFiniteSet(S \cup {x}) /\ Cardinality(S \cup {x}) <= Cardinality(S) + 1
<1>1. IsFiniteSet(S \cup {x}) /\ Cardinality(S) \in Nat
  BY FS_AddElement, FS_CardinalityType
<1>2. Cardinality(S \cup {x}) = IF x \in S THEN Cardinality(S) ELSE Cardinality(S) + 1
  BY FS_AddElement
<1> QED
  BY <1>1, <1>2

LEMMA OneLess ==
    ASSUME NEW S, NEW x \in S, IsFiniteSet(S)
    PROVE  IsFiniteSet(S \ {x}) /\ Cardinality(S \ {x}) = Cardinality(S) - 1
<1>1. IsFiniteSet(S \ {x})
  BY FS_RemoveElement
<1>2. Cardinality(S \ {x}) = IF x \in S THEN Cardinality(S) - 1 ELSE Cardinality(S)
  BY FS_RemoveElement
<1> QED
  BY <1>1, <1>2

-----------------------------------------------------------------------------
(* The bot. *)

LEMMA ChatConstants == Updates \in Nat /\ MaxFaults \in Nat /\ MaxBots \in Nat \ {0}
  BY PartsAssumption DEF Chat!BotAssumption

LEMMA LowestIsLeast ==
    ASSUME NEW S \in SUBSET Nat, S # {}
    PROVE  Chat!Lowest(S) \in S /\ \A u \in S : Chat!Lowest(S) <= u
<1>1. \E x \in S : \A y \in S : x <= y
  BY HasLeast
<1> QED
  BY <1>1 DEF Chat!Lowest

LEMMA LowestOfRange ==
    ASSUME NEW d \in Nat, NEW n \in Nat, d + 1 .. n # {}
    PROVE  Chat!Lowest(d + 1 .. n) = d + 1
<1>1. d + 1 .. n \in SUBSET Nat
  OBVIOUS
<1>2. d + 1 \in d + 1 .. n
  OBVIOUS
<1>3. /\ Chat!Lowest(d + 1 .. n) \in d + 1 .. n
      /\ Chat!Lowest(d + 1 .. n) <= d + 1
  BY <1>1, <1>2, LowestIsLeast
<1> QED
  BY <1>3

LEMMA CurrentIsLeast ==
    ASSUME ChatInv, Working
    PROVE  Chat!Current \in batch /\ Chat!Current \in Chat!Update
           /\ \A u \in batch : Chat!Current <= u
<1>1. batch # {} /\ batch \in SUBSET Nat /\ batch \subseteq Chat!Update
  BY ChatConstants DEF ChatInv, BatchInOrder, Chat!BotTypeOK, Chat!Update
<1> QED
  BY <1>1, LowestIsLeast DEF Chat!Current

LEMMA ChatStarts == Chat!BotInit => ChatInv
<1> SUFFICES ASSUME Chat!BotInit PROVE ChatInv
  OBVIOUS
<1> USE ChatConstants DEF Chat!BotInit
<1>1. Chat!BotTypeOK
  <2>1. {searching, cancelled} \subseteq BOOLEAN
    OBVIOUS
  <2>2. answers \in [Chat!Update -> Nat] /\ muted \subseteq Chat!Update /\ batch \subseteq Chat!Update
    OBVIOUS
  <2>3. bots \in 1 .. MaxBots /\ faults \in 0 .. MaxFaults /\ offset \in 0 .. Updates + 1
    OBVIOUS
  <2>4. arrived \in 0 .. Updates /\ confirmed \in 0 .. arrived
    OBVIOUS
  <2> QED
    BY <2>1, <2>2, <2>3, <2>4 DEF Chat!BotTypeOK
<1>2. Chat!ConfirmedIsAnswered
  BY DEF Chat!ConfirmedIsAnswered
<1>3. BatchInOrder
  BY DEF BatchInOrder, Working
<1>4. AnswersCounted
  BY DEF AnswersCounted, Passed, Chat!Update
<1> QED
  BY <1>1, <1>2, <1>3, <1>4 DEF ChatInv

\* A new update touches nothing that is in hand.
LEMMA ArriveKeepsChat ==
    ASSUME ChatInv, Chat!Arrive
    PROVE  ChatInv'
<1> USE ChatConstants DEF Chat!Arrive
<1>1. Chat!Current' = Chat!Current /\ (Working' <=> Working)
  BY DEF Chat!Current, Working, Chat!Lowest
<1>2. Chat!BotTypeOK'
  BY DEF ChatInv, Chat!BotTypeOK, Chat!Update
<1>3. Chat!ConfirmedIsAnswered'
  BY DEF ChatInv, Chat!ConfirmedIsAnswered
<1>4. BatchInOrder'
  BY <1>1 DEF ChatInv, BatchInOrder, Chat!BotTypeOK, Chat!Update
<1>5. AnswersCounted'
  BY <1>1 DEF ChatInv, AnswersCounted, Passed, DoneWith
<1> QED
  BY <1>2, <1>3, <1>4, <1>5 DEF ChatInv

\* An offset above what is confirmed belongs to updates the bot is done with.
LEMMA ConfirmedIsRight ==
    ASSUME ChatInv, handling = "poll", ~ cancelled
    PROVE  /\ Chat!Confirmed \in confirmed .. arrived /\ offset <= Chat!Confirmed + 1
           /\ \A u \in 1 .. Chat!Confirmed : DoneWith(u)
<1>1. /\ arrived \in 0 .. Updates /\ confirmed \in 0 .. arrived
      /\ offset \in 0 .. Updates + 1 /\ offset <= arrived + 1
  BY DEF ChatInv, Chat!BotTypeOK, BatchInOrder
<1>2. Chat!Confirmed \in confirmed .. arrived /\ offset <= Chat!Confirmed + 1
  BY <1>1, ChatConstants DEF Chat!Confirmed
<1>3. ASSUME NEW u \in 1 .. Chat!Confirmed
      PROVE  DoneWith(u)
  <2>1. u \in Chat!Update
    BY <1>1, <1>2, ChatConstants DEF Chat!Update
  <2>2. CASE u <= confirmed
    BY <1>1, <2>2 DEF ChatInv, Chat!ConfirmedIsAnswered, DoneWith
  <2>3. CASE u > confirmed
    <3>1. u < offset
      BY <1>1, <2>3 DEF Chat!Confirmed
    <3> QED
      BY <2>1, <3>1 DEF ChatInv, AnswersCounted, Passed
  <2> QED
    BY <1>1, <2>2, <2>3
<1> QED
  BY <1>2, <1>3

\* Asking for updates confirms what is done with and begins above it.
LEMMA GetUpdatesKeepsChat ==
    ASSUME ChatInv, Chat!GetUpdates
    PROVE  ChatInv'
<1>1. /\ handling = "poll" /\ ~ cancelled /\ confirmed' = Chat!Confirmed
      /\ handling' = IF batch' = {} THEN "poll" ELSE "next"
      /\ UNCHANGED <<arrived, kind, offset, searching, answers, muted, cancelled, bots, faults>>
  BY DEF Chat!GetUpdates, Chat!MayAsk
<1>2. PICK n \in confirmed' .. arrived : batch' = confirmed' + 1 .. n
  BY DEF Chat!GetUpdates
<1>3. /\ confirmed' \in confirmed .. arrived /\ offset <= confirmed' + 1
      /\ \A u \in 1 .. confirmed' : DoneWith(u)
  BY <1>1, ConfirmedIsRight
<1>4. /\ arrived \in 0 .. Updates /\ confirmed \in 0 .. arrived /\ offset \in 0 .. Updates + 1
      /\ offset <= arrived + 1 /\ batch = {}
  BY <1>1 DEF ChatInv, Chat!BotTypeOK, BatchInOrder, Working
<1>5. Chat!BotTypeOK'
  BY <1>1, <1>2, <1>3, <1>4, ChatConstants DEF ChatInv, Chat!BotTypeOK, Chat!Update
<1>6. Chat!ConfirmedIsAnswered'
  BY <1>1, <1>3 DEF Chat!ConfirmedIsAnswered, DoneWith
<1>7. batch' # {} => Chat!Current' = confirmed' + 1
  <2>1. arrived \in Nat /\ confirmed \in Nat
    BY <1>4, ChatConstants
  <2>2. confirmed' \in Nat /\ n \in Nat
    BY <1>3, <2>1
  <2> QED
    BY <1>2, <2>2, LowestOfRange DEF Chat!Current
<1>8. BatchInOrder'
  BY <1>1, <1>2, <1>3, <1>4, <1>7, ChatConstants DEF BatchInOrder, Working
<1>9. AnswersCounted'
  <2> SUFFICES ASSUME NEW u \in Chat!Update
               PROVE  /\ answers'[u] <= bots' + faults'
                      /\ handling' # "off" =>
                            /\ ~ Passed(u)' => answers'[u] < bots' + faults'
                            /\ ~ cancelled' /\ Passed(u)' => DoneWith(u)'
    BY <1>1 DEF AnswersCounted, Chat!Update
  <2>1. u \in Nat \ {0}
    BY ChatConstants DEF Chat!Update
  <2>2. /\ answers[u] <= bots + faults
        /\ u >= offset => answers[u] < bots + faults
        /\ u < offset => DoneWith(u)
    BY <1>1, <1>4, <2>1 DEF ChatInv, AnswersCounted, Passed
  <2>3. DoneWith(u)' <=> DoneWith(u)
    BY <1>1 DEF DoneWith
  <2>4. CASE batch' = {}
    BY <1>1, <2>2, <2>3, <2>4, <1>4, <2>1 DEF Passed
  <2>5. CASE batch' # {}
    <3>1. Passed(u)' <=> u <= confirmed'
      BY <1>1, <1>3, <1>4, <1>7, <2>1, <2>5 DEF Passed
    <3> QED
      BY <1>1, <1>3, <1>4, <2>1, <2>2, <2>3, <3>1
  <2> QED
    BY <2>4, <2>5
<1> QED
  BY <1>5, <1>6, <1>8, <1>9 DEF ChatInv

LEMMA GetUpdatesFailsKeepsChat ==
    ASSUME ChatInv, Chat!GetUpdatesFails
    PROVE  ChatInv'
<1>1. /\ handling = "poll" /\ ~ cancelled /\ confirmed' \in {confirmed, Chat!Confirmed}
      /\ faults < MaxFaults /\ faults' = faults + 1
      /\ UNCHANGED <<arrived, kind, offset, batch, handling, searching, answers, muted, cancelled, bots>>
  BY DEF Chat!GetUpdatesFails, Chat!MayAsk
<1>2. confirmed' \in confirmed .. arrived /\ \A u \in 1 .. confirmed' : DoneWith(u)
  <2>1. confirmed \in 0 .. arrived /\ arrived \in Nat
    BY ChatConstants DEF ChatInv, Chat!BotTypeOK
  <2>2. CASE confirmed' = confirmed
    BY <2>1, <2>2 DEF ChatInv, Chat!ConfirmedIsAnswered, DoneWith
  <2>3. CASE confirmed' = Chat!Confirmed
    BY <1>1, <2>3, ConfirmedIsRight
  <2> QED
    BY <1>1, <2>2, <2>3
<1>3. Chat!BotTypeOK'
  BY <1>1, <1>2, ChatConstants DEF ChatInv, Chat!BotTypeOK, Chat!Update
<1>4. Chat!ConfirmedIsAnswered'
  BY <1>1, <1>2 DEF Chat!ConfirmedIsAnswered, DoneWith
<1>5. BatchInOrder'
  BY <1>1 DEF ChatInv, BatchInOrder, Working, Chat!Current, Chat!Lowest
<1>6. AnswersCounted'
  <2>1. faults \in Nat /\ bots \in Nat /\ answers \in [Chat!Update -> Nat]
    BY ChatConstants DEF ChatInv, Chat!BotTypeOK
  <2> QED
    BY <1>1, <2>1 DEF ChatInv, AnswersCounted, Passed, DoneWith
<1> QED
  BY <1>3, <1>4, <1>5, <1>6 DEF ChatInv

\* The offset goes above the update in hand.
LEMMA TakeUpdateKeepsChat ==
    ASSUME ChatInv, Chat!TakeUpdate
    PROVE  ChatInv'
<1>1. /\ handling = "next"
      /\ offset' = IF Chat!Current >= offset THEN Chat!Current + 1 ELSE offset
      /\ handling' \in {"handled", "answer", "download"}
      /\ handling' = "handled" => kind[Chat!Current] = "none"
      /\ UNCHANGED <<arrived, kind, confirmed, batch, searching, answers, muted, cancelled, bots, faults>>
  BY DEF Chat!TakeUpdate, Chat!Raised
<1>2. /\ Chat!Current \in batch /\ Chat!Current \in 1 .. Updates /\ Chat!Current \in 1 .. arrived
      /\ offset <= Chat!Current /\ arrived \in 0 .. Updates /\ offset \in Nat
  <2>1. Working
    BY <1>1 DEF Working
  <2> QED
    BY <1>1, <2>1, CurrentIsLeast, ChatConstants
       DEF ChatInv, BatchInOrder, Chat!Update, Chat!BotTypeOK
<1>3. Chat!Current' = Chat!Current /\ Working /\ Working'
  BY <1>1 DEF Chat!Current, Chat!Lowest, Working
<1>4. offset' = Chat!Current + 1
  BY <1>1, <1>2
<1>5. Chat!BotTypeOK'
  BY <1>1, <1>2, <1>4, ChatConstants DEF ChatInv, Chat!BotTypeOK, Chat!Update
<1>6. Chat!ConfirmedIsAnswered'
  BY <1>1 DEF ChatInv, Chat!ConfirmedIsAnswered
<1>7. BatchInOrder'
  BY <1>1, <1>2, <1>3, <1>4, ChatConstants DEF ChatInv, BatchInOrder
<1>8. AnswersCounted'
  BY <1>1, <1>2, <1>3 DEF ChatInv, AnswersCounted, Passed, DoneWith
<1> QED
  BY <1>5, <1>6, <1>7, <1>8 DEF ChatInv

\* The next update of a batch is the one after; without one, the offset is next.
LEMMA NextUpdateKeepsChat ==
    ASSUME ChatInv, Chat!NextUpdate
    PROVE  ChatInv'
<1> DEFINE c == Chat!Current
<1>1. /\ handling = "handled" /\ batch' = batch \ {c}
      /\ handling' = IF batch' = {} THEN "poll" ELSE "next"
      /\ searching' = FALSE
      /\ UNCHANGED <<arrived, kind, confirmed, offset, answers, muted, cancelled, bots, faults>>
  BY DEF Chat!NextUpdate
<1>2. /\ c \in batch /\ c \in 1 .. Updates /\ \A u \in batch : c <= u
      /\ offset = c + 1 /\ batch \in SUBSET (1 .. Updates)
  <2>1. Working
    BY <1>1 DEF Working
  <2> QED
    BY <1>1, <2>1, CurrentIsLeast, ChatConstants
       DEF ChatInv, BatchInOrder, Chat!Update, Chat!BotTypeOK
<1>3. batch' # {} => Chat!Current' = c + 1
  <2>1. SUFFICES ASSUME batch' # {}
                 PROVE  Chat!Current' = c + 1
    OBVIOUS
  <2>2. /\ Chat!Current' \in batch'
        /\ \A u \in batch' : Chat!Current' <= u
    <3>1. batch' \in SUBSET Nat
      BY <1>1, <1>2, ChatConstants
    <3> QED
      BY <2>1, <3>1, LowestIsLeast DEF Chat!Current
  <2>3. Chat!Current' \in batch /\ Chat!Current' > c /\ Chat!Current' \in Nat
    BY <1>1, <1>2, <2>2, ChatConstants
  <2>4. c + 1 \in batch
    BY <1>2, <2>3, ChatConstants DEF ChatInv, BatchInOrder
  <2>5. c + 1 \in batch'
    BY <1>1, <1>2, <2>4
  <2> QED
    BY <1>2, <2>2, <2>3, <2>5
<1>4. Chat!BotTypeOK'
  BY <1>1, <1>2 DEF ChatInv, Chat!BotTypeOK, Chat!Update
<1>5. Chat!ConfirmedIsAnswered'
  BY <1>1 DEF ChatInv, Chat!ConfirmedIsAnswered
<1>6. BatchInOrder'
  <2>1. \A u, w \in batch' : \A v \in u .. w : v \in batch'
    BY <1>1, <1>2, ChatConstants DEF ChatInv, BatchInOrder
  <2>2. handling' = "next" => offset' <= Chat!Current'
    BY <1>1, <1>2, <1>3
  <2> QED
    BY <1>1, <2>1, <2>2 DEF ChatInv, BatchInOrder, Working
<1>7. AnswersCounted'
  <2> SUFFICES ASSUME NEW u \in Chat!Update
               PROVE  /\ answers'[u] <= bots' + faults'
                      /\ handling' # "off" =>
                            /\ ~ Passed(u)' => answers'[u] < bots' + faults'
                            /\ ~ cancelled' /\ Passed(u)' => DoneWith(u)'
    BY <1>1 DEF AnswersCounted, Chat!Update
  <2>1. Passed(u)' <=> Passed(u)
    BY <1>1, <1>2, <1>3, ChatConstants DEF Passed, Chat!Update
  <2>2. DoneWith(u)' <=> DoneWith(u)
    BY <1>1 DEF DoneWith
  <2> QED
    BY <1>1, <2>1, <2>2 DEF ChatInv, AnswersCounted
<1> QED
  BY <1>4, <1>5, <1>6, <1>7 DEF ChatInv

\* Whatever is said of an update, it is the one in hand, and it counts as
\* passed only with an answer or a lost one.
LEMMA HandleKeepsChat ==
    ASSUME ChatInv, Chat!Handle
    PROVE  ChatInv'
<1> DEFINE c == Chat!Current
           more == [answers EXCEPT ![c] = @ + 1]
<1>1. /\ UNCHANGED <<arrived, kind, confirmed, offset, batch, cancelled, bots>>
      /\ handling \in {"download", "searching", "search", "replace", "answer"}
      /\ handling' \in {"searching", "search", "replace", "answer", "handled"}
  BY DEF Chat!Handle, Chat!Download, Chat!SaySearching, Chat!Search, Chat!Replace, Chat!Answer,
         Chat!Say, Chat!Fallback
<1>2. Working /\ Working' /\ Chat!Current' = c
  BY <1>1 DEF Working, Chat!Current, Chat!Lowest
<1>3. /\ c \in batch /\ c \in Chat!Update /\ answers \in [Chat!Update -> Nat]
      /\ faults \in 0 .. MaxFaults /\ bots \in Nat /\ muted \subseteq Chat!Update
      /\ answers[c] < bots + faults /\ Chat!Update \subseteq Nat
  <2>1. c \in batch /\ c \in Chat!Update
    BY <1>2, CurrentIsLeast
  <2>2. Chat!Update \subseteq Nat
    BY ChatConstants DEF Chat!Update
  <2>3. ~ Passed(c)
    BY <1>1, <2>1, <2>2 DEF Passed
  <2> QED
    BY <1>1, <2>1, <2>2, <2>3, ChatConstants DEF ChatInv, AnswersCounted, Chat!BotTypeOK
<1>4. /\ faults' \in faults .. MaxFaults
      /\ searching' \in BOOLEAN /\ muted \subseteq muted' /\ muted' \subseteq muted \cup {c}
      /\ answers' \in {answers, more}
      /\ answers' = more => faults' = faults + 1 \/ handling' = "handled"
      /\ handling' = "handled" => cancelled \/ answers' = more \/ c \in muted'
  <2>1. searching \in BOOLEAN /\ cancelled \in BOOLEAN
    BY DEF ChatInv, Chat!BotTypeOK
  <2>2. CASE Chat!Download
    BY <1>3, <2>1, <2>2, ChatConstants DEF Chat!Download
  <2>3. CASE Chat!SaySearching
    <3>1. searching' \in BOOLEAN /\ handling' = "search" /\ UNCHANGED <<answers, muted>>
      BY <2>1, <2>3 DEF Chat!SaySearching
    <3>2. faults' = faults \/ (faults < MaxFaults /\ faults' = faults + 1)
      BY <2>3 DEF Chat!SaySearching
    <3>3. answers # more
      BY <1>3
    <3> QED
      BY <1>3, <3>1, <3>2, <3>3, ChatConstants
  <2>4. CASE Chat!Search
    BY <1>3, <2>1, <2>4, ChatConstants DEF Chat!Search
  <2>5. CASE Chat!Replace
    BY <1>3, <2>1, <2>5, ChatConstants DEF Chat!Replace, Chat!Say, Chat!Sent, Chat!Fallback
  <2>6. CASE Chat!Answer
    BY <1>3, <2>1, <2>6, ChatConstants DEF Chat!Answer, Chat!Say, Chat!Sent
  <2> QED
    BY <2>2, <2>3, <2>4, <2>5, <2>6 DEF Chat!Handle
<1>5. /\ answers' \in [Chat!Update -> Nat]
      /\ \A u \in Chat!Update : u # c => answers'[u] = answers[u]
      /\ answers'[c] = answers[c] \/ answers'[c] = answers[c] + 1
      /\ answers' = more => answers'[c] = answers[c] + 1
      /\ \A u \in Chat!Update : answers'[u] >= answers[u]
  BY <1>3, <1>4
<1>6. Chat!BotTypeOK'
  BY <1>1, <1>3, <1>4, <1>5, ChatConstants, SMTT(60) DEF ChatInv, Chat!BotTypeOK, Chat!Update
<1>7. Chat!ConfirmedIsAnswered'
  <2>1. \A u \in 1 .. confirmed : u \in Chat!Update
    BY ChatConstants DEF ChatInv, Chat!BotTypeOK, Chat!Update
  <2> QED
    BY <1>1, <1>3, <1>4, <1>5, <2>1 DEF ChatInv, Chat!ConfirmedIsAnswered
<1>8. BatchInOrder'
  BY <1>1, <1>2 DEF ChatInv, BatchInOrder
<1>9. AnswersCounted'
  <2> SUFFICES ASSUME NEW u \in Chat!Update
               PROVE  /\ answers'[u] <= bots' + faults'
                      /\ handling' # "off" =>
                            /\ ~ Passed(u)' => answers'[u] < bots' + faults'
                            /\ ~ cancelled' /\ Passed(u)' => DoneWith(u)'
    BY <1>1 DEF AnswersCounted, Chat!Update
  <2>1. CASE u = c
    <3>1. Passed(u)' <=> handling' = "handled"
      BY <1>1, <1>2, <1>3, <2>1 DEF Passed
    <3>2. answers'[c] <= bots + faults' /\ (handling' # "handled" => answers'[c] < bots + faults')
      BY <1>3, <1>4, <1>5, ChatConstants
    <3>3. handling' = "handled" /\ ~ cancelled => answers'[c] > 0 \/ c \in muted'
      BY <1>3, <1>4, <1>5
    <3> QED
      BY <1>1, <2>1, <3>1, <3>2, <3>3 DEF DoneWith
  <2>2. CASE u # c
    <3>1. Passed(u)' <=> Passed(u)
      BY <1>1, <1>2, <2>2 DEF Passed
    <3>2. DoneWith(u) => DoneWith(u)'
      BY <1>1, <1>4, <1>5, <2>2 DEF DoneWith
    <3>3. answers'[u] = answers[u] /\ answers[u] \in Nat /\ faults' >= faults /\ faults' \in Nat
      BY <1>3, <1>4, <1>5, <2>2, ChatConstants
    <3> QED
      BY <1>1, <1>3, <3>1, <3>2, <3>3 DEF ChatInv, AnswersCounted
  <2> QED
    BY <2>1, <2>2
<1> QED
  BY <1>6, <1>7, <1>8, <1>9 DEF ChatInv

\* A bot that is cancelled or ends owes nothing more; the next one asks for
\* what is not confirmed.
LEMMA EndsKeepChat ==
    ASSUME ChatInv, Chat!Cancel \/ Chat!RunReturns \/ Chat!Crash \/ Chat!NewBot
    PROVE  ChatInv'
<1>1. /\ UNCHANGED <<arrived, kind, confirmed, answers, muted, faults>>
      /\ \/ cancelled' = TRUE /\ UNCHANGED <<offset, batch, handling, searching, bots>>
         \/ handling' = "off" /\ batch' = {} /\ searching' = FALSE /\ UNCHANGED <<offset, cancelled, bots>>
         \/ /\ handling = "off" /\ handling' = "poll" /\ offset' = 0 /\ cancelled' = FALSE
            /\ bots < MaxBots /\ bots' = bots + 1 /\ UNCHANGED <<batch, searching>>
  BY DEF Chat!Cancel, Chat!RunReturns, Chat!Crash, Chat!NewBot, Chat!Off
<1>2. /\ bots \in 1 .. MaxBots /\ faults \in Nat /\ answers \in [Chat!Update -> Nat]
      /\ Chat!Update \subseteq Nat /\ arrived \in Nat
  BY ChatConstants DEF ChatInv, Chat!BotTypeOK, Chat!Update
<1>3. Chat!BotTypeOK'
  <2>1. {searching', cancelled'} \subseteq BOOLEAN
    BY <1>1 DEF ChatInv, Chat!BotTypeOK
  <2>2. bots' \in 1 .. MaxBots /\ offset' \in 0 .. Updates + 1
    BY <1>1, <1>2, ChatConstants DEF ChatInv, Chat!BotTypeOK
  <2> QED
    BY <1>1, <2>1, <2>2 DEF ChatInv, Chat!BotTypeOK, Chat!Update
<1>4. Chat!ConfirmedIsAnswered'
  BY <1>1 DEF ChatInv, Chat!ConfirmedIsAnswered
<1>5. BatchInOrder'
  <2>1. CASE UNCHANGED <<offset, batch, handling>>
    BY <1>1, <2>1 DEF ChatInv, BatchInOrder, Working, Chat!Current, Chat!Lowest
  <2>2. CASE handling' = "off" /\ batch' = {} /\ UNCHANGED offset
    BY <1>1, <1>2, <2>2 DEF ChatInv, BatchInOrder, Working
  <2>3. CASE handling = "off" /\ handling' = "poll" /\ offset' = 0 /\ UNCHANGED batch
    BY <1>1, <1>2, <2>3 DEF ChatInv, BatchInOrder, Working
  <2> QED
    BY <1>1, <2>1, <2>2, <2>3
<1>6. AnswersCounted'
  <2>1. CASE cancelled' = TRUE /\ UNCHANGED <<offset, batch, handling, searching, bots>>
    BY <1>1, <2>1 DEF ChatInv, AnswersCounted, Passed, Chat!Current, Chat!Lowest
  <2>2. CASE handling' = "off" /\ UNCHANGED bots
    BY <1>1, <2>2 DEF ChatInv, AnswersCounted
  <2>3. CASE handling' = "poll" /\ offset' = 0 /\ bots' = bots + 1
    BY <1>1, <1>2, <2>3, ChatConstants DEF ChatInv, AnswersCounted, Passed, DoneWith
  <2> QED
    BY <1>1, <2>1, <2>2, <2>3
<1> QED
  BY <1>3, <1>4, <1>5, <1>6 DEF ChatInv

LEMMA ChatKeeps ==
    ASSUME ChatInv, Chat!BotNext \/ UNCHANGED chat
    PROVE  ChatInv'
<1>1. CASE UNCHANGED chat
  BY <1>1 DEF chat, ChatInv, Chat!BotTypeOK, Chat!ConfirmedIsAnswered, BatchInOrder, AnswersCounted,
              Passed, DoneWith, Working, Chat!Current, Chat!Lowest
<1>2. CASE Chat!BotNext
  BY <1>2, ArriveKeepsChat, GetUpdatesKeepsChat, GetUpdatesFailsKeepsChat, TakeUpdateKeepsChat,
     NextUpdateKeepsChat, HandleKeepsChat, EndsKeepChat DEF Chat!BotNext, Chat!Run
<1> QED
  BY <1>1, <1>2

-----------------------------------------------------------------------------
(* The bot's host. *)

LEMMA HostConstants ==
    /\ {Landlord!Absent, Landlord!Empty, Landlord!Broken, Landlord!Off} \cap Token = {}
    /\ Landlord!Off = "off" /\ Landlord!Absent = "absent"
    /\ Landlord!Empty = "empty" /\ Landlord!Broken = "broken"
  BY PartsAssumption
     DEF Landlord!BotHostAssumption, Landlord!Off, Landlord!Absent, Landlord!Empty, Landlord!Broken

LEMMA IdleRequest == Landlord!Idle \in Request /\ Landlord!Idle.at = "idle"
  BY DEF Landlord!Idle, Request

LEMMA LandlordStarts == Landlord!BotHostInit => LandlordInv
<1> SUFFICES ASSUME Landlord!BotHostInit PROVE LandlordInv
  OBVIOUS
<1>1. /\ token \in Token \cup {Landlord!Off} /\ telegramFile \in {Landlord!Absent, token}
      /\ telegramTmp = Landlord!Absent /\ request = [s \in Setter |-> Landlord!Idle]
      /\ fd = [s \in Setter |-> "none"] /\ crossed = FALSE /\ host = "look"
      /\ running = {} /\ made = 0 /\ child = 0
  BY DEF Landlord!BotHostInit, Landlord!NoneOpen
<1>2. SetterTypes
  BY <1>1, IdleRequest DEF SetterTypes, Contents
<1>3. Landlord!Writing = {}
  BY <1>1, IdleRequest DEF Landlord!Writing
<1>4. Landlord!FileIsToken
  BY <1>1 DEF Landlord!FileIsToken
<1> QED
  BY <1>1, <1>2, <1>3, <1>4 DEF LandlordInv, SettersInOrder, HostInOrder, OneSetter

\* One call moves, the others stay where they are.
LEMMA OneMoves ==
    ASSUME SettersInOrder, NEW s \in Setter, NEW r \in Request,
           request' = [request EXCEPT ![s] = r]
    PROVE  /\ request' \in [Setter -> Request] /\ request'[s] = r
           /\ \A q \in Setter : q # s => request'[q] = request[q]
           /\ Landlord!Writing' = IF r.at \in {"write", "rename", "remove", "keep"}
                                  THEN Landlord!Writing \cup {s} ELSE Landlord!Writing \ {s}
           /\ Landlord!Between' = IF r.at = "keep"
                                  THEN Landlord!Between \cup {s} ELSE Landlord!Between \ {s}
<1>1. request \in [Setter -> Request]
  BY DEF SettersInOrder, SetterTypes
<1>2. /\ request' \in [Setter -> Request] /\ request'[s] = r
      /\ \A q \in Setter : q # s => request'[q] = request[q]
  BY <1>1
<1> QED
  BY <1>2 DEF Landlord!Writing, Landlord!Between

\* The file is opened: it is empty, and the call alone with it, or crossed.
LEMMA OpenTmpKeepsSetters ==
    ASSUME SettersInOrder, NEW s \in Setter, NEW t \in Token \cup {Landlord!Off},
           Landlord!OpenTmp(s, t)
    PROVE  SettersInOrder'
<1> DEFINE r == [at |-> "write", token |-> t, cancel |-> 0]
<1>1. /\ host # "refused" /\ request[s].at = "idle" /\ request' = [request EXCEPT ![s] = r]
      /\ telegramTmp' = Landlord!Empty /\ fd' = [fd EXCEPT ![s] = "tmp"]
      /\ crossed' = (crossed \/ Landlord!Writing # {})
      /\ UNCHANGED <<token, telegramFile, host>>
  BY DEF Landlord!OpenTmp, Landlord!loop
<1>2. r \in Request /\ r.at = "write"
  BY DEF Request
<1> HIDE DEF r
<1>3. /\ request' \in [Setter -> Request] /\ request'[s] = r
      /\ Landlord!Writing' = Landlord!Writing \cup {s}
      /\ Landlord!Between' = Landlord!Between \ {s} /\ s \notin Landlord!Between
  BY <1>1, <1>2, OneMoves DEF Landlord!Between
<1>4. SetterTypes'
  BY <1>1, <1>3 DEF SettersInOrder, SetterTypes, Contents
<1>5. ASSUME ~ crossed'
      PROVE  OneSetter' /\ Landlord!FileIsToken'
  <2>1. ~ crossed /\ Landlord!Writing' = {s} /\ Landlord!FileIsToken
    BY <1>1, <1>3, <1>5 DEF SettersInOrder
  <2>2. fd'[s] = "tmp"
    BY <1>1 DEF SettersInOrder, SetterTypes
  <2>3. OneSetter'
    BY <1>1, <1>2, <1>3, <2>1, <2>2 DEF OneSetter
  <2>4. Landlord!Between' = Landlord!Between
    BY <1>3
  <2> QED
    BY <1>1, <2>1, <2>3, <2>4 DEF Landlord!FileIsToken
<1> QED
  BY <1>1, <1>4, <1>5 DEF SettersInOrder

\* It is written: alone with the file, the call leaves its token in the temporary one.
LEMMA WriteTmpKeepsSetters ==
    ASSUME SettersInOrder, NEW s \in Setter, Landlord!WriteTmp(s), UNCHANGED host
    PROVE  SettersInOrder'
<1>1. /\ request[s].at = "write" /\ UNCHANGED <<token, crossed>>
      /\ \/ Landlord!Write(s, TRUE) /\ request' = [request EXCEPT ![s].at = "rename"]
         \/ Landlord!Write(s, FALSE) /\ request' = [request EXCEPT ![s] = Landlord!Idle]
  BY DEF Landlord!WriteTmp, Landlord!AfterFailedWrite
<1>2. /\ request \in [Setter -> Request] /\ request[s] \in Request /\ crossed \in BOOLEAN
      /\ fd \in [Setter -> {"tmp", "file", "none"}]
      /\ telegramFile \in Contents /\ telegramTmp \in Contents
  BY DEF SettersInOrder, SetterTypes
<1>3. PICK r \in Request : /\ request' = [request EXCEPT ![s] = r]
                           /\ r.at \in {"rename", "idle"}
                           /\ r.at = "rename" => /\ r.token = request[s].token
                                                 /\ Landlord!Write(s, TRUE)
  <2>1. CASE Landlord!Write(s, TRUE) /\ request' = [request EXCEPT ![s].at = "rename"]
    <3>1. [request[s] EXCEPT !.at = "rename"] \in Request
      BY <1>2 DEF Request
    <3>2. /\ [request[s] EXCEPT !.at = "rename"].at = "rename"
          /\ [request[s] EXCEPT !.at = "rename"].token = request[s].token
      BY <1>2 DEF Request
    <3> QED
      BY <2>1, <3>1, <3>2
  <2>2. CASE request' = [request EXCEPT ![s] = Landlord!Idle]
    BY <2>2, IdleRequest
  <2> QED
    BY <1>1, <2>1, <2>2
<1>4. /\ request' \in [Setter -> Request] /\ request'[s] = r
      /\ Landlord!Writing' = IF r.at = "rename" THEN Landlord!Writing \cup {s}
                             ELSE Landlord!Writing \ {s}
      /\ Landlord!Between' = Landlord!Between \ {s} /\ s \notin Landlord!Between
      /\ s \in Landlord!Writing
  BY <1>1, <1>3, OneMoves DEF Landlord!Between, Landlord!Writing
<1>5. /\ telegramTmp' \in IF fd[s] = "tmp"
                          THEN {telegramTmp, request[s].token, Landlord!Broken} ELSE {telegramTmp}
      /\ telegramFile' \in IF fd[s] = "file"
                           THEN {telegramFile, request[s].token, Landlord!Broken}
                           ELSE {telegramFile}
      /\ fd' = [fd EXCEPT ![s] = "none"]
  BY <1>1 DEF Landlord!Write, Landlord!Written
<1>6. SetterTypes'
  <2>1. request[s].token \in Contents /\ Landlord!Broken \in Contents
    BY <1>2 DEF Request, Contents
  <2>2. telegramTmp' \in Contents /\ telegramFile' \in Contents
    BY <1>2, <1>5, <2>1
  <2>3. fd' \in [Setter -> {"tmp", "file", "none"}]
    BY <1>2, <1>5
  <2> QED
    BY <1>1, <1>4, <2>2, <2>3 DEF SettersInOrder, SetterTypes
<1>7. ASSUME ~ crossed
      PROVE  OneSetter' /\ Landlord!FileIsToken'
  <2>1. /\ OneSetter /\ Landlord!FileIsToken /\ Landlord!Writing = {s}
        /\ fd[s] = "tmp" /\ telegramTmp = Landlord!Empty
    BY <1>1, <1>4, <1>7 DEF SettersInOrder, OneSetter
  <2>2. telegramFile' = telegramFile /\ Landlord!Between' = Landlord!Between
    BY <1>4, <1>5, <2>1
  <2>3. r.at = "rename" => telegramTmp' = request[s].token
    BY <1>3, <2>1 DEF Landlord!Write, Landlord!Written
  <2>4. OneSetter'
    BY <1>3, <1>4, <2>1, <2>3 DEF OneSetter
  <2> QED
    BY <1>1, <1>7, <2>1, <2>2, <2>4 DEF Landlord!FileIsToken
<1> QED
  BY <1>1, <1>6, <1>7 DEF SettersInOrder

\* It is renamed: the call is between file and memory.
LEMMA RenameKeepsSetters ==
    ASSUME SettersInOrder, NEW s \in Setter, Landlord!Rename(s), UNCHANGED host
    PROVE  SettersInOrder'
<1>1. /\ request[s].at = "rename" /\ UNCHANGED <<token, crossed>>
      /\ telegramFile' = telegramTmp /\ telegramTmp' = Landlord!Absent
      /\ fd' = [q \in Setter |-> IF fd[q] = "tmp" THEN "file" ELSE "none"]
      /\ request' = [request EXCEPT ![s].at = "keep"]
  BY DEF Landlord!Rename
<1>2. request \in [Setter -> Request] /\ request[s] \in Request
  BY DEF SettersInOrder, SetterTypes
<1>3. PICK r \in Request : /\ request' = [request EXCEPT ![s] = r]
                           /\ r.at = "keep" /\ r.token = request[s].token
  <2>1. [request[s] EXCEPT !.at = "keep"] \in Request
    BY <1>2 DEF Request
  <2>2. /\ [request[s] EXCEPT !.at = "keep"].at = "keep"
        /\ [request[s] EXCEPT !.at = "keep"].token = request[s].token
    BY <1>2 DEF Request
  <2> QED
    BY <1>1, <2>1, <2>2
<1>4. /\ request' \in [Setter -> Request] /\ request'[s] = r
      /\ Landlord!Writing' = Landlord!Writing \cup {s} /\ s \in Landlord!Writing
      /\ s \in Landlord!Between'
  <2>1. /\ request' \in [Setter -> Request] /\ request'[s] = r
        /\ Landlord!Writing' = IF r.at \in {"write", "rename", "remove", "keep"}
                               THEN Landlord!Writing \cup {s} ELSE Landlord!Writing \ {s}
        /\ Landlord!Between' = IF r.at = "keep"
                               THEN Landlord!Between \cup {s} ELSE Landlord!Between \ {s}
    BY <1>3, OneMoves
  <2>2. s \in Landlord!Writing
    BY <1>1 DEF Landlord!Writing
  <2> QED
    BY <1>3, <2>1, <2>2
<1>5. SetterTypes'
  <2>1. fd' \in [Setter -> {"tmp", "file", "none"}]
    BY <1>1
  <2>2. telegramFile' \in Contents /\ telegramTmp' \in Contents
    BY <1>1 DEF SettersInOrder, SetterTypes, Contents
  <2> QED
    BY <1>1, <1>4, <2>1, <2>2 DEF SettersInOrder, SetterTypes
<1>6. ASSUME ~ crossed
      PROVE  OneSetter' /\ Landlord!FileIsToken'
  <2>1. /\ Landlord!FileIsToken /\ Landlord!Writing = {s}
        /\ telegramTmp = request[s].token
    BY <1>1, <1>4, <1>6 DEF SettersInOrder, OneSetter
  <2>2. OneSetter'
    BY <1>1, <1>3, <1>4, <2>1 DEF OneSetter
  <2> QED
    BY <1>1, <1>4, <1>6, <2>1, <2>2 DEF Landlord!FileIsToken
<1> QED
  BY <1>1, <1>5, <1>6 DEF SettersInOrder

\* A call that gives up, before the rename or because of it.
LEMMA GivesUpKeepsSetters ==
    ASSUME SettersInOrder, NEW s \in Setter, Landlord!RenameFails(s) \/ Landlord!RemoveTmp(s),
           UNCHANGED host
    PROVE  SettersInOrder'
<1>1. /\ request[s].at \in {"rename", "remove"} /\ UNCHANGED <<token, telegramFile, crossed>>
      /\ telegramTmp' \in {telegramTmp, Landlord!Absent}
      /\ \/ fd' = fd
         \/ fd' = [q \in Setter |-> IF fd[q] = "tmp" THEN "none" ELSE fd[q]]
      /\ \/ request' = [request EXCEPT ![s].at = "remove"]
         \/ request' = [request EXCEPT ![s] = Landlord!Idle]
  BY DEF Landlord!RenameFails, Landlord!RemoveTmp, Landlord!AfterFailedRename, Landlord!files
<1>2. request \in [Setter -> Request] /\ request[s] \in Request
  BY DEF SettersInOrder, SetterTypes
<1>3. PICK r \in Request : request' = [request EXCEPT ![s] = r] /\ r.at \in {"remove", "idle"}
  <2>1. /\ [request[s] EXCEPT !.at = "remove"] \in Request
        /\ [request[s] EXCEPT !.at = "remove"].at = "remove"
    BY <1>2 DEF Request
  <2> QED
    BY <1>1, <2>1, IdleRequest
<1>4. /\ request' \in [Setter -> Request] /\ request'[s] = r /\ s \in Landlord!Writing
      /\ Landlord!Writing' \subseteq Landlord!Writing \cup {s}
      /\ Landlord!Between' = Landlord!Between
  BY <1>1, <1>3, OneMoves DEF Landlord!Writing, Landlord!Between
<1>5. SetterTypes'
  BY <1>1, <1>4 DEF SettersInOrder, SetterTypes, Contents
<1>6. ASSUME ~ crossed
      PROVE  OneSetter' /\ Landlord!FileIsToken'
  <2>1. Landlord!FileIsToken /\ Landlord!Writing = {s}
    BY <1>4, <1>6 DEF SettersInOrder, OneSetter
  <2>2. \A q \in Landlord!Writing' : q = s /\ Landlord!Writing' = {s}
    BY <1>4, <2>1
  <2>3. OneSetter'
    BY <1>3, <1>4, <2>2 DEF OneSetter
  <2> QED
    BY <1>1, <1>4, <1>6, <2>1, <2>3 DEF Landlord!FileIsToken
<1> QED
  BY <1>1, <1>5, <1>6 DEF SettersInOrder

\* The token follows the file.
LEMMA KeepKeepsSetters ==
    ASSUME SettersInOrder, child \in Nat, NEW s \in Setter, Landlord!Keep(s), UNCHANGED host
    PROVE  SettersInOrder'
<1>1. /\ request[s].at = "keep" /\ token' = request[s].token
      /\ request' = [request EXCEPT ![s] =
             IF token = @.token THEN Landlord!Idle
             ELSE [@ EXCEPT !.at = "cancel", !.cancel = child]]
      /\ UNCHANGED <<telegramFile, telegramTmp, fd, crossed>>
  BY DEF Landlord!Keep, Landlord!files
<1>2. request \in [Setter -> Request] /\ request[s] \in Request
  BY DEF SettersInOrder, SetterTypes
<1>3. PICK r \in Request : request' = [request EXCEPT ![s] = r] /\ r.at \in {"cancel", "idle"}
  <2>1. /\ [request[s] EXCEPT !.at = "cancel", !.cancel = child] \in Request
        /\ [request[s] EXCEPT !.at = "cancel", !.cancel = child].at = "cancel"
    BY <1>2 DEF Request
  <2>2. \/ request' = [request EXCEPT ![s] = Landlord!Idle]
        \/ request' = [request EXCEPT ![s] = [request[s] EXCEPT !.at = "cancel", !.cancel = child]]
    BY <1>1, <1>2
  <2> QED
    BY <2>1, <2>2, IdleRequest
<1>4. /\ request' \in [Setter -> Request] /\ s \in Landlord!Writing
      /\ Landlord!Writing' = Landlord!Writing \ {s}
  BY <1>1, <1>3, OneMoves DEF Landlord!Writing
<1>5. token' \in Token \cup {Landlord!Off}
  BY <1>1, <1>2 DEF Request
<1>6. SetterTypes'
  BY <1>1, <1>4, <1>5 DEF SettersInOrder, SetterTypes
<1>7. ASSUME ~ crossed
      PROVE  OneSetter' /\ Landlord!FileIsToken'
  <2>1. Landlord!FileIsToken /\ Landlord!Writing = {s} /\ telegramFile = request[s].token
    BY <1>1, <1>4, <1>7 DEF SettersInOrder, OneSetter
  <2>2. OneSetter'
    BY <1>4, <2>1 DEF OneSetter
  <2> QED
    BY <1>1, <1>7, <2>1, <2>2 DEF Landlord!FileIsToken
<1> QED
  BY <1>1, <1>6, <1>7 DEF SettersInOrder

LEMMA CancelAndPokeKeepSetters ==
    ASSUME SettersInOrder, NEW s \in Setter, Landlord!CancelChild(s) \/ Landlord!Poke(s),
           UNCHANGED host
    PROVE  SettersInOrder'
<1>1. request \in [Setter -> Request] /\ request[s] \in Request
  BY DEF SettersInOrder, SetterTypes
<1>2. /\ request[s].at \in {"cancel", "poke"}
      /\ UNCHANGED <<crossed, telegramFile, telegramTmp, fd, token>>
      /\ \/ request' = [request EXCEPT ![s].at = "poke"]
         \/ request' = [request EXCEPT ![s] = Landlord!Idle]
  BY DEF Landlord!CancelChild, Landlord!Poke, Landlord!files
<1>3. PICK r \in Request : request' = [request EXCEPT ![s] = r] /\ r.at \in {"poke", "idle"}
  <2>1. /\ [request[s] EXCEPT !.at = "poke"] \in Request
        /\ [request[s] EXCEPT !.at = "poke"].at = "poke"
    BY <1>1 DEF Request
  <2> QED
    BY <1>2, <2>1, IdleRequest
<1>4. /\ request' \in [Setter -> Request] /\ s \notin Landlord!Writing /\ s \notin Landlord!Between
      /\ Landlord!Writing' = Landlord!Writing \ {s} /\ Landlord!Between' = Landlord!Between \ {s}
      /\ \A q \in Setter : q # s => request'[q] = request[q]
  BY <1>2, <1>3, OneMoves DEF Landlord!Writing, Landlord!Between
<1>5. /\ Landlord!Writing' = Landlord!Writing /\ Landlord!Between' = Landlord!Between
      /\ \A q \in Landlord!Writing : request'[q] = request[q]
  BY <1>4 DEF Landlord!Writing
<1>6. OneSetter => OneSetter'
  BY <1>2, <1>5 DEF OneSetter
<1>7. Landlord!FileIsToken => Landlord!FileIsToken'
  BY <1>2, <1>5 DEF Landlord!FileIsToken
<1> QED
  BY <1>2, <1>4, <1>6, <1>7 DEF SettersInOrder, SetterTypes

\* A start reads the token from the file, which without a crossing can be read.
LEMMA RestartKeepsLandlord ==
    ASSUME LandlordInv, Landlord!Restart
    PROVE  LandlordInv'
<1>1. /\ child' = 0 /\ running' = {} /\ made' = 0 /\ host # "refused"
      /\ request' = [s \in Setter |-> Landlord!Idle] /\ fd' = [s \in Setter |-> "none"]
      /\ UNCHANGED <<telegramFile, telegramTmp>>
      /\ crossed' = (crossed /\ host' = "refused")
  BY DEF Landlord!Restart, Landlord!NoneOpen
<1>2. \/ /\ telegramFile \in Token \cup {Landlord!Off, Landlord!Absent}
         /\ token' \in Token \cup {Landlord!Off} /\ host' = "look"
         /\ telegramFile \in {Landlord!Absent, token'}
      \/ /\ telegramFile \in {Landlord!Empty, Landlord!Broken}
         /\ host' = "refused" /\ token' = token
  <2>1. telegramFile \in Contents
    BY DEF LandlordInv, SettersInOrder, SetterTypes
  <2>2. CASE telegramFile = Landlord!Absent
    BY <2>2, HostConstants DEF Landlord!Restart
  <2>3. CASE telegramFile \in {Landlord!Empty, Landlord!Broken}
    BY <2>3, HostConstants DEF Landlord!Restart
  <2>4. CASE telegramFile \in Token \cup {Landlord!Off}
    <3>1. telegramFile \notin {Landlord!Absent, Landlord!Empty, Landlord!Broken}
      BY <2>4, HostConstants
    <3> QED
      BY <2>4, <3>1 DEF Landlord!Restart
  <2> QED
    BY <2>1, <2>2, <2>3, <2>4 DEF Contents
<1>3. Landlord!Writing' = {} /\ Landlord!Between' = {}
  BY <1>1, IdleRequest DEF Landlord!Writing, Landlord!Between
<1>4. SetterTypes' /\ OneSetter'
  <2>1. request' \in [Setter -> Request] /\ fd' \in [Setter -> {"tmp", "file", "none"}]
    BY <1>1, IdleRequest
  <2>2. token' \in Token \cup {Landlord!Off} /\ crossed' \in BOOLEAN
    BY <1>1, <1>2 DEF LandlordInv, SettersInOrder, SetterTypes
  <2> QED
    BY <1>1, <1>3, <2>1, <2>2 DEF LandlordInv, SettersInOrder, SetterTypes, OneSetter
<1>5. host' = "refused" => crossed'
  <2> SUFFICES ASSUME ~ crossed, telegramFile \in {Landlord!Empty, Landlord!Broken}
               PROVE  FALSE
    BY <1>1, <1>2
  <2>1. OneSetter /\ Landlord!FileIsToken /\ SetterTypes
    BY DEF LandlordInv, SettersInOrder
  <2>2. telegramFile \notin Token \cup {Landlord!Off, Landlord!Absent}
    BY HostConstants
  <2>3. PICK s \in Setter : request[s].at = "keep"
    BY <2>1, <2>2 DEF Landlord!FileIsToken, Landlord!Between, SetterTypes
  <2>4. telegramFile = request[s].token
    BY <2>1, <2>3 DEF OneSetter, Landlord!Writing
  <2> QED
    BY <2>1, <2>2, <2>4 DEF SetterTypes, Request
<1>6. crossed' \/ Landlord!FileIsToken'
  BY <1>1, <1>2, <1>5 DEF Landlord!FileIsToken
<1>7. HostInOrder'
  BY <1>1, <1>2 DEF HostInOrder
<1> QED
  BY <1>4, <1>5, <1>6, <1>7 DEF LandlordInv, SettersInOrder

\* The loop moves neither file nor token.
LEMMA SettersIgnoreTheLoop ==
    ASSUME SettersInOrder, host' = host \/ (host' # "refused" /\ host # "refused"),
           UNCHANGED <<request, crossed, telegramFile, telegramTmp, fd, token>>
    PROVE  SettersInOrder'
<1>1. Landlord!Between' = Landlord!Between /\ Landlord!Writing' = Landlord!Writing
  BY DEF Landlord!Between, Landlord!Writing
<1>2. OneSetter => OneSetter'
  BY <1>1 DEF OneSetter
<1>3. Landlord!FileIsToken => Landlord!FileIsToken'
  BY <1>1 DEF Landlord!FileIsToken
<1> QED
  BY <1>2, <1>3 DEF SettersInOrder, SetterTypes

\* The loop runs a bot only when none runs, and looks again only when it ended.
LEMMA LoopKeepsHost ==
    ASSUME HostInOrder, Landlord!RunStep
    PROVE  HostInOrder' /\ (host' = host \/ (host' # "refused" /\ host # "refused"))
<1>1. CASE Landlord!Look
  BY <1>1 DEF HostInOrder, Landlord!Look
<1>2. CASE Landlord!Rest
  BY <1>2 DEF HostInOrder, Landlord!Rest
<1>3. CASE Landlord!MakeBot
  BY <1>3 DEF HostInOrder, Landlord!MakeBot
<1>4. CASE Landlord!StartBot
  <2>1. made' = made + 1 /\ child' = made' /\ host = "start" /\ host' \in {"look", "run"}
    BY <1>4 DEF Landlord!StartBot
  <2>2. running = {}
    BY <1>4 DEF HostInOrder, Landlord!StartBot
  <2>3. \/ host' = "look" /\ UNCHANGED running
        \/ host' = "run" /\ running' = running \cup {made'}
    BY <1>4 DEF Landlord!StartBot
  <2> QED
    BY <2>1, <2>2, <2>3 DEF HostInOrder
<1>5. CASE Landlord!StopBot
  BY <1>5 DEF HostInOrder, Landlord!StopBot, Landlord!AfterWake
<1>6. CASE Landlord!Stopped
  BY <1>6 DEF HostInOrder, Landlord!Stopped
<1>7. CASE \E b \in 1 .. made : Landlord!BotEnds(b)
  BY <1>7 DEF HostInOrder, Landlord!BotEnds
<1> QED
  BY <1>1, <1>2, <1>3, <1>4, <1>5, <1>6, <1>7 DEF Landlord!RunStep

LEMMA LandlordKeeps ==
    ASSUME LandlordInv, Landlord!BotHostNext \/ UNCHANGED landlord
    PROVE  LandlordInv'
<1>1. SettersInOrder /\ HostInOrder /\ child \in Nat
  BY DEF LandlordInv, HostInOrder
<1>2. CASE UNCHANGED landlord
  <2>1. /\ UNCHANGED <<request, crossed, telegramFile, telegramTmp, fd, token>>
        /\ UNCHANGED <<made, child, host, running>>
    BY <1>2 DEF landlord
  <2> QED
    BY <1>1, <2>1, SettersIgnoreTheLoop DEF LandlordInv, HostInOrder
<1>3. CASE Landlord!RunStep
  <2>1. UNCHANGED <<request, crossed, telegramFile, telegramTmp, fd, token>>
    BY <1>3 DEF Landlord!RunStep, Landlord!Look, Landlord!Rest, Landlord!MakeBot, Landlord!StartBot,
                Landlord!BotEnds, Landlord!StopBot, Landlord!Stopped, Landlord!files
  <2> QED
    BY <1>1, <1>3, <2>1, LoopKeepsHost, SettersIgnoreTheLoop DEF LandlordInv
<1>4. CASE Landlord!Restart
  BY <1>4, RestartKeepsLandlord
<1>5. ASSUME NEW s \in Setter,
             Landlord!SetStep(s) \/ \E t \in Token \cup {Landlord!Off} : Landlord!OpenTmp(s, t)
      PROVE  LandlordInv'
  <2>1. UNCHANGED <<made, child, host, running>>
    BY <1>5 DEF Landlord!SetStep, Landlord!OpenTmp, Landlord!WriteTmp, Landlord!Rename,
                Landlord!RenameFails, Landlord!RemoveTmp, Landlord!Keep, Landlord!CancelChild,
                Landlord!Poke, Landlord!loop
  <2>2. SettersInOrder'
    BY <1>1, <1>5, <2>1, OpenTmpKeepsSetters, WriteTmpKeepsSetters, RenameKeepsSetters,
       GivesUpKeepsSetters, KeepKeepsSetters, CancelAndPokeKeepSetters DEF Landlord!SetStep
  <2> QED
    BY <1>1, <2>1, <2>2 DEF LandlordInv, HostInOrder
<1> QED
  BY <1>2, <1>3, <1>4, <1>5 DEF Landlord!BotHostNext

LEMMA OneBotFollows == LandlordInv => Landlord!OneBot
<1> SUFFICES ASSUME LandlordInv PROVE Landlord!OneBot
  OBVIOUS
<1>1. running = {} \/ running = {made}
  BY DEF LandlordInv, HostInOrder
<1>2. Cardinality(running) <= 1
  <2>1. CASE running = {}
    BY <2>1, FS_EmptySet
  <2>2. CASE running = {made}
    <3>1. Cardinality({made}) = 1
      BY FS_Singleton
    <3> QED
      BY <2>2, <3>1
  <2> QED
    BY <1>1, <2>1, <2>2
<1>3. Landlord!Cardinality(running) = Cardinality(running)
  BY DEF Landlord!Cardinality, Cardinality, Landlord!IsFiniteSet, IsFiniteSet
<1> QED
  BY <1>2, <1>3 DEF Landlord!OneBot

-----------------------------------------------------------------------------
(* Re-embedding. *)

LEMMA ReembedConstants == Images \in Nat /\ PageSize \in Nat \ {0} /\ Mishaps \in Nat
  BY PartsAssumption DEF Again!ReembedAssumption

\* A page has the images of least id among those ahead: with an image it has
\* all below, and it is empty only when nothing is ahead.
LEMMA FirstOfIsLow ==
    ASSUME NEW S \in SUBSET Again!Image
    PROVE  /\ Again!FirstOf(S) \subseteq S
           /\ \A i \in Again!FirstOf(S) : \A j \in S : j <= i => j \in Again!FirstOf(S)
           /\ S # {} => Again!FirstOf(S) # {}
<1> USE ReembedConstants
<1> DEFINE Below(i) == {j \in S : j < i}
<1>1. \A T : Again!Cardinality(T) = Cardinality(T)
  BY DEF Again!Cardinality, Cardinality, Again!IsFiniteSet, IsFiniteSet
<1>2. Again!FirstOf(S) = {i \in S : Cardinality(Below(i)) < PageSize}
  BY <1>1 DEF Again!FirstOf
<1>3. S \in SUBSET Nat /\ IsFiniteSet(S)
  <2>1. IsFiniteSet(1 .. Images)
    BY FS_Interval
  <2>2. S \subseteq 1 .. Images
    BY DEF Again!Image
  <2>3. IsFiniteSet(S)
    BY <2>1, <2>2, FS_Subset
  <2>4. S \in SUBSET Nat
    BY <2>2
  <2> QED
    BY <2>3, <2>4
<1>4. ASSUME NEW i \in Again!FirstOf(S), NEW j \in S, j <= i
      PROVE  j \in Again!FirstOf(S)
  <2>1. i \in S /\ Cardinality(Below(i)) < PageSize
    BY <1>2
  <2>2. Below(j) \subseteq Below(i) /\ IsFiniteSet(Below(i))
    <3>1. Below(j) \subseteq Below(i)
      <4>1. ASSUME NEW k \in S, k < j
            PROVE  k < i
        <5>1. k \in Nat /\ j \in Nat /\ i \in Nat
          BY <1>3, <2>1
        <5> QED
          BY <1>4, <4>1, <5>1
      <4> QED
        BY <4>1
    <3>2. Below(i) \subseteq S
      OBVIOUS
    <3> QED
      BY <1>3, <3>1, <3>2, FS_Subset
  <2>3. /\ Cardinality(Below(j)) <= Cardinality(Below(i))
        /\ Cardinality(Below(j)) \in Nat /\ Cardinality(Below(i)) \in Nat
    BY <2>2, FS_Subset, FS_CardinalityType
  <2> QED
    BY <1>2, <2>1, <2>3
<1>5. ASSUME S # {}
      PROVE  Again!FirstOf(S) # {}
  <2>1. PICK x \in S : \A y \in S : x <= y
    BY <1>3, <1>5, HasLeast
  <2>2. Below(x) = {}
    <3>1. ASSUME NEW k \in S
          PROVE  ~ (k < x)
      <4>1. k \in Nat /\ x \in Nat /\ x <= k
        BY <1>3, <2>1
      <4> QED
        BY <4>1
    <3> QED
      BY <3>1
  <2>3. Cardinality(Below(x)) = 0
    BY <2>2, FS_EmptySet
  <2> QED
    BY <1>2, <2>1, <2>3
<1> QED
  BY <1>2, <1>4, <1>5

LEMMA HighestIsGreatest ==
    ASSUME NEW S \in SUBSET Again!Image, S # {}
    PROVE  Again!Highest(S) \in S /\ \A i \in S : i <= Again!Highest(S)
<1>1. S \in SUBSET (0 .. Images)
  BY ReembedConstants DEF Again!Image
<1>2. \E x \in S : \A y \in S : y <= x
  BY <1>1, ReembedConstants, HasGreatest
<1> QED
  BY <1>2 DEF Again!Highest

LEMMA ReembedStarts == Again!ReembedInit => ReembedInv
  BY ReembedConstants
     DEF Again!ReembedInit, ReembedInv, Again!ReembedTypeOK, Again!FlaggedIsSearchable,
         Again!RunCoversAll, Again!Resting, Again!Image

\* What a run owes is what lacks a vector when it begins.
LEMMA StartKeepsReembed ==
    ASSUME ReembedInv, Again!Start
    PROVE  ReembedInv'
<1>1. /\ owed' = thumbed \ vectored
      /\ step' = (IF owed' = {} THEN "finished" ELSE "page")
      /\ mark' = 0 /\ page' = {} /\ todo' = {} /\ items' = {} /\ skipped' = {}
      /\ UNCHANGED <<thumbed, onDisk, vectored, searchable, flagged, sending, mishaps>>
  BY DEF Again!Start, Again!tables
<1>2. \A i \in owed' : ~ (i <= mark')
  BY <1>1, ReembedConstants DEF ReembedInv, Again!Image
<1>3. Again!ReembedTypeOK'
  BY <1>1, ReembedConstants DEF ReembedInv, Again!ReembedTypeOK
<1> QED
  BY <1>1, <1>2, <1>3 DEF ReembedInv, Again!FlaggedIsSearchable, Again!RunCoversAll, Again!Resting, Again!Image

\* What a page leaves below it had its vector or was not owed.
LEMMA ReadPageKeepsReembed ==
    ASSUME ReembedInv, Again!ReadPage
    PROVE  ReembedInv'
<1>1. /\ step = "page" /\ page' = Again!FirstOf(Again!Ahead)
      /\ page' = {} => step' = "finished" /\ mark' = mark
      /\ page' # {} => step' = "missing" /\ mark' = Again!Highest(page')
      /\ UNCHANGED <<thumbed, onDisk, vectored, searchable, flagged, sending,
                     todo, items, skipped, owed, mishaps>>
  BY DEF Again!ReadPage, Again!NextMark, Again!tables
<1>2. /\ Again!Ahead = {i \in thumbed : i > mark} /\ Again!Ahead \in SUBSET Again!Image
      /\ thumbed \subseteq Again!Image /\ owed \subseteq thumbed /\ mark \in 0 .. Images
  BY DEF ReembedInv, Again!Ahead, Again!ReembedTypeOK
<1>3. /\ page' \subseteq Again!Ahead
      /\ \A i \in page' : \A j \in Again!Ahead : j <= i => j \in page'
      /\ Again!Ahead # {} => page' # {}
  BY <1>1, <1>2, FirstOfIsLow
<1>4. page' # {} => mark' \in page' /\ mark' \in 0 .. Images
  BY <1>1, <1>2, <1>3, HighestIsGreatest, ReembedConstants DEF Again!Image
<1>5. \A i \in owed : i <= mark => i \in vectored \cup skipped
  BY <1>1 DEF ReembedInv, InHand, Again!Resting
<1>6. \A i \in owed : i <= mark \/ i \in Again!Ahead
  BY <1>2 DEF Again!Image
<1>7. CASE page' = {}
  <2>1. Again!Ahead = {}
    BY <1>3, <1>7
  <2>2. owed \subseteq vectored \cup skipped
    BY <1>5, <1>6, <2>1
  <2> QED
    BY <1>1, <1>7, <2>2 DEF ReembedInv, Again!ReembedTypeOK, Again!FlaggedIsSearchable,
                            Again!RunCoversAll, Again!Resting
<1>8. CASE page' # {}
  <2>1. \A i \in owed : i <= mark' => i \in vectored \cup skipped \cup page'
    BY <1>3, <1>4, <1>5, <1>6, <1>8
  <2>2. Again!ReembedTypeOK'
    BY <1>1, <1>2, <1>3, <1>4, <1>8 DEF ReembedInv, Again!ReembedTypeOK
  <2> QED
    BY <1>1, <1>2, <1>3, <1>8, <2>1, <2>2
       DEF ReembedInv, Again!FlaggedIsSearchable, Again!RunCoversAll, Again!Resting, InHand
<1> QED
  BY <1>7, <1>8

LEMMA ReadMissingKeepsReembed ==
    ASSUME ReembedInv, Again!ReadMissing
    PROVE  ReembedInv'
<1>1. /\ step = "missing" /\ todo' = page \ vectored /\ page' = todo' /\ items' = {}
      /\ step' = IF todo' = {} THEN "page" ELSE "embed"
      /\ UNCHANGED <<thumbed, onDisk, vectored, searchable, flagged, sending,
                     mark, skipped, owed, mishaps>>
  BY DEF Again!ReadMissing, Again!NothingMissing, Again!tables
<1>2. \A i \in owed : i <= mark => i \in vectored \cup skipped \cup page
  BY <1>1 DEF ReembedInv, InHand, Again!Resting
<1>3. \A i \in owed' : i <= mark' => i \in (vectored \cup skipped \cup InHand)'
  BY <1>1, <1>2 DEF InHand
<1>4. Again!ReembedTypeOK'
  BY <1>1 DEF ReembedInv, Again!ReembedTypeOK
<1> QED
  BY <1>1, <1>3, <1>4
     DEF ReembedInv, Again!FlaggedIsSearchable, Again!RunCoversAll, Again!Resting

LEMMA EmbedKeepsReembed ==
    ASSUME ReembedInv, NEW i \in Again!Image, Again!Embed(i)
    PROVE  ReembedInv'
<1>1. /\ step = "embed" /\ i \in todo /\ todo' = todo \ {i}
      /\ \/ items' = items \cup {i} /\ UNCHANGED <<skipped, mishaps>>
         \/ skipped' = skipped \cup {i} /\ UNCHANGED <<items, mishaps>>
         \/ /\ mishaps < Mishaps /\ mishaps' = mishaps + 1
            /\ skipped' = skipped \cup {i} /\ UNCHANGED items
      /\ UNCHANGED <<thumbed, onDisk, vectored, searchable, flagged, sending,
                     step, mark, page, owed>>
  BY DEF Again!Embed, Again!tables
<1>2. \A j \in owed : j <= mark => j \in vectored \cup skipped \cup todo \cup items
  BY <1>1 DEF ReembedInv, InHand, Again!Resting
<1>3. \A j \in owed' : j <= mark' => j \in (vectored \cup skipped \cup InHand)'
  BY <1>1, <1>2 DEF InHand
<1>4. i \in thumbed
  BY <1>1 DEF ReembedInv, Again!ReembedTypeOK
<1>5. Again!ReembedTypeOK'
  BY <1>1, ReembedConstants DEF ReembedInv, Again!ReembedTypeOK
<1> QED
  BY <1>1, <1>3, <1>4, <1>5
     DEF ReembedInv, Again!FlaggedIsSearchable, Again!RunCoversAll, Again!Resting

LEMMA BatchKeepsReembed ==
    ASSUME ReembedInv, Again!BatchEmbedded \/ Again!SaveVectorBatch \/ Again!Upsert \/ Again!MarkIndexedBatch
    PROVE  ReembedInv'
<1>1. UNCHANGED <<thumbed, onDisk, sending, mark, page, todo, items, skipped, owed, mishaps>>
  BY DEF Again!BatchEmbedded, Again!SaveVectorBatch, Again!Upsert, Again!MarkIndexedBatch,
         Again!tables, Again!progress
<1>2. CASE Again!BatchEmbedded
  <2>1. /\ step = "embed" /\ todo = {} /\ step' = IF items = {} THEN "page" ELSE "save"
        /\ UNCHANGED <<vectored, searchable, flagged>>
    BY <1>2 DEF Again!BatchEmbedded, Again!tables
  <2>2. \A j \in owed' : j <= mark' => j \in (vectored \cup skipped \cup InHand)'
    BY <1>1, <2>1 DEF ReembedInv, InHand, Again!Resting
  <2> QED
    BY <1>1, <2>1, <2>2 DEF ReembedInv, Again!ReembedTypeOK, Again!FlaggedIsSearchable,
                            Again!RunCoversAll, Again!Resting
<1>3. CASE Again!SaveVectorBatch
  <2>1. /\ step = "save" /\ step' = "upsert" /\ vectored' = vectored \cup items
        /\ flagged' = flagged \ items /\ UNCHANGED searchable
    BY <1>3 DEF Again!SaveVectorBatch
  <2>2. \A j \in owed' : j <= mark' => j \in (vectored \cup skipped \cup InHand)'
    BY <1>1, <2>1 DEF ReembedInv, InHand, Again!Resting
  <2> QED
    BY <1>1, <2>1, <2>2 DEF ReembedInv, Again!ReembedTypeOK, Again!FlaggedIsSearchable,
                            Again!RunCoversAll, Again!Resting
<1>4. CASE Again!Upsert
  <2>1. /\ step = "upsert" /\ step' = "flag" /\ searchable' = searchable \cup items
        /\ UNCHANGED <<vectored, flagged>>
    BY <1>4 DEF Again!Upsert
  <2>2. \A j \in owed' : j <= mark' => j \in (vectored \cup skipped \cup InHand)'
    BY <1>1, <2>1 DEF ReembedInv, InHand, Again!Resting
  <2> QED
    BY <1>1, <2>1, <2>2 DEF ReembedInv, Again!ReembedTypeOK, Again!FlaggedIsSearchable,
                            Again!RunCoversAll, Again!Resting
<1>5. CASE Again!MarkIndexedBatch
  <2>1. /\ step = "flag" /\ step' = "page" /\ flagged' = flagged \cup (items \cap vectored)
        /\ UNCHANGED <<vectored, searchable>>
    BY <1>5 DEF Again!MarkIndexedBatch, Again!Flags
  <2>2. \A j \in owed' : j <= mark' => j \in (vectored \cup skipped \cup InHand)'
    BY <1>1, <2>1 DEF ReembedInv, InHand, Again!Resting
  <2> QED
    BY <1>1, <2>1, <2>2 DEF ReembedInv, Again!ReembedTypeOK, Again!FlaggedIsSearchable,
                            Again!RunCoversAll, Again!Resting
<1> QED
  BY <1>2, <1>3, <1>4, <1>5

\* Beside a run vectors and entries of the index only come, and marks come
\* with their entries.
LEMMA BesideKeepsReembed ==
    ASSUME ReembedInv,
           \/ Again!Interrupt \/ Again!Rebuild
           \/ \E i \in Again!Image : Again!Submit(i) \/ Again!SubmitEnds(i) \/ Again!FileLost(i)
    PROVE  ReembedInv'
<1>1. CASE Again!Interrupt
  BY <1>1, ReembedConstants
     DEF Again!Interrupt, Again!tables, Again!progress, ReembedInv, Again!ReembedTypeOK,
         Again!FlaggedIsSearchable, Again!RunCoversAll, Again!Resting
<1>2. CASE Again!Rebuild
  BY <1>2 DEF Again!Rebuild, Again!progress, ReembedInv, Again!ReembedTypeOK,
              Again!FlaggedIsSearchable, Again!RunCoversAll, Again!Resting
<1>3. ASSUME NEW i \in Again!Image, Again!Submit(i)
      PROVE  ReembedInv'
  <2>1. /\ thumbed' = thumbed \cup {i} /\ onDisk' = onDisk \cup {i}
        /\ \/ vectored' = vectored \cup {i} /\ sending' = sending \cup {i}
           \/ UNCHANGED <<vectored, sending>>
        /\ UNCHANGED <<searchable, flagged, step, mark, page, todo, items, skipped, owed, mishaps>>
    BY <1>3 DEF Again!Submit, Again!progress
  <2>2. InHand' = InHand
    BY <2>1 DEF InHand
  <2>3. Again!ReembedTypeOK'
    BY <2>1 DEF ReembedInv, Again!ReembedTypeOK
  <2> QED
    BY <2>1, <2>2, <2>3
       DEF ReembedInv, Again!FlaggedIsSearchable, Again!RunCoversAll, Again!Resting
<1>4. ASSUME NEW i \in Again!Image, Again!SubmitEnds(i)
      PROVE  ReembedInv'
  <2>1. /\ i \in sending /\ sending' = sending \ {i}
        /\ \/ searchable' = searchable \cup {i} /\ flagged' = flagged \cup {i} /\ UNCHANGED mishaps
           \/ mishaps < Mishaps /\ mishaps' = mishaps + 1 /\ UNCHANGED <<searchable, flagged>>
        /\ UNCHANGED <<thumbed, onDisk, vectored, step, mark, page, todo, items, skipped, owed>>
    BY <1>4 DEF Again!SubmitEnds, Again!progress
  <2>2. InHand' = InHand
    BY <2>1 DEF InHand
  <2>3. Again!ReembedTypeOK'
    BY <2>1, ReembedConstants DEF ReembedInv, Again!ReembedTypeOK
  <2> QED
    BY <2>1, <2>2, <2>3
       DEF ReembedInv, Again!FlaggedIsSearchable, Again!RunCoversAll, Again!Resting
<1>5. ASSUME NEW i \in Again!Image, Again!FileLost(i)
      PROVE  ReembedInv'
  <2>1. /\ onDisk' = onDisk \ {i} /\ mishaps < Mishaps /\ mishaps' = mishaps + 1
        /\ UNCHANGED <<thumbed, vectored, searchable, flagged, sending, step,
                       mark, page, todo, items, skipped, owed>>
    BY <1>5 DEF Again!FileLost, Again!progress
  <2>2. InHand' = InHand
    BY <2>1 DEF InHand
  <2>3. Again!ReembedTypeOK'
    BY <2>1, ReembedConstants DEF ReembedInv, Again!ReembedTypeOK
  <2> QED
    BY <2>1, <2>2, <2>3
       DEF ReembedInv, Again!FlaggedIsSearchable, Again!RunCoversAll, Again!Resting
<1> QED
  BY <1>1, <1>2, <1>3, <1>4, <1>5

LEMMA ReembedKeeps ==
    ASSUME ReembedInv, Again!ReembedNext \/ UNCHANGED reembed
    PROVE  ReembedInv'
<1>1. CASE UNCHANGED reembed
  BY <1>1 DEF reembed, ReembedInv, Again!ReembedTypeOK, Again!FlaggedIsSearchable,
              Again!RunCoversAll, Again!Resting, InHand
<1>2. CASE Again!ReembedNext
  BY <1>2, StartKeepsReembed, ReadPageKeepsReembed, ReadMissingKeepsReembed, EmbedKeepsReembed,
     BatchKeepsReembed, BesideKeepsReembed DEF Again!ReembedNext, Again!RunStep
<1> QED
  BY <1>1, <1>2

-----------------------------------------------------------------------------
(* Settings. *)

LEMMA SettingsConstants == Spans \subseteq Nat /\ MaxSaves \in Nat /\ MaxStarts \in Nat
  BY PartsAssumption DEF Settings!ConsoleAssumption

LEMMA TextsAreNoFiles ==
    /\ \A f \in Settings!File : f \notin Texts
    /\ \A c \in Settings!Config : c # Settings!Absent /\ c.key # Settings!Null
    /\ Settings!Absent \notin {Settings!Empty, Settings!Broken}
<1>1. \A f \in Settings!File : f.key \in {"none", "long", "null"}
  BY DEF Settings!File, Settings!Null
<1>2. \A c \in Settings!Config : c.key \in {"none", "long"}
  BY DEF Settings!Config
<1>3. /\ Settings!Absent.key = "absent" /\ Settings!Empty.key = "empty"
      /\ Settings!Broken.key = "broken" /\ Settings!Null = "null"
  BY DEF Settings!Absent, Settings!Empty, Settings!Broken, Settings!Null
<1>4. \A f \in Settings!File : f \notin Texts
  BY <1>1, <1>3 DEF Texts
<1>5. \A c \in Settings!Config : c # Settings!Absent /\ c.key # Settings!Null
  BY <1>2, <1>3
<1>6. Settings!Absent \notin {Settings!Empty, Settings!Broken}
  BY <1>3
<1> QED
  BY <1>4, <1>5, <1>6

\* A file without a null is the configuration it gives, whatever it is laid on.
LEMMA AppliedToAny ==
    ASSUME NEW f \in Settings!File, NEW c \in Settings!Config
    PROVE  /\ Settings!Applied(f, c) \in Settings!Config
           /\ f.key # Settings!Null => f \in Settings!Config /\ Settings!Applied(f, c) = f
<1>1. f = [bind |-> f.bind, key |-> f.key, beat |-> f.beat, timeout |-> f.timeout]
  BY DEF Settings!File
<1>2. /\ f.bind \in {"loopback", "localhost", "outside"}
      /\ f.key \in {"none", "long", Settings!Null}
      /\ f.beat \in Spans /\ f.timeout \in Spans /\ c.key \in {"none", "long"}
  BY DEF Settings!File, Settings!Config
<1>3. Settings!Applied(f, c) =
          [bind |-> f.bind, key |-> IF f.key = Settings!Null THEN c.key ELSE f.key,
           beat |-> f.beat, timeout |-> f.timeout]
  BY <1>1 DEF Settings!Applied
<1>4. Settings!Applied(f, c) \in Settings!Config
  BY <1>2, <1>3 DEF Settings!Config
<1>5. ASSUME f.key # Settings!Null
      PROVE  f \in Settings!Config /\ Settings!Applied(f, c) = f
  BY <1>1, <1>2, <1>3, <1>5 DEF Settings!Config
<1> QED
  BY <1>4, <1>5

\* What is accepted on one configuration is accepted on another,
LEMMA AcceptedIsStartable ==
    ASSUME NEW f \in Settings!File, NEW c \in Settings!Config, Settings!Accepts(f, c)
    PROVE  Startable(f)
<1> SUFFICES ASSUME f.key # Settings!Null, NEW d \in Settings!Config
             PROVE  Settings!Accepts(f, d)
  BY DEF Startable
<1>1. Settings!Applied(f, c) = f /\ Settings!Applied(f, d) = f
  BY AppliedToAny
<1> QED
  BY <1>1 DEF Settings!Accepts

\* and the process starts with it.
LEMMA StartableStarts ==
    ASSUME NEW f, Startable(f), f.key # Settings!Null, NEW c \in Settings!Config, Settings!Valid(c)
    PROVE  Settings!Starts(c, f)
<1>1. f \in Settings!File /\ Settings!Accepts(f, c)
  BY DEF Startable
<1>2. f # Settings!Absent /\ f \notin {Settings!Empty, Settings!Broken}
  BY <1>1, TextsAreNoFiles DEF Texts
<1>3. Settings!Servable(Settings!Applied(f, c))
  BY <1>1 DEF Settings!Accepts, Settings!Exposable, Settings!Servable
<1> QED
  BY <1>1, <1>2, <1>3 DEF Settings!Starts

LEMMA NoSaveIsIdle ==
    Settings!NoSave \in Save /\ Settings!NoSave.at = "idle"
  BY DEF Settings!NoSave, Save

LEMMA ConsoleStarts == Settings!ConsoleInit => SettingsInv
<1> SUFFICES ASSUME Settings!ConsoleInit PROVE SettingsInv
  OBVIOUS
<1>1. /\ dotenv \in Settings!Config /\ Settings!Starts(dotenv, Settings!Absent)
      /\ environ = dotenv /\ cfg = dotenv /\ process = "up" /\ wanted = dotenv
      /\ restarts = 0 /\ saves = 0 /\ starts = 0 /\ raced = FALSE /\ collided = FALSE
      /\ webFile = Settings!Absent /\ webTmp = Settings!Absent
      /\ webFd = [b \in Saver |-> "none"] /\ save = [b \in Saver |-> Settings!NoSave]
  BY DEF Settings!ConsoleInit, Settings!NoneOpen
<1>2. Settings!Valid(dotenv) /\ Settings!Servable(dotenv)
  BY <1>1 DEF Settings!Starts
<1>3. saves \in 0 .. MaxSaves /\ restarts \in Nat /\ starts \in 0 .. MaxStarts
  BY <1>1, SettingsConstants
<1>4. SettingsTypes
  BY <1>1, <1>2, <1>3, TextsAreNoFiles DEF SettingsTypes
<1>5. Settings!Writing = {} /\ save \in [Saver -> Save]
  BY <1>1, NoSaveIsIdle DEF Settings!Writing
<1>6. FilesStartable
  BY <1>1, <1>5 DEF FilesStartable, Texts
<1> QED
  BY <1>1, <1>4, <1>5, <1>6, TextsAreNoFiles DEF SettingsInv, OneSave, SavesAdd

\* One save moves, the others stay where they are.
LEMMA OneSaveMoves ==
    ASSUME SettingsInv, NEW b \in Saver, NEW r \in Save, save' = [save EXCEPT ![b] = r]
    PROVE  /\ save' \in [Saver -> Save] /\ save'[b] = r
           /\ \A q \in Saver : q # b => save'[q] = save[q]
           /\ Settings!Writing' = IF r.at # "idle" THEN Settings!Writing \cup {b}
                                  ELSE Settings!Writing \ {b}
<1>1. save \in [Saver -> Save]
  BY DEF SettingsInv, FilesStartable
<1>2. /\ save' \in [Saver -> Save] /\ save'[b] = r
      /\ \A q \in Saver : q # b => save'[q] = save[q]
  BY <1>1
<1> QED
  BY <1>2 DEF Settings!Writing

\* What a browser gives, and what a save leaves out.
LEMMA MergedIsFile ==
    ASSUME cfg \in Settings!Config, wanted \in Settings!Config,
           NEW given \in SUBSET Settings!Field, NEW input \in Settings!Inputs(given),
           NEW w, w = [f \in Settings!Field |->
               IF f \in given THEN input[f]
               ELSE IF webFile = Settings!Absent \/ raced THEN cfg[f] ELSE wanted[f]]
    PROVE  /\ input \in Settings!Config /\ w \in Settings!Config
           /\ Settings!Merged(given, input) \in Settings!Config
           /\ [Settings!Merged(given, input) EXCEPT !.key = Settings!Null] \in Settings!File
           /\ webFile = Settings!Absent \/ wanted = cfg => w = Settings!Merged(given, input)
<1> DEFINE file == Settings!Merged(given, input)
<1>1. input \in Settings!Config
  BY DEF Settings!Inputs, Settings!Config
<1>2. file = [bind |-> IF "bind" \in given THEN input.bind ELSE cfg.bind,
              key |-> IF "key" \in given THEN input.key ELSE cfg.key,
              beat |-> IF "beat" \in given THEN input.beat ELSE cfg.beat,
              timeout |-> IF "timeout" \in given THEN input.timeout ELSE cfg.timeout]
  BY DEF Settings!Merged, Settings!Base, Settings!Field
<1>3. file \in Settings!Config
  BY <1>1, <1>2 DEF Settings!Config
<1>4. [file EXCEPT !.key = Settings!Null] \in Settings!File
  BY <1>3 DEF Settings!Config, Settings!File
<1>5. w \in Settings!Config
  <2> DEFINE v(f) == IF f \in given THEN input[f]
                     ELSE IF webFile = Settings!Absent \/ raced THEN cfg[f] ELSE wanted[f]
  <2>1. w = [bind |-> v("bind"), key |-> v("key"), beat |-> v("beat"), timeout |-> v("timeout")]
    BY DEF Settings!Field
  <2>2. /\ v("bind") \in {"loopback", "localhost", "outside"} /\ v("key") \in {"none", "long"}
        /\ v("beat") \in Spans /\ v("timeout") \in Spans
    BY <1>1 DEF Settings!Config
  <2> QED
    BY <2>1, <2>2 DEF Settings!Config
<1>6. webFile = Settings!Absent \/ wanted = cfg => w = file
  BY DEF Settings!Merged, Settings!Base
<1> QED
  BY <1>1, <1>3, <1>4, <1>5, <1>6

\* A save opens the file: of a text the process starts with, which adds to the
\* saves before.
LEMMA OpenTmpKeepsSettings ==
    ASSUME SettingsInv, NEW b \in Saver, NEW given \in SUBSET Settings!Field,
           NEW input \in Settings!Inputs(given), NEW noKey \in BOOLEAN,
           Settings!OpenTmp(b, given, input, noKey)
    PROVE  SettingsInv'
<1>1. PICK file, want :
         /\ file = IF noKey THEN [Settings!Merged(given, input) EXCEPT !.key = Settings!Null]
                   ELSE Settings!Merged(given, input)
         /\ want = [f \in Settings!Field |->
                       IF f \in given THEN input[f]
                       ELSE IF webFile = Settings!Absent \/ raced THEN cfg[f] ELSE wanted[f]]
         /\ save' = [save EXCEPT ![b] = [at |-> "write", file |-> file, want |-> want]]
         /\ Settings!Accepts(file, cfg)
  BY DEF Settings!OpenTmp, Settings!Tried
<1>2. /\ process = "up" /\ saves < MaxSaves /\ saves' = saves + 1 /\ save[b].at = "idle"
      /\ webTmp' = Settings!Empty /\ webFd' = [webFd EXCEPT ![b] = "tmp"]
      /\ raced' = (raced \/ Settings!Writing # {})
      /\ collided' = (collided \/ Settings!Writing # {})
      /\ UNCHANGED <<dotenv, environ, webFile, cfg, process, restarts, starts, wanted>>
  BY DEF Settings!OpenTmp
<1>3. /\ SettingsTypes /\ FilesStartable /\ (collided \/ OneSave) /\ (raced \/ SavesAdd)
      /\ cfg \in Settings!Config /\ wanted \in Settings!Config
  BY DEF SettingsInv, SettingsTypes
<1>4. /\ want \in Settings!Config /\ file \in Settings!File
      /\ noKey => file.key = Settings!Null
      /\ ~ noKey /\ (webFile = Settings!Absent \/ wanted = cfg) => want = file
  <2>1. /\ want \in Settings!Config /\ Settings!Merged(given, input) \in Settings!Config
        /\ [Settings!Merged(given, input) EXCEPT !.key = Settings!Null] \in Settings!File
        /\ webFile = Settings!Absent \/ wanted = cfg => want = Settings!Merged(given, input)
    BY <1>1, <1>3, MergedIsFile
  <2>2. Settings!Merged(given, input) \in Settings!File
    BY <2>1 DEF Settings!Config, Settings!File
  <2>3. [Settings!Merged(given, input) EXCEPT !.key = Settings!Null].key = Settings!Null
    BY <2>1 DEF Settings!Config
  <2> QED
    BY <1>1, <2>1, <2>2, <2>3
<1>5. PICK r \in Save : /\ save' = [save EXCEPT ![b] = r] /\ r.at = "write"
                        /\ r.file = file /\ r.want = want
  <2>1. [at |-> "write", file |-> file, want |-> want] \in Save
    BY <1>4 DEF Save
  <2> QED
    BY <1>1, <2>1
<1>6. /\ save' \in [Saver -> Save] /\ save'[b] = r
      /\ \A q \in Saver : q # b => save'[q] = save[q]
      /\ Settings!Writing' = Settings!Writing \cup {b}
  BY <1>5, OneSaveMoves
<1>7. SettingsTypes'
  <2>1. saves' \in 0 .. MaxSaves /\ raced' \in BOOLEAN /\ collided' \in BOOLEAN
    BY <1>2, <1>3, SettingsConstants DEF SettingsTypes
  <2> QED
    BY <1>2, <1>3, <2>1 DEF SettingsTypes
<1>8. FilesStartable'
  <2>1. Startable(file)
    BY <1>1, <1>3, <1>4, AcceptedIsStartable
  <2>2. \A q \in Settings!Writing' :
            process' = "up" /\ Startable(save'[q].file) /\ save'[q].want \in Settings!Config
    BY <1>2, <1>3, <1>4, <1>5, <1>6, <2>1 DEF FilesStartable
  <2>3. webFd' \in [Saver -> {"tmp", "file", "none"}]
    BY <1>2, <1>3 DEF FilesStartable
  <2> QED
    BY <1>2, <1>3, <1>6, <2>2, <2>3 DEF FilesStartable, Texts
<1>9. ASSUME ~ collided'
      PROVE  OneSave'
  <2>1. OneSave /\ Settings!Writing' = {b} /\ webFd'[b] = "tmp"
    BY <1>2, <1>3, <1>6, <1>9 DEF FilesStartable
  <2> QED
    BY <1>2, <1>5, <1>6, <2>1 DEF OneSave
<1>10. ASSUME ~ raced'
       PROVE  SavesAdd'
  <2>1. SavesAdd /\ Settings!Writing' = {b}
    BY <1>2, <1>3, <1>6, <1>10
  <2>2. ASSUME ~ noKey, Settings!Loaded(environ, webFile) = cfg, webFile # Settings!Absent
        PROVE  wanted = cfg
    <3>1. webFile = wanted
      BY <2>1, <2>2 DEF SavesAdd
    <3>2. PICK e \in Settings!Config : e = environ
      BY <1>2, <1>3 DEF SettingsTypes
    <3>3. webFile \in Settings!File /\ webFile.key # Settings!Null
      BY <1>3, <3>1, TextsAreNoFiles DEF Settings!Config, Settings!File
    <3>4. Settings!Applied(webFile, e) = webFile
      BY <3>3, AppliedToAny
    <3> QED
      BY <2>2, <3>1, <3>2, <3>4 DEF Settings!Loaded
  <2>3. file.key = Settings!Null \/ Settings!Loaded(environ, webFile) # cfg \/ want = file
    BY <1>4, <2>2
  <2> QED
    BY <1>2, <1>5, <1>6, <1>10, <2>1, <2>3 DEF SavesAdd
<1> QED
  BY <1>7, <1>8, <1>9, <1>10 DEF SettingsInv

\* It is written: alone with the file, the save leaves its text in the temporary one.
LEMMA WriteTmpKeepsSettings ==
    ASSUME SettingsInv, NEW b \in Saver, Settings!WriteTmp(b)
    PROVE  SettingsInv'
<1>1. /\ save[b].at = "write"
      /\ \/ Settings!Write(b, TRUE) /\ save' = [save EXCEPT ![b].at = "rename"]
         \/ Settings!Write(b, FALSE) /\ save' = [save EXCEPT ![b] = Settings!NoSave]
      /\ starts' = starts \/ (starts < MaxStarts /\ starts' = starts + 1)
      /\ UNCHANGED <<dotenv, environ, cfg, process, restarts, saves, wanted, raced, collided>>
  BY DEF Settings!WriteTmp, Settings!AfterFailedWrite, Settings!Fails
<1>2. /\ SettingsTypes /\ FilesStartable /\ (collided \/ OneSave) /\ (raced \/ SavesAdd)
      /\ save \in [Saver -> Save] /\ save[b] \in Save
      /\ webFd \in [Saver -> {"tmp", "file", "none"}] /\ b \in Settings!Writing
  BY <1>1 DEF SettingsInv, FilesStartable, Settings!Writing
<1>3. PICK r \in Save : /\ save' = [save EXCEPT ![b] = r] /\ r.at \in {"rename", "idle"}
                        /\ r.at = "rename" => /\ r.file = save[b].file /\ r.want = save[b].want
                                              /\ Settings!Write(b, TRUE)
  <2>1. CASE Settings!Write(b, TRUE) /\ save' = [save EXCEPT ![b].at = "rename"]
    <3>1. [save[b] EXCEPT !.at = "rename"] \in Save
      BY <1>2 DEF Save
    <3>2. /\ [save[b] EXCEPT !.at = "rename"].at = "rename"
          /\ [save[b] EXCEPT !.at = "rename"].file = save[b].file
          /\ [save[b] EXCEPT !.at = "rename"].want = save[b].want
      BY <1>2 DEF Save
    <3> QED
      BY <2>1, <3>1, <3>2
  <2>2. CASE save' = [save EXCEPT ![b] = Settings!NoSave]
    BY <2>2, NoSaveIsIdle
  <2> QED
    BY <1>1, <2>1, <2>2
<1>4. /\ save' \in [Saver -> Save] /\ save'[b] = r
      /\ \A q \in Saver : q # b => save'[q] = save[q]
      /\ Settings!Writing' = IF r.at = "rename" THEN Settings!Writing ELSE Settings!Writing \ {b}
  <2>1. Settings!Writing' = IF r.at # "idle" THEN Settings!Writing \cup {b}
                            ELSE Settings!Writing \ {b}
    BY <1>3, OneSaveMoves
  <2>2. Settings!Writing \cup {b} = Settings!Writing
    BY <1>2
  <2> QED
    BY <1>3, <2>1, <2>2, OneSaveMoves
<1>5. /\ webTmp' \in {webTmp, save[b].file, Settings!Broken}
      /\ webFile' \in {webFile, save[b].file, Settings!Broken}
      /\ webFd[b] # "file" => webFile' = webFile
      /\ webFd' = [webFd EXCEPT ![b] = "none"]
  BY <1>1 DEF Settings!Write, Settings!Written
<1>6. SettingsTypes'
  <2>1. starts' \in 0 .. MaxStarts
    BY <1>1, <1>2, SettingsConstants DEF SettingsTypes
  <2> QED
    BY <1>1, <1>2, <2>1 DEF SettingsTypes
<1>7. FilesStartable'
  <2>1. Startable(save[b].file) /\ Settings!Broken \in Texts
    BY <1>2 DEF FilesStartable, Texts
  <2>2. \A text \in {webFile, webTmp, save[b].file, Settings!Broken} :
            text \in Texts \/ Startable(text)
    BY <1>2, <2>1 DEF FilesStartable
  <2>3. \A q \in Settings!Writing' :
            process' = "up" /\ Startable(save'[q].file) /\ save'[q].want \in Settings!Config
    <3>1. \A q \in Settings!Writing :
              process = "up" /\ Startable(save[q].file) /\ save[q].want \in Settings!Config
      BY <1>2 DEF FilesStartable
    <3>2. TAKE q \in Settings!Writing'
    <3>3. /\ q \in Settings!Writing /\ q \in Saver
          /\ save'[q].file = save[q].file /\ save'[q].want = save[q].want
      BY <1>3, <1>4 DEF Settings!Writing
    <3> QED
      BY <1>1, <3>1, <3>3
  <2>4. webFd' \in [Saver -> {"tmp", "file", "none"}]
    BY <1>2, <1>5
  <2> QED
    BY <1>4, <1>5, <2>2, <2>3, <2>4 DEF FilesStartable
<1>8. ASSUME ~ collided
      PROVE  OneSave' /\ webFile' = webFile /\ Settings!Writing = {b}
  <2>1. /\ OneSave /\ Settings!Writing = {b} /\ webFd[b] = "tmp" /\ webTmp = Settings!Empty
    BY <1>1, <1>2, <1>8 DEF OneSave
  <2>2. webFile' = webFile
    BY <1>5, <2>1
  <2>3. r.at = "rename" => webTmp' = save[b].file
    BY <1>3, <2>1 DEF Settings!Write, Settings!Written
  <2> QED
    BY <1>1, <1>3, <1>4, <2>1, <2>2, <2>3 DEF OneSave
<1>9. ASSUME ~ raced
      PROVE  SavesAdd'
  <2>1. SavesAdd /\ ~ collided
    BY <1>2, <1>9 DEF SavesAdd
  <2>2. webFile' = webFile /\ Settings!Writing = {b}
    BY <1>8, <2>1
  <2>3. \A q \in Settings!Writing' : q = b /\ r.at = "rename"
    BY <1>4, <2>2
  <2> QED
    BY <1>1, <1>2, <1>3, <1>4, <2>1, <2>2, <2>3 DEF SavesAdd
<1> QED
  BY <1>1, <1>6, <1>7, <1>8, <1>9 DEF SettingsInv

\* It is renamed: what the save writes is what the accepted ones amount to.
LEMMA RenameKeepsSettings ==
    ASSUME SettingsInv, NEW b \in Saver, Settings!Rename(b)
    PROVE  SettingsInv'
<1>1. /\ save[b].at = "rename" /\ webFile' = webTmp /\ webTmp' = Settings!Absent
      /\ webFd' = [q \in Saver |-> IF webFd[q] = "tmp" THEN "file" ELSE "none"]
      /\ save' = [save EXCEPT ![b] = Settings!NoSave]
      /\ raced' = \/ raced \/ save[b].file.key = Settings!Null
                  \/ Settings!Loaded(environ, webFile) # cfg
      /\ wanted' = IF raced' THEN wanted ELSE save[b].want
      /\ restarts' = restarts + 1
      /\ UNCHANGED <<dotenv, environ, cfg, process, saves, starts, collided>>
  BY DEF Settings!Rename
<1>2. /\ SettingsTypes /\ FilesStartable /\ (collided \/ OneSave) /\ (raced \/ SavesAdd)
      /\ b \in Settings!Writing /\ raced \in BOOLEAN
  BY <1>1 DEF SettingsInv, SettingsTypes, Settings!Writing
<1>3. /\ save' \in [Saver -> Save] /\ Settings!Writing' = Settings!Writing \ {b}
      /\ \A q \in Saver : q # b => save'[q] = save[q]
  BY <1>1, NoSaveIsIdle, OneSaveMoves
<1>4. Startable(save[b].file) /\ save[b].want \in Settings!Config /\ process = "up"
  BY <1>2 DEF FilesStartable
<1>5. SettingsTypes'
  <2>1. wanted' \in Settings!Config /\ raced' \in BOOLEAN /\ restarts' \in Nat
    BY <1>1, <1>2, <1>4 DEF SettingsTypes
  <2> QED
    BY <1>1, <1>2, <2>1 DEF SettingsTypes
<1>6. FilesStartable'
  BY <1>1, <1>2, <1>3 DEF FilesStartable, Texts, Settings!Writing
<1>7. ASSUME ~ collided
      PROVE  OneSave' /\ webFile' = save[b].file /\ Settings!Writing' = {}
  <2>1. webTmp = save[b].file /\ Settings!Writing = {b}
    BY <1>1, <1>2, <1>7 DEF OneSave
  <2>2. webFile' \in Settings!File
    BY <1>1, <1>4, <2>1 DEF Startable
  <2>3. webFile' \notin {Settings!Empty, Settings!Broken}
    BY <2>2, TextsAreNoFiles DEF Texts
  <2> QED
    BY <1>1, <1>3, <1>4, <2>1, <2>3 DEF OneSave
<1>8. ASSUME ~ raced'
      PROVE  SavesAdd'
  <2>1. /\ SavesAdd /\ ~ collided
        /\ save[b].file.key # Settings!Null /\ Settings!Loaded(environ, webFile) = cfg
    BY <1>1, <1>2, <1>8 DEF SavesAdd
  <2>2. save[b].want = save[b].file
    BY <1>2, <2>1 DEF SavesAdd
  <2>3. wanted' = webFile' /\ Settings!Writing' = {}
    BY <1>1, <1>7, <1>8, <2>1, <2>2
  <2> QED
    BY <1>1, <2>1, <2>3 DEF SavesAdd
<1> QED
  BY <1>1, <1>5, <1>6, <1>7, <1>8 DEF SettingsInv

\* A save that gives up, before the rename or because of it.
LEMMA GivesUpKeepsSettings ==
    ASSUME SettingsInv, NEW b \in Saver, Settings!RenameFails(b) \/ Settings!RemoveTmp(b)
    PROVE  SettingsInv'
<1>1. /\ save[b].at \in {"rename", "remove"} /\ webTmp' \in {webTmp, Settings!Absent}
      /\ \/ webFd' = webFd
         \/ webFd' = [q \in Saver |-> IF webFd[q] = "tmp" THEN "none" ELSE webFd[q]]
      /\ \/ save' = [save EXCEPT ![b].at = "remove"]
         \/ save' = [save EXCEPT ![b] = Settings!NoSave]
      /\ starts' = starts \/ (starts < MaxStarts /\ starts' = starts + 1)
      /\ UNCHANGED <<dotenv, environ, webFile, cfg, process, restarts, saves>>
      /\ UNCHANGED <<wanted, raced, collided>>
  BY DEF Settings!RenameFails, Settings!RemoveTmp, Settings!Fails, Settings!files
<1>2. /\ SettingsTypes /\ FilesStartable /\ (collided \/ OneSave) /\ (raced \/ SavesAdd)
      /\ save \in [Saver -> Save] /\ save[b] \in Save
      /\ webFd \in [Saver -> {"tmp", "file", "none"}] /\ b \in Settings!Writing
  BY <1>1 DEF SettingsInv, FilesStartable, Settings!Writing
<1>3. PICK r \in Save : /\ save' = [save EXCEPT ![b] = r] /\ r.at \in {"remove", "idle"}
                        /\ r.at = "remove" => r.file = save[b].file /\ r.want = save[b].want
  <2>1. [save[b] EXCEPT !.at = "remove"] \in Save
    BY <1>2 DEF Save
  <2>2. /\ [save[b] EXCEPT !.at = "remove"].at = "remove"
        /\ [save[b] EXCEPT !.at = "remove"].file = save[b].file
        /\ [save[b] EXCEPT !.at = "remove"].want = save[b].want
    BY <1>2 DEF Save
  <2> QED
    BY <1>1, <2>1, <2>2, NoSaveIsIdle
<1>4. /\ save' \in [Saver -> Save] /\ save'[b] = r
      /\ \A q \in Saver : q # b => save'[q] = save[q]
      /\ Settings!Writing' = IF r.at = "remove" THEN Settings!Writing ELSE Settings!Writing \ {b}
  <2>1. Settings!Writing' = IF r.at # "idle" THEN Settings!Writing \cup {b}
                            ELSE Settings!Writing \ {b}
    BY <1>3, OneSaveMoves
  <2>2. Settings!Writing \cup {b} = Settings!Writing
    BY <1>2
  <2> QED
    BY <1>3, <2>1, <2>2, OneSaveMoves
<1>5. SettingsTypes'
  <2>1. starts' \in 0 .. MaxStarts
    BY <1>1, <1>2, SettingsConstants DEF SettingsTypes
  <2> QED
    BY <1>1, <1>2, <2>1 DEF SettingsTypes
<1>6. FilesStartable'
  <2>1. \A q \in Settings!Writing' :
            process' = "up" /\ Startable(save'[q].file) /\ save'[q].want \in Settings!Config
    <3>1. \A q \in Settings!Writing :
              process = "up" /\ Startable(save[q].file) /\ save[q].want \in Settings!Config
      BY <1>2 DEF FilesStartable
    <3>2. TAKE q \in Settings!Writing'
    <3>3. /\ q \in Settings!Writing /\ q \in Saver
          /\ save'[q].file = save[q].file /\ save'[q].want = save[q].want
      BY <1>3, <1>4 DEF Settings!Writing
    <3> QED
      BY <1>1, <3>1, <3>3
  <2>2. webFd' \in [Saver -> {"tmp", "file", "none"}]
    BY <1>1, <1>2
  <2> QED
    BY <1>1, <1>2, <1>4, <2>1, <2>2 DEF FilesStartable, Texts
<1>7. ASSUME ~ collided
      PROVE  OneSave' /\ Settings!Writing = {b}
  <2>1. OneSave /\ Settings!Writing = {b}
    BY <1>2, <1>7 DEF OneSave
  <2>2. \A q \in Settings!Writing' : q = b /\ r.at = "remove" /\ Settings!Writing' = {b}
    BY <1>4, <2>1
  <2> QED
    BY <1>1, <1>4, <2>1, <2>2 DEF OneSave
<1>8. ASSUME ~ raced
      PROVE  SavesAdd'
  <2>1. SavesAdd /\ Settings!Writing = {b}
    BY <1>2, <1>7, <1>8 DEF SavesAdd
  <2>2. \A q \in Settings!Writing' : q = b /\ r.at = "remove"
    BY <1>4, <2>1
  <2> QED
    BY <1>1, <1>2, <1>3, <1>4, <2>1, <2>2 DEF SavesAdd
<1> QED
  BY <1>1, <1>5, <1>6, <1>7, <1>8 DEF SettingsInv

\* The saves of a process end with it.
LEMMA ForgottenSaves ==
    ASSUME Settings!Forgotten
    PROVE  /\ save' \in [Saver -> Save] /\ webFd' \in [Saver -> {"tmp", "file", "none"}]
           /\ Settings!Writing' = {}
  BY NoSaveIsIdle DEF Settings!Forgotten, Settings!NoneOpen, Settings!Writing

\* A start reads what it starts with, and is refused only for a null, or after
\* saves that met.
LEMMA BootKeepsSettings ==
    ASSUME SettingsInv, Settings!Boot
    PROVE  SettingsInv'
<1>1. /\ starts < MaxStarts /\ starts' = starts + 1 /\ restarts' = 0
      /\ environ' = IF environ = Settings!Absent THEN dotenv ELSE environ
      /\ \/ /\ Settings!Starts(environ', webFile) /\ process' = "up" /\ collided' = FALSE
            /\ cfg' = Settings!Loaded(environ', webFile)
         \/ /\ ~ Settings!Starts(environ', webFile) /\ process' = "refused"
            /\ cfg' = cfg /\ collided' = collided
      /\ UNCHANGED <<dotenv, webFile, webTmp, saves, wanted, raced>>
  BY DEF Settings!Boot, Settings!Environ
<1>2. /\ save' \in [Saver -> Save] /\ webFd' \in [Saver -> {"tmp", "file", "none"}]
      /\ Settings!Writing' = {}
  BY ForgottenSaves DEF Settings!Boot
<1>3. SettingsTypes /\ FilesStartable /\ (collided \/ OneSave) /\ (raced \/ SavesAdd)
  BY DEF SettingsInv
<1>4. PICK e \in Settings!Config : e = environ' /\ Settings!Starts(e, Settings!Absent)
  BY <1>1, <1>3 DEF SettingsTypes
<1>5. Settings!Valid(e)
  BY <1>4 DEF Settings!Starts
<1>6. ASSUME Settings!Starts(e, webFile)
      PROVE  /\ webFile \notin {Settings!Empty, Settings!Broken}
             /\ Settings!Loaded(e, webFile) \in Settings!Config
             /\ Settings!Valid(Settings!Loaded(e, webFile))
             /\ Settings!Servable(Settings!Loaded(e, webFile))
  <2>1. CASE webFile = Settings!Absent
    BY <1>6, <2>1, TextsAreNoFiles DEF Settings!Starts, Settings!Loaded
  <2>2. CASE webFile # Settings!Absent
    <3>1. webFile \notin {Settings!Empty, Settings!Broken}
      BY <1>6, <2>2 DEF Settings!Starts
    <3>2. webFile \in Settings!File
      BY <1>3, <2>2, <3>1 DEF FilesStartable, Texts, Startable
    <3>3. Settings!Applied(webFile, e) \in Settings!Config
      BY <3>2, AppliedToAny
    <3> QED
      BY <1>6, <2>2, <3>1, <3>3 DEF Settings!Starts, Settings!Loaded, Settings!Accepts
  <2> QED
    BY <2>1, <2>2
<1>7. ASSUME ~ Settings!Starts(e, webFile), ~ collided
      PROVE  webFile # Settings!Absent /\ webFile.key = Settings!Null
  <2>1. webFile # Settings!Absent
    BY <1>4, <1>7
  <2>2. Startable(webFile)
    BY <1>3, <1>7, <2>1 DEF FilesStartable, OneSave, Texts
  <2> QED
    BY <1>5, <1>7, <2>1, <2>2, StartableStarts
<1>8. SettingsTypes'
  <2>1. starts' \in 0 .. MaxStarts /\ restarts' \in Nat
    BY <1>1, <1>3, SettingsConstants DEF SettingsTypes
  <2>2. environ' \in Settings!Config /\ Settings!Starts(environ', Settings!Absent)
        /\ environ' # Settings!Absent
    BY <1>4, TextsAreNoFiles
  <2>3. /\ cfg' \in Settings!Config /\ process' \in {"up", "refused"} /\ collided' \in BOOLEAN
        /\ process' = "up" => Settings!Valid(cfg') /\ Settings!Servable(cfg')
    <3>1. CASE Settings!Starts(e, webFile)
      BY <1>1, <1>4, <1>6, <3>1
    <3>2. CASE ~ Settings!Starts(e, webFile)
      BY <1>1, <1>3, <1>4, <3>2 DEF SettingsTypes
    <3> QED
      BY <3>1, <3>2
  <2> QED
    BY <1>1, <1>3, <2>1, <2>2, <2>3 DEF SettingsTypes
<1>9. FilesStartable'
  BY <1>1, <1>2, <1>3 DEF FilesStartable
<1>10. collided' \/ OneSave'
  <2>1. CASE Settings!Starts(e, webFile)
    BY <1>1, <1>2, <1>4, <1>6, <2>1 DEF OneSave
  <2>2. CASE ~ Settings!Starts(e, webFile)
    BY <1>1, <1>2, <1>3, <1>4, <1>7, <2>2 DEF OneSave
  <2> QED
    BY <2>1, <2>2
<1>11. raced' \/ SavesAdd'
  BY <1>1, <1>2, <1>3 DEF SavesAdd
<1> QED
  BY <1>8, <1>9, <1>10, <1>11 DEF SettingsInv

LEMMA ExitKeepsSettings ==
    ASSUME SettingsInv, Settings!Exit
    PROVE  SettingsInv'
<1>1. /\ process' = "down" /\ environ' = Settings!Absent /\ restarts' = 0
      /\ UNCHANGED <<dotenv, webFile, webTmp, cfg, saves, starts, wanted, raced, collided>>
  BY DEF Settings!Exit
<1>2. /\ save' \in [Saver -> Save] /\ webFd' \in [Saver -> {"tmp", "file", "none"}]
      /\ Settings!Writing' = {}
  BY ForgottenSaves DEF Settings!Exit
<1>3. SettingsTypes'
  BY <1>1 DEF SettingsInv, SettingsTypes
<1>4. FilesStartable'
  BY <1>1, <1>2 DEF SettingsInv, FilesStartable
<1> QED
  BY <1>1, <1>2, <1>3, <1>4 DEF SettingsInv, OneSave, SavesAdd

\* A new .env, and a restart that fails.
LEMMA BesideKeepsSettings ==
    ASSUME SettingsInv,
           UNCHANGED <<environ, webFile, webTmp, webFd, save, cfg, process, saves>>,
           UNCHANGED <<wanted, raced, collided>>,
           \/ Settings!EditDotEnv
           \/ restarts' = restarts - 1 /\ restarts > 0 /\ UNCHANGED <<dotenv, starts>>
           \/ UNCHANGED <<dotenv, restarts, starts>>
    PROVE  SettingsInv'
<1>1. SettingsTypes /\ FilesStartable /\ (collided \/ OneSave) /\ (raced \/ SavesAdd)
  BY DEF SettingsInv
<1>2. dotenv' \in Settings!Config /\ Settings!Starts(dotenv', Settings!Absent)
  BY <1>1 DEF SettingsTypes, Settings!EditDotEnv
<1>3. restarts' \in Nat /\ starts' \in 0 .. MaxStarts
  BY <1>1, SettingsConstants DEF SettingsTypes, Settings!EditDotEnv
<1>4. SettingsTypes'
  BY <1>1, <1>2, <1>3 DEF SettingsTypes
<1>5. Settings!Writing' = Settings!Writing
  BY DEF Settings!Writing
<1>6. FilesStartable'
  BY <1>1, <1>5 DEF FilesStartable
<1>7. OneSave => OneSave'
  BY <1>5 DEF OneSave
<1>8. SavesAdd => SavesAdd'
  BY <1>5 DEF SavesAdd
<1> QED
  BY <1>1, <1>4, <1>6, <1>7, <1>8 DEF SettingsInv

LEMMA ConsoleKeeps ==
    ASSUME SettingsInv, Settings!ConsoleNext \/ UNCHANGED settings
    PROVE  SettingsInv'
<1>1. CASE UNCHANGED settings
  BY <1>1, BesideKeepsSettings DEF settings
<1>2. ASSUME NEW b \in Saver, Settings!SaveStep(b)
      PROVE  SettingsInv'
  BY <1>2, WriteTmpKeepsSettings, RenameKeepsSettings, GivesUpKeepsSettings DEF Settings!SaveStep
<1>3. ASSUME NEW b \in Saver, NEW given \in SUBSET Settings!Field, NEW noKey \in BOOLEAN,
             NEW input \in Settings!Inputs(given), Settings!OpenTmp(b, given, input, noKey)
      PROVE  SettingsInv'
  BY <1>3, OpenTmpKeepsSettings
<1>4. CASE Settings!Restart
  <2>1. \/ Settings!Boot
        \/ /\ restarts' = restarts - 1 /\ restarts > 0
           /\ UNCHANGED <<environ, webFile, webTmp, webFd, save, cfg, process, saves>>
           /\ UNCHANGED <<wanted, raced, collided>> /\ UNCHANGED <<dotenv, starts>>
    BY <1>4 DEF Settings!Restart, Settings!files
  <2> QED
    BY <2>1, BootKeepsSettings, BesideKeepsSettings
<1>5. CASE Settings!Exit
  BY <1>5, ExitKeepsSettings
<1>6. CASE Settings!StartAgain
  BY <1>6, BootKeepsSettings DEF Settings!StartAgain
<1>7. CASE Settings!EditDotEnv
  <2>1. /\ UNCHANGED <<environ, webFile, webTmp, webFd, save, cfg, process, saves>>
        /\ UNCHANGED <<wanted, raced, collided>>
    BY <1>7 DEF Settings!EditDotEnv, Settings!files
  <2> QED
    BY <1>7, <2>1, BesideKeepsSettings
<1> QED
  BY <1>1, <1>2, <1>3, <1>4, <1>5, <1>6, <1>7 DEF Settings!ConsoleNext

LEMMA SettingsHoldThen ==
    ASSUME SettingsInv
    PROVE  Settings!ConsoleTypeOK /\ Settings!SavedSettingsStart /\ Settings!SavesBuildUp
<1>1. SettingsTypes /\ FilesStartable /\ (collided \/ OneSave) /\ (raced \/ SavesAdd)
  BY DEF SettingsInv
<1>2. Settings!SavedSettingsStart
  BY <1>1 DEF OneSave, Settings!SavedSettingsStart
<1>3. Settings!SavesBuildUp
  BY <1>1 DEF SavesAdd, Settings!SavesBuildUp
<1>4. Settings!ConsoleTypeOK
  <2>1. {webFile, webTmp} \subseteq
            Settings!File \cup {Settings!Absent, Settings!Empty, Settings!Broken}
    BY <1>1 DEF FilesStartable, Texts, Startable
  <2>2. environ \in Settings!Config \cup {Settings!Absent}
    BY <1>1 DEF SettingsTypes
  <2> QED
    BY <1>1, <2>1, <2>2 DEF SettingsTypes, Settings!ConsoleTypeOK
<1> QED
  BY <1>2, <1>3, <1>4

-----------------------------------------------------------------------------
(* Jobs: they leave the settings alone, and end with the process. *)

LEMMA JobsStart == Work!JobsInit => JobsInv
  BY DEF Work!JobsInit, JobsInv

LEMMA JobsKeep ==
    ASSUME JobsInv, Work!JobsNext \/ UNCHANGED jobs
    PROVE  JobsInv'
<1>1. CASE UNCHANGED jobs
  BY <1>1 DEF jobs, JobsInv
<1>2. CASE Work!ProcessEnds
  BY <1>2 DEF Work!ProcessEnds, JobsInv
<1>3. ASSUME NEW j \in Jobs, Work!StartJob(j)
      PROVE  JobsInv'
  <2>1. atWork = {} /\ job' = j /\ atWork' = atWork \cup {j}
    BY <1>3 DEF Work!StartJob, Work!Idle, JobsInv
  <2>2. atWork' = {j} /\ j # "none"
    BY <2>1, PartsAssumption DEF Work!JobsAssumption
  <2> QED
    BY <2>1, <2>2 DEF JobsInv
<1>4. ASSUME NEW j \in Jobs, Work!JobEnds(j)
      PROVE  JobsInv'
  <2>1. j \in atWork /\ atWork' = atWork \ {j} /\ job' = "none"
    BY <1>4 DEF Work!JobEnds
  <2>2. atWork' = {}
    BY <2>1 DEF JobsInv
  <2> QED
    BY <2>1, <2>2 DEF JobsInv
<1> QED
  BY <1>1, <1>2, <1>3, <1>4 DEF Work!JobsNext

LEMMA OneJobThen ==
    ASSUME JobsInv
    PROVE  Work!OneJob
<1>1. Cardinality(atWork) <= 1
  <2>1. CASE job = "none"
    BY <2>1, FS_EmptySet DEF JobsInv
  <2>2. CASE job # "none"
    <3>1. Cardinality({job}) = 1
      BY FS_Singleton
    <3> QED
      BY <2>2, <3>1 DEF JobsInv
  <2> QED
    BY <2>1, <2>2
<1>2. Work!Cardinality(atWork) = Cardinality(atWork)
  BY DEF Work!Cardinality, Cardinality, Work!IsFiniteSet, IsFiniteSet
<1>3. job = "none" <=> atWork = {}
  BY DEF JobsInv
<1> QED
  BY <1>1, <1>2, <1>3 DEF Work!OneJob

-----------------------------------------------------------------------------
(* The update of the program by itself. *)

LEMMA UpdateConstants ==
    /\ Releases \subseteq Nat \ {0} /\ 2 \in Releases
    /\ Pieces \in Nat \ {0} /\ MaxApplies \in Nat
  BY PartsAssumption DEF Self!UpdateAssumption

LEMMA RestIsIdle == Self!Rest \in Apply /\ Self!Rest.at = "idle" /\ Self!Rest.file = 0
  BY UpdateConstants DEF Self!Rest, Apply

LEMMA BlankFile ==
    Self!Blank \in [1 .. Pieces -> Nat] /\ \A n \in 1 .. Pieces : Self!Blank[n] = 0
  BY DEF Self!Blank

\* The first piece of a whole file tells its version.
LEMMA WholeFile ==
    ASSUME NEW f, Self!Whole(f)
    PROVE  f[1] \in Releases /\ \A n \in 1 .. Pieces : f[n] = f[1]
<1>1. PICK v \in Releases : f = [n \in 1 .. Pieces |-> v]
  BY DEF Self!Whole
<1>2. 1 \in 1 .. Pieces
  BY UpdateConstants
<1> QED
  BY <1>1, <1>2

LEMMA SameVersionIsWhole ==
    ASSUME NEW f \in [1 .. Pieces -> Nat], NEW v \in Releases, \A n \in 1 .. Pieces : f[n] = v
    PROVE  Self!Whole(f) /\ f[1] = v
<1>1. f = [n \in 1 .. Pieces |-> v] /\ 1 \in 1 .. Pieces
  BY UpdateConstants
<1> QED
  BY <1>1 DEF Self!Whole

LEMMA InodesAreFinite ==
    /\ IsFiniteSet(Self!Inode) /\ Cardinality(Self!Inode) = MaxApplies + 1
    /\ \A S \in SUBSET Self!Inode : IsFiniteSet(S) /\ Cardinality(S) \in Nat
    /\ Used \subseteq Self!Inode
<1>1. IsFiniteSet(1 .. MaxApplies + 1) /\ Cardinality(1 .. MaxApplies + 1) = MaxApplies + 1
  BY FS_Interval, UpdateConstants
<1>2. IsFiniteSet(Self!Inode) /\ Cardinality(Self!Inode) = MaxApplies + 1
  BY <1>1 DEF Self!Inode
<1>3. ASSUME NEW S \in SUBSET Self!Inode
      PROVE  IsFiniteSet(S) /\ Cardinality(S) \in Nat
  BY <1>2, FS_Subset, FS_CardinalityType
<1>4. Used \subseteq Self!Inode
  BY DEF Used
<1> QED
  BY <1>2, <1>3, <1>4

\* A download that opens its file finds an inode for it.
LEMMA FreeInode ==
    ASSUME SelfTypes, InodesSuffice, NEW a \in Applier, req[a].at = "open"
    PROVE  \E i \in Self!Inode \ {dest} :
               disk[i] = Self!Blank /\ \A b \in Applier : req[b].file # i
<1>1. a \in Opening /\ IsFiniteSet(Opening)
  BY DEF Opening, InodesSuffice
<1>2. Cardinality(Opening) \in Nat \ {0}
  BY <1>1, FS_EmptySet, FS_CardinalityType
<1>3. Cardinality(Used) + Cardinality(Opening) <= 1 + applies /\ applies \in 0 .. MaxApplies
  BY DEF InodesSuffice, SelfTypes
<1>4. Used # Self!Inode
  <2>1. Cardinality(Used) \in Nat /\ Cardinality(Self!Inode) = MaxApplies + 1
    BY InodesAreFinite
  <2>2. Cardinality(Used) < MaxApplies + 1
    BY <1>2, <1>3, <2>1, UpdateConstants
  <2> QED
    BY <2>1, <2>2
<1>5. PICK i \in Self!Inode : i \notin Used
  BY <1>4, InodesAreFinite
<1> QED
  BY <1>5 DEF Used

\* Every inode was taken by one download, and a download takes one.
LEMMA InodesSufficeStill ==
    ASSUME InodesSuffice, applies \in Nat,
           \/ Used' \subseteq Used /\ Opening' \subseteq Opening /\ applies' = applies
           \/ \E a : Used' \subseteq Used /\ Opening' \subseteq Opening \cup {a} /\ applies' = applies + 1
           \/ \E a \in Opening, i \in Self!Inode :
                 Used' \subseteq Used \cup {i} /\ Opening' \subseteq Opening \ {a} /\ applies' = applies
    PROVE  InodesSuffice'
<1> DEFINE u == Cardinality(Used)
           o == Cardinality(Opening)
<1>1. /\ IsFiniteSet(Used) /\ IsFiniteSet(Opening) /\ Used \subseteq Self!Inode
      /\ u \in Nat /\ o \in Nat /\ u + o <= 1 + applies
  BY InodesAreFinite, FS_CardinalityType DEF InodesSuffice
<1>2. CASE Used' \subseteq Used /\ Opening' \subseteq Opening /\ applies' = applies
  <2>1. /\ IsFiniteSet(Opening') /\ Cardinality(Used') <= u /\ Cardinality(Opening') <= o
        /\ IsFiniteSet(Used')
    BY <1>1, <1>2, FS_Subset
  <2>2. Cardinality(Used') \in Nat /\ Cardinality(Opening') \in Nat
    BY <2>1, FS_CardinalityType
  <2> QED
    BY <1>1, <1>2, <2>1, <2>2 DEF InodesSuffice
<1>3. ASSUME NEW a, Used' \subseteq Used, Opening' \subseteq Opening \cup {a}, applies' = applies + 1
      PROVE  InodesSuffice'
  <2>1. IsFiniteSet(Opening \cup {a}) /\ Cardinality(Opening \cup {a}) <= o + 1
    BY <1>1, OneMore
  <2>2. /\ IsFiniteSet(Opening') /\ IsFiniteSet(Used') /\ Cardinality(Used') <= u
        /\ Cardinality(Opening') <= Cardinality(Opening \cup {a})
    BY <1>1, <1>3, <2>1, FS_Subset
  <2>3. /\ Cardinality(Used') \in Nat /\ Cardinality(Opening') \in Nat
        /\ Cardinality(Opening \cup {a}) \in Nat
    BY <2>1, <2>2, FS_CardinalityType
  <2> QED
    BY <1>1, <1>3, <2>1, <2>2, <2>3 DEF InodesSuffice
<1>4. ASSUME NEW a \in Opening, NEW i \in Self!Inode,
             Used' \subseteq Used \cup {i}, Opening' \subseteq Opening \ {a}, applies' = applies
      PROVE  InodesSuffice'
  <2>1. /\ IsFiniteSet(Used \cup {i}) /\ Cardinality(Used \cup {i}) <= u + 1
        /\ IsFiniteSet(Opening \ {a}) /\ Cardinality(Opening \ {a}) = o - 1
    BY <1>1, OneMore, OneLess
  <2>2. /\ IsFiniteSet(Opening') /\ IsFiniteSet(Used')
        /\ Cardinality(Used') <= Cardinality(Used \cup {i})
        /\ Cardinality(Opening') <= Cardinality(Opening \ {a})
    BY <1>4, <2>1, FS_Subset
  <2>3. /\ Cardinality(Used') \in Nat /\ Cardinality(Opening') \in Nat
        /\ Cardinality(Used \cup {i}) \in Nat /\ Cardinality(Opening \ {a}) \in Nat
    BY <2>1, <2>2, FS_CardinalityType
  <2> QED
    BY <1>1, <1>4, <2>1, <2>2, <2>3 DEF InodesSuffice
<1> QED
  BY <1>2, <1>3, <1>4

LEMMA SelfStarts == Self!UpdateInit => SelfInv
<1> SUFFICES ASSUME Self!UpdateInit PROVE SelfInv
  OBVIOUS
<1>1. /\ version = 2 /\ dest = 1 /\ new = 0 /\ promises = 0 /\ applies = 0 /\ excuse = {}
      /\ disk = [i \in Self!Inode |-> IF i = 1 THEN [n \in 1 .. Pieces |-> 2] ELSE Self!Blank]
      /\ req = [a \in Applier |-> Self!Rest]
  BY DEF Self!UpdateInit
<1>2. 1 \in Self!Inode
  BY UpdateConstants DEF Self!Inode
<1>3. disk[1] = [n \in 1 .. Pieces |-> 2]
  BY <1>1, <1>2
<1>4. \A a \in Applier : req[a].at = "idle" /\ req[a].file = 0
  BY <1>1, RestIsIdle
<1>5. SelfTypes
  <2>1. disk \in [Self!Inode -> [1 .. Pieces -> Nat]]
    <3>1. [n \in 1 .. Pieces |-> 2] \in [1 .. Pieces -> Nat]
      OBVIOUS
    <3> QED
      BY <1>1, <3>1, BlankFile
  <2>2. req \in [Applier -> Apply]
    BY <1>1, RestIsIdle
  <2> QED
    BY <1>1, <1>2, <1>4, <2>1, <2>2, UpdateConstants DEF SelfTypes
<1>6. InodesSuffice
  <2>1. Opening = {}
    BY <1>4 DEF Opening
  <2>2. Used \subseteq {1}
    BY <1>1, <1>4 DEF Used, Self!Inode
  <2>3. IsFiniteSet({1}) /\ Cardinality({1}) = 1
    BY FS_Singleton
  <2>4. Cardinality(Used) <= 1 /\ Cardinality(Used) \in Nat
    BY <2>2, <2>3, FS_Subset, FS_CardinalityType
  <2> QED
    BY <1>1, <2>1, <2>4, FS_EmptySet DEF InodesSuffice
<1>7. Self!Downloading = {}
  BY <1>4 DEF Self!Downloading
<1>8. NothingOlder
  <2>1. \A n \in 1 .. Pieces : disk[dest][n] = 2
    BY <1>1, <1>3
  <2> QED
    BY <1>1, <1>4, <1>7, <2>1 DEF NothingOlder
<1>9. OneDownload
  <2>1. Self!Whole(disk[dest])
    BY <1>1, <1>3, UpdateConstants DEF Self!Whole
  <2> QED
    BY <1>1, <1>7, <2>1 DEF OneDownload, Self!Broken
<1> QED
  BY <1>1, <1>5, <1>6, <1>8, <1>9 DEF SelfInv, PromiseIsOnDisk

\* A request begins with a newer version.
LEMMA CheckKeepsSelf ==
    ASSUME SelfInv, NEW a \in Applier, Self!Check(a)
    PROVE  SelfInv'
<1>1. PICK v \in Releases : v > version /\ req' = [req EXCEPT ![a] = [Self!Rest EXCEPT !.at = "open", !.version = v]]
  BY DEF Self!Check, Self!Newer
<1>2. /\ req[a].at = "idle" /\ applies < MaxApplies /\ applies' = applies + 1
      /\ UNCHANGED <<version, dest, new, disk, promises, excuse>>
  BY DEF Self!Check
<1>3. /\ SelfTypes /\ InodesSuffice /\ NothingOlder /\ PromiseIsOnDisk
      /\ "overlap" \in excuse \/ OneDownload
  BY DEF SelfInv
<1> DEFINE r == [Self!Rest EXCEPT !.at = "open", !.version = v]
<1>4. r \in Apply /\ r.at = "open" /\ r.version = v /\ r.file = 0 /\ r.wrote = 0
  <2> DEFINE opened == [at |-> "open", version |-> 0, file |-> 0, wrote |-> 0]
  <2>0. [Self!Rest EXCEPT !.at = "open"] = opened
    BY DEF Self!Rest
  <2>1. r = [at |-> "open", version |-> v, file |-> 0, wrote |-> 0]
    <3>1. r = [[Self!Rest EXCEPT !.at = "open"] EXCEPT !.version = v]
      OBVIOUS
    <3>2. r = [opened EXCEPT !.version = v]
      BY <2>0, <3>1
    <3>3. [opened EXCEPT !.version = v] = [at |-> "open", version |-> v, file |-> 0, wrote |-> 0]
      OBVIOUS
    <3> QED
      BY <3>2, <3>3
  <2>2. v \in Releases \cup {0} /\ 0 \in Self!Inode \cup {0} /\ 0 \in 0 .. Pieces
    BY UpdateConstants
  <2> QED
    BY <2>1, <2>2 DEF Apply
<1>5. /\ req' \in [Applier -> Apply] /\ req'[a] = r
      /\ \A b \in Applier : b # a => req'[b] = req[b]
  BY <1>1, <1>3, <1>4 DEF SelfTypes
<1> HIDE DEF r
<1>6. Self!Downloading' = Self!Downloading /\ a \notin Self!Downloading
  BY <1>2, <1>4, <1>5 DEF Self!Downloading
<1>7. SelfTypes'
  <2>1. applies' \in 0 .. MaxApplies
    BY <1>2, <1>3, UpdateConstants DEF SelfTypes
  <2>2. \A b \in Applier : /\ req'[b].at = "open" => req'[b].wrote = 0
                           /\ req'[b].at = "copy" => req'[b].wrote < Pieces
    BY <1>3, <1>4, <1>5 DEF SelfTypes
  <2> QED
    BY <1>2, <1>3, <1>5, <2>1, <2>2 DEF SelfTypes
<1>8. InodesSuffice'
  <2>1. Used' \subseteq Used
    BY <1>2, <1>4, <1>5 DEF Used, Self!Inode, Self!Blank
  <2>2. Opening' \subseteq Opening \cup {a}
    BY <1>5 DEF Opening
  <2>3. applies \in Nat
    BY <1>3, UpdateConstants DEF SelfTypes
  <2> QED
    BY <1>2, <1>3, <2>1, <2>2, <2>3, InodesSufficeStill
<1>9. NothingOlder'
  BY <1>1, <1>2, <1>3, <1>4, <1>5, <1>6 DEF NothingOlder
<1>10. OneDownload => OneDownload'
  <2> SUFFICES ASSUME OneDownload PROVE OneDownload'
    OBVIOUS
  <2>1. \A b \in Self!Downloading : b \in Applier /\ req'[b] = req[b]
    BY <1>5, <1>6 DEF Self!Downloading
  <2> QED
    BY <1>2, <1>6, <2>1, ZenonT(120) DEF OneDownload, Self!Whole
<1> QED
  BY <1>2, <1>3, <1>7, <1>8, <1>9, <1>10 DEF SelfInv, PromiseIsOnDisk

\* The file is emptied: it is not the executable.
LEMMA OpenKeepsSelf ==
    ASSUME SelfInv, NEW a \in Applier, Self!Open(a)
    PROVE  SelfInv'
<1>1. /\ SelfTypes /\ InodesSuffice /\ NothingOlder /\ PromiseIsOnDisk
      /\ "overlap" \in excuse \/ OneDownload
  BY DEF SelfInv
<1>2. /\ req[a].at = "open" /\ req[a].wrote = 0 /\ req \in [Applier -> Apply] /\ req[a] \in Apply
      /\ disk' = [disk EXCEPT ![new'] = Self!Blank]
      /\ req' = [req EXCEPT ![a].at = "copy", ![a].file = new']
      /\ excuse' = IF Self!Downloading = {} THEN excuse ELSE excuse \cup {"overlap"}
      /\ UNCHANGED <<version, dest, promises, applies>>
  BY <1>1 DEF Self!Open, SelfTypes
<1>3. /\ new # 0 => new' = new
      /\ new = 0 => new' \in Self!Inode \ {dest}
  <2>1. \E i \in Self!Inode \ {dest} : disk[i] = Self!Blank /\ \A b \in Applier : req[b].file # i
    BY <1>1, <1>2, FreeInode
  <2> QED
    BY <2>1 DEF Self!Open
<1>4. PICK i \in Self!Inode : i = new'
  BY <1>1, <1>3 DEF SelfTypes
<1> DEFINE r == [req[a] EXCEPT !.at = "copy", !.file = i]
<1>5. i # 0 /\ 0 \notin Self!Inode
  BY UpdateConstants DEF Self!Inode
<1>6. r \in Apply /\ r.at = "copy" /\ r.version = req[a].version /\ r.file = i /\ r.wrote = 0
  BY <1>2 DEF Apply
<1>7. /\ req' \in [Applier -> Apply] /\ req'[a] = r
      /\ \A b \in Applier : b # a => req'[b] = req[b]
  BY <1>2, <1>4, <1>6
<1> HIDE DEF r
<1>8. /\ disk' \in [Self!Inode -> [1 .. Pieces -> Nat]] /\ disk'[i] = Self!Blank
      /\ \A j \in Self!Inode : j # i => disk'[j] = disk[j]
  BY <1>1, <1>2, <1>4, BlankFile DEF SelfTypes
<1>9. Self!Downloading' = Self!Downloading \cup {a} /\ a \notin Self!Downloading
  BY <1>2, <1>6, <1>7 DEF Self!Downloading
<1>10. req[a].version > version /\ version \in Nat
  BY <1>1, <1>2 DEF NothingOlder, SelfTypes
<1>11. SelfTypes'
  BY <1>1, <1>2, <1>4, <1>6, <1>7, <1>8, UpdateConstants DEF SelfTypes
<1>12. InodesSuffice'
  <2>1. Used' \subseteq Used \cup {i}
    BY <1>2, <1>4, <1>6, <1>7, <1>8 DEF Used, Self!Inode, Self!Blank
  <2>2. a \in Opening /\ Opening' \subseteq Opening \ {a}
    BY <1>2, <1>6, <1>7 DEF Opening
  <2> QED
    BY <1>1, <1>2, <2>1, <2>2, InodesSufficeStill DEF SelfTypes
<1>13. NothingOlder'
  <2>1. \A b \in Applier : req'[b].at # "idle" => req'[b].version > version'
    BY <1>1, <1>2, <1>6, <1>7, <1>10 DEF NothingOlder
  <2>2. \A n \in 1 .. Pieces : disk'[dest'][n] = 0 \/ disk'[dest'][n] >= version'
    <3>1. disk'[dest] = disk[dest] \/ disk'[dest] = Self!Blank
      BY <1>1, <1>8 DEF SelfTypes
    <3> QED
      BY <1>1, <1>2, <3>1, BlankFile DEF NothingOlder
  <2>3. \A n \in 1 .. Pieces : disk'[i][n] = 0
    BY <1>8, BlankFile
  <2> QED
    BY <1>4, <2>1, <2>2, <2>3 DEF NothingOlder
<1>14. ASSUME "overlap" \notin excuse'
       PROVE  OneDownload' /\ PromiseIsOnDisk'
  <2>1. OneDownload /\ Self!Downloading = {} /\ excuse' = excuse
    BY <1>1, <1>2, <1>14
  <2>2. i # dest
    BY <1>3, <1>4, <2>1 DEF OneDownload
  <2>3. disk'[dest'] = disk[dest]
    BY <1>1, <1>2, <1>8, <2>2 DEF SelfTypes
  <2>4. \A b \in Self!Downloading' : b = a
    BY <1>9, <2>1
  <2>5. \A n \in 1 .. Pieces : disk'[new'][n] =
            IF req'[a].at = "copy" /\ n > req'[a].wrote THEN 0 ELSE req'[a].version
    BY <1>4, <1>6, <1>7, <1>8, BlankFile
  <2>6. version' # Self!Broken /\ Self!Whole(disk'[dest'])
    BY <1>2, <2>1, <2>3 DEF OneDownload
  <2>7. OneDownload'
    BY <1>2, <1>4, <1>5, <1>6, <1>7, <2>2, <2>4, <2>5, <2>6, ZenonT(60) DEF OneDownload, Self!Broken, Self!Whole
  <2> QED
    BY <1>1, <1>2, <2>1, <2>3, <2>7 DEF PromiseIsOnDisk
<1> QED
  BY <1>11, <1>12, <1>13, <1>14 DEF SelfInv, PromiseIsOnDisk

\* What is downloaded is newer than what runs.
LEMMA BusyIsNewer ==
    ASSUME SelfTypes, NothingOlder, NEW a \in Applier, req[a].at # "idle"
    PROVE  /\ version \in Nat /\ req[a].version \in Nat /\ req[a].version > version
           /\ req[a].version \in Releases /\ req[a].wrote \in 0 .. Pieces
           /\ req[a].file \in Self!Inode \cup {0}
<1>1. req[a].version > version /\ version \in Nat /\ req[a] \in Apply
  BY DEF NothingOlder, SelfTypes
<1>2. /\ req[a].version \in Releases \cup {0} /\ req[a].wrote \in 0 .. Pieces
      /\ req[a].file \in Self!Inode \cup {0}
  BY <1>1 DEF Apply
<1>3. req[a].version # 0
  BY <1>1
<1> QED
  BY <1>1, <1>2, <1>3, UpdateConstants

\* A piece of a newer version is written, beside the executable.
LEMMA CopyKeepsSelf ==
    ASSUME SelfInv, NEW a \in Applier, Self!Copy(a)
    PROVE  SelfInv'
<1>1. /\ SelfTypes /\ InodesSuffice /\ NothingOlder /\ PromiseIsOnDisk
      /\ "overlap" \in excuse \/ OneDownload
  BY DEF SelfInv
<1> DEFINE f == req[a].file
           v == req[a].version
           w == req[a].wrote + 1
           r == [req[a] EXCEPT !.wrote = w, !.at = IF w = Pieces THEN "verify" ELSE "copy"]
           piece(i) == [disk[i] EXCEPT ![w] = v]
<1>2. /\ req[a].at = "copy" /\ req \in [Applier -> Apply] /\ req[a] \in Apply
      /\ req[a].wrote < Pieces /\ disk \in [Self!Inode -> [1 .. Pieces -> Nat]]
      /\ disk' = [disk EXCEPT ![f] = piece(f)]
      /\ req' = [req EXCEPT ![a] = r]
      /\ UNCHANGED <<version, dest, new, promises, applies, excuse>>
  BY <1>1 DEF Self!Copy, SelfTypes
<1>3. /\ w \in 1 .. Pieces /\ v > version /\ v \in Releases /\ v \in Nat
      /\ req[a].wrote \in Nat /\ f \in Self!Inode \cup {0}
  <2>1. /\ v > version /\ v \in Releases /\ v \in Nat /\ req[a].wrote \in 0 .. Pieces
        /\ f \in Self!Inode \cup {0}
    BY <1>1, <1>2, BusyIsNewer
  <2> QED
    BY <1>2, <2>1, UpdateConstants
<1>4. /\ r \in Apply /\ r.at = (IF w = Pieces THEN "verify" ELSE "copy") /\ r.version = v
      /\ r.file = f /\ r.wrote = w
  <2>1. r = [at |-> IF w = Pieces THEN "verify" ELSE "copy", version |-> v, file |-> f, wrote |-> w]
    <3> DEFINE q == [req[a] EXCEPT !.wrote = w]
               next == IF w = Pieces THEN "verify" ELSE "copy"
    <3>1. req[a] = [at |-> req[a].at, version |-> v, file |-> f, wrote |-> req[a].wrote]
      BY <1>2 DEF Apply
    <3>2. q = [at |-> req[a].at, version |-> v, file |-> f, wrote |-> w]
      BY <3>1
    <3>3. r = [q EXCEPT !.at = next]
      OBVIOUS
    <3> HIDE DEF q, next, r, v, w, f
    <3>4. r = [at |-> next, version |-> v, file |-> f, wrote |-> w]
      BY <3>2, <3>3
    <3> QED
      BY <3>4 DEF next
  <2>2. w \in 0 .. Pieces
    BY <1>3
  <2> QED
    BY <1>3, <2>1, <2>2 DEF Apply
<1>5. /\ req' \in [Applier -> Apply] /\ req'[a] = r
      /\ \A b \in Applier : b # a => req'[b] = req[b]
  BY <1>2, <1>4
<1>6. \A i \in Self!Inode : piece(i) \in [1 .. Pieces -> Nat]
  BY <1>2, <1>3
<1>7. /\ disk' \in [Self!Inode -> [1 .. Pieces -> Nat]]
      /\ \A i \in Self!Inode : i # f => disk'[i] = disk[i]
      /\ \A i \in Self!Inode : i = f => disk'[i] = piece(i)
  BY <1>2, <1>6
<1>8. \A i \in Self!Inode : \A n \in 1 .. Pieces : disk'[i][n] = disk[i][n] \/ disk'[i][n] = v
  BY <1>2, <1>7
<1> HIDE DEF r, f, v, w, piece
<1>9. Self!Downloading' = Self!Downloading /\ a \in Self!Downloading
  BY <1>2, <1>4, <1>5 DEF Self!Downloading
<1>10. SelfTypes'
  <2>1. \A b \in Applier : /\ req'[b].at = "open" => req'[b].wrote = 0
                           /\ req'[b].at = "copy" => req'[b].wrote < Pieces
    <3>1. r.at # "open" /\ (r.at = "copy" => r.wrote < Pieces)
      BY <1>3, <1>4, UpdateConstants
    <3> QED
      BY <1>1, <1>5, <3>1 DEF SelfTypes
  <2> QED
    BY <1>1, <1>2, <1>5, <1>7, <2>1 DEF SelfTypes
<1>11. InodesSuffice'
  <2>1. Used' \subseteq Used
    BY <1>2, <1>4, <1>5, <1>7 DEF Used, Self!Inode, Self!Blank, f
  <2>2. Opening' \subseteq Opening
    BY <1>4, <1>5 DEF Opening
  <2>3. applies \in Nat
    BY <1>1, UpdateConstants DEF SelfTypes
  <2> QED
    BY <1>1, <1>2, <2>1, <2>2, <2>3, InodesSufficeStill
<1>12. NothingOlder'
  <2>1. \A b \in Applier : req'[b].at # "idle" => req'[b].version > version'
    BY <1>1, <1>2, <1>3, <1>4, <1>5 DEF NothingOlder
  <2>2. dest \in Self!Inode /\ new \in Self!Inode \cup {0} /\ version \in Nat
    BY <1>1 DEF SelfTypes
  <2>3. \A n \in 1 .. Pieces : disk'[dest][n] = 0 \/ disk'[dest][n] >= version
    BY <1>1, <1>3, <1>8, <2>2 DEF NothingOlder
  <2>4. Self!Downloading # {} /\ new # 0 =>
            \A n \in 1 .. Pieces : disk'[new][n] = 0 \/ disk'[new][n] > version
    BY <1>1, <1>3, <1>8, <2>2 DEF NothingOlder
  <2> QED
    BY <1>2, <1>9, <2>1, <2>3, <2>4 DEF NothingOlder
<1>13. ASSUME "overlap" \notin excuse'
       PROVE  OneDownload' /\ PromiseIsOnDisk'
  <2>1. OneDownload
    BY <1>1, <1>2, <1>13
  <2>2. f = new /\ new # 0 /\ new # dest /\ new \in Self!Inode /\ dest \in Self!Inode
    BY <1>1, <1>2, <1>9, <2>1 DEF OneDownload, SelfTypes, f
  <2>3. disk'[dest] = disk[dest]
    BY <1>7, <2>2
  <2>4. \A b \in Self!Downloading' : b = a
    BY <1>9, <2>1 DEF OneDownload
  <2>5. ASSUME NEW n \in 1 .. Pieces
        PROVE  disk'[new][n] = IF r.at = "copy" /\ n > r.wrote THEN 0 ELSE r.version
    <3>1. disk[new][n] = IF n > req[a].wrote THEN 0 ELSE v
      BY <1>2, <1>9, <2>1 DEF OneDownload, v
    <3>2. disk'[new] = [disk[new] EXCEPT ![w] = v] /\ disk[new] \in [1 .. Pieces -> Nat]
      BY <1>2, <1>7, <2>2 DEF piece
    <3>3. disk'[new][n] = IF n = w THEN v ELSE disk[new][n]
      BY <1>3, <3>2
    <3>4. w = req[a].wrote + 1
      BY DEF w
    <3>5. CASE n > w
      <4>1. disk'[new][n] = 0
        BY <1>3, <3>1, <3>3, <3>4, <3>5
      <4>2. r.at = "copy"
        BY <1>3, <1>4, <3>5, UpdateConstants
      <4> QED
        BY <1>4, <3>5, <4>1, <4>2
    <3>6. CASE ~ (n > w)
      <4>1. disk'[new][n] = v
        BY <1>3, <3>1, <3>3, <3>4, <3>6
      <4> QED
        BY <1>4, <3>6, <4>1
    <3> QED
      BY <3>5, <3>6
  <2>6. OneDownload'
    BY <1>2, <1>4, <1>5, <2>1, <2>2, <2>3, <2>4, <2>5, ZenonT(60) DEF OneDownload, Self!Whole
  <2> QED
    BY <1>1, <1>2, <2>3, <2>6 DEF PromiseIsOnDisk
<1> QED
  BY <1>10, <1>11, <1>12, <1>13 DEF SelfInv, PromiseIsOnDisk

\* A request that fails takes the file with it.
LEMMA RemovedKeepsSelf ==
    ASSUME SelfInv, NEW a \in Applier, a \in Self!Downloading, Self!Removed(a),
           UNCHANGED <<version, dest, promises, applies, excuse>>
    PROVE  SelfInv'
<1>1. /\ SelfTypes /\ InodesSuffice /\ NothingOlder /\ PromiseIsOnDisk
      /\ "overlap" \in excuse \/ OneDownload
  BY DEF SelfInv
<1>2. req' = [req EXCEPT ![a] = Self!Rest] /\ new' = 0 /\ disk' = disk
  BY DEF Self!Removed
<1>3. /\ req' \in [Applier -> Apply] /\ req'[a] = Self!Rest
      /\ \A b \in Applier : b # a => req'[b] = req[b]
  BY <1>1, <1>2, RestIsIdle DEF SelfTypes
<1>4. Self!Downloading' = Self!Downloading \ {a}
  BY <1>3, RestIsIdle DEF Self!Downloading
<1>5. SelfTypes'
  BY <1>1, <1>2, <1>3, RestIsIdle DEF SelfTypes
<1>6. InodesSuffice'
  <2>1. Used' \subseteq Used
    BY <1>2, <1>3, RestIsIdle, UpdateConstants DEF Used, Self!Inode, Self!Blank
  <2>2. Opening' \subseteq Opening
    BY <1>3, RestIsIdle DEF Opening
  <2>3. applies \in Nat
    BY <1>1, UpdateConstants DEF SelfTypes
  <2> QED
    BY <1>1, <2>1, <2>2, <2>3, InodesSufficeStill
<1>7. NothingOlder'
  BY <1>1, <1>2, <1>3, RestIsIdle DEF NothingOlder
<1>8. OneDownload => OneDownload'
  <2>1. OneDownload => Self!Downloading' = {}
    BY <1>4 DEF OneDownload
  <2>2. dest # 0
    BY <1>1, UpdateConstants DEF SelfTypes, Self!Inode
  <2> QED
    BY <1>2, <2>1, <2>2 DEF OneDownload, Self!Whole
<1> QED
  BY <1>1, <1>2, <1>5, <1>6, <1>7, <1>8 DEF SelfInv, PromiseIsOnDisk

LEMMA VerifyKeepsSelf ==
    ASSUME SelfInv, NEW a \in Applier, Self!Verify(a)
    PROVE  SelfInv'
<1>1. /\ SelfTypes /\ InodesSuffice /\ NothingOlder /\ PromiseIsOnDisk
      /\ "overlap" \in excuse \/ OneDownload
  BY DEF SelfInv
<1>2. /\ req[a].at = "verify" /\ req \in [Applier -> Apply] /\ req[a] \in Apply
      /\ UNCHANGED <<version, dest, promises, applies, excuse>>
  BY <1>1 DEF Self!Verify, SelfTypes
<1>3. a \in Self!Downloading
  BY <1>2 DEF Self!Downloading
<1>4. CASE Self!Removed(a)
  BY <1>2, <1>3, <1>4, RemovedKeepsSelf
<1>5. CASE req' = [req EXCEPT ![a].at = "swap", ![a].file = 0] /\ UNCHANGED <<new, disk>>
  <2> DEFINE r == [req[a] EXCEPT !.at = "swap", !.file = 0]
  <2>1. /\ r \in Apply /\ r.at = "swap" /\ r.version = req[a].version /\ r.file = 0
    BY <1>2 DEF Apply
  <2>2. /\ req' \in [Applier -> Apply] /\ req'[a] = r
        /\ \A b \in Applier : b # a => req'[b] = req[b]
    BY <1>2, <1>5, <2>1
  <2> HIDE DEF r
  <2>3. Self!Downloading' = Self!Downloading
    BY <1>3, <2>1, <2>2 DEF Self!Downloading
  <2>4. SelfTypes'
    BY <1>1, <1>2, <1>5, <2>1, <2>2 DEF SelfTypes
  <2>5. InodesSuffice'
    <3>1. Used' \subseteq Used
      BY <1>2, <1>5, <2>1, <2>2, UpdateConstants DEF Used, Self!Inode, Self!Blank
    <3>2. Opening' \subseteq Opening
      BY <2>1, <2>2 DEF Opening
    <3>3. applies \in Nat
      BY <1>1, UpdateConstants DEF SelfTypes
    <3> QED
      BY <1>1, <1>2, <3>1, <3>2, <3>3, InodesSufficeStill
  <2>6. NothingOlder'
    BY <1>1, <1>2, <1>5, <2>1, <2>2, <2>3 DEF NothingOlder
  <2>7. OneDownload => OneDownload'
    <3> SUFFICES ASSUME OneDownload PROVE OneDownload'
      OBVIOUS
    <3>1. \A b \in Self!Downloading' : b = a
      BY <1>3, <2>3 DEF OneDownload
    <3>2. new # 0 /\ \A n \in 1 .. Pieces : disk[new][n] = req[a].version
      BY <1>2, <1>3 DEF OneDownload
    <3> QED
      BY <1>2, <1>5, <2>1, <2>2, <3>1, <3>2, ZenonT(60) DEF OneDownload, Self!Whole
  <2> QED
    BY <1>1, <1>2, <1>5, <2>4, <2>5, <2>6, <2>7 DEF SelfInv, PromiseIsOnDisk
<1> QED
  BY <1>4, <1>5 DEF Self!Verify

\* The file takes the place of the executable, and a restart is promised.
LEMMA SwapKeepsSelf ==
    ASSUME SelfInv, NEW a \in Applier, Self!Swap(a)
    PROVE  SelfInv'
<1>1. /\ SelfTypes /\ InodesSuffice /\ NothingOlder /\ PromiseIsOnDisk
      /\ "overlap" \in excuse \/ OneDownload
  BY DEF SelfInv
<1>2. /\ req[a].at = "swap" /\ req \in [Applier -> Apply] /\ req[a] \in Apply
      /\ UNCHANGED <<version, applies, excuse>>
  BY <1>1 DEF Self!Swap, SelfTypes
<1>3. a \in Self!Downloading
  BY <1>2 DEF Self!Downloading
<1>4. CASE Self!Removed(a) /\ UNCHANGED <<dest, promises>>
  BY <1>2, <1>3, <1>4, RemovedKeepsSelf
<1>5. CASE /\ new # 0 /\ dest' = new /\ new' = 0 /\ req' = [req EXCEPT ![a] = Self!Rest]
           /\ promises' = promises + 1 /\ UNCHANGED disk
  <2>1. /\ req' \in [Applier -> Apply] /\ req'[a] = Self!Rest
        /\ \A b \in Applier : b # a => req'[b] = req[b]
    BY <1>2, <1>5, RestIsIdle
  <2>2. Self!Downloading' = Self!Downloading \ {a}
    BY <2>1, RestIsIdle DEF Self!Downloading
  <2>3. new \in Self!Inode /\ disk \in [Self!Inode -> [1 .. Pieces -> Nat]]
    BY <1>1, <1>5 DEF SelfTypes
  <2>4. SelfTypes'
    <3>1. \A b \in Applier : /\ req'[b].at = "open" => req'[b].wrote = 0
                             /\ req'[b].at = "copy" => req'[b].wrote < Pieces
      BY <1>1, <2>1, RestIsIdle DEF SelfTypes
    <3>2. promises' \in Nat
      BY <1>1, <1>5 DEF SelfTypes
    <3> QED
      BY <1>1, <1>2, <1>5, <2>1, <2>3, <3>1, <3>2 DEF SelfTypes
  <2>5. InodesSuffice'
    <3>1. Used' \subseteq Used
      BY <1>5, <2>1, RestIsIdle, UpdateConstants DEF Used, Self!Inode, Self!Blank
    <3>2. Opening' \subseteq Opening
      BY <2>1, RestIsIdle DEF Opening
    <3>3. applies \in Nat
      BY <1>1, UpdateConstants DEF SelfTypes
    <3> QED
      BY <1>1, <1>2, <3>1, <3>2, <3>3, InodesSufficeStill
  <2>6. \A n \in 1 .. Pieces : disk[new][n] = 0 \/ disk[new][n] > version
    BY <1>1, <1>3, <1>5 DEF NothingOlder
  <2>7. NothingOlder'
    <3>1. \A n \in 1 .. Pieces : disk[new][n] = 0 \/ disk[new][n] >= version
      <4>1. ASSUME NEW n \in 1 .. Pieces
            PROVE  disk[new][n] = 0 \/ disk[new][n] >= version
        <5>1. disk[new][n] \in Nat /\ version \in Nat
          BY <1>1, <2>3 DEF SelfTypes
        <5> QED
          BY <2>6, <5>1
      <4> QED
        BY <4>1
    <3> QED
      BY <1>1, <1>2, <1>5, <2>1, <3>1, RestIsIdle DEF NothingOlder
  <2>8. ASSUME "overlap" \notin excuse'
        PROVE  OneDownload' /\ disk'[dest'][1] > version'
    <3>1. OneDownload
      BY <1>1, <1>2, <2>8
    <3>2. Self!Downloading' = {}
      BY <1>3, <2>2, <3>1 DEF OneDownload
    <3>3. req[a].version > version /\ version \in Nat /\ req[a].version \in Releases
      BY <1>1, <1>2, BusyIsNewer
    <3>4. \A n \in 1 .. Pieces : disk[new][n] = req[a].version
      BY <1>2, <1>3, <3>1 DEF OneDownload
    <3>5. Self!Whole(disk[new]) /\ disk[new][1] = req[a].version
      BY <2>3, <3>3, <3>4, SameVersionIsWhole
    <3>6. OneDownload'
      BY <1>2, <1>5, <3>1, <3>2, <3>5 DEF OneDownload, Self!Broken, Self!Whole
    <3> QED
      BY <1>2, <1>5, <3>3, <3>5, <3>6
  <2> QED
    BY <2>4, <2>5, <2>7, <2>8 DEF SelfInv, PromiseIsOnDisk
<1> QED
  BY <1>4, <1>5 DEF Self!Swap, Self!AfterFailedRename, Self!Removed

\* A process begins with the executable, which is not older than the last one,
\* and newer if a restart was promised.
LEMMA BeginKeepsSelf ==
    ASSUME SelfInv, Self!Begin
    PROVE  /\ SelfInv'
           /\ version' # Self!Broken => version' >= version
           /\ excuse = {} /\ promises > 0 => version' > version
<1>1. /\ SelfTypes /\ InodesSuffice /\ NothingOlder /\ PromiseIsOnDisk
      /\ "overlap" \in excuse \/ OneDownload
  BY DEF SelfInv
<1>2. /\ \/ Self!Whole(disk[dest]) /\ version' = disk[dest][1]
         \/ ~ Self!Whole(disk[dest]) /\ version' = 0
      /\ req' = [a \in Applier |-> Self!Rest] /\ promises' = 0
      /\ UNCHANGED <<dest, new, disk, applies, excuse>>
  BY DEF Self!Begin, Self!Broken
<1>3. \A a \in Applier : req'[a] = Self!Rest
  BY <1>2
<1>4. /\ dest \in Self!Inode /\ disk[dest] \in [1 .. Pieces -> Nat] /\ version \in Nat
      /\ \A n \in 1 .. Pieces : disk[dest][n] = 0 \/ disk[dest][n] >= version
  BY <1>1 DEF SelfTypes, NothingOlder
<1>5. /\ version' \in Nat
      /\ Self!Whole(disk[dest]) => version' \in Nat \ {0} /\ version' >= version
      /\ \A n \in 1 .. Pieces : disk[dest][n] = 0 \/ disk[dest][n] >= version'
  <2>1. CASE ~ Self!Whole(disk[dest])
    <3>1. \A n \in 1 .. Pieces : disk[dest][n] \in Nat
      BY <1>4
    <3> QED
      BY <1>2, <2>1, <3>1
  <2>2. CASE Self!Whole(disk[dest])
    <3> DEFINE first == disk[dest][1]
    <3>1. first \in Releases /\ \A n \in 1 .. Pieces : disk[dest][n] = first
      BY <2>2, WholeFile
    <3>2. first \in Nat \ {0}
      BY <3>1, UpdateConstants
    <3>3. first >= version
      <4>1. 1 \in 1 .. Pieces
        BY UpdateConstants
      <4> QED
        BY <1>4, <3>2, <4>1
    <3>4. version' = first
      BY <1>2, <2>2
    <3> HIDE DEF first
    <3> QED
      BY <3>1, <3>2, <3>3, <3>4
  <2> QED
    BY <2>1, <2>2
<1>6. Self!Downloading' = {}
  BY <1>3, RestIsIdle DEF Self!Downloading
<1>7. SelfTypes'
  BY <1>1, <1>2, <1>3, <1>5, RestIsIdle DEF SelfTypes
<1>8. InodesSuffice'
  <2>1. Used' \subseteq Used
    BY <1>2, <1>3, RestIsIdle, UpdateConstants DEF Used, Self!Inode, Self!Blank
  <2>2. Opening' \subseteq Opening
    BY <1>3, RestIsIdle DEF Opening
  <2>3. applies \in Nat
    BY <1>1, UpdateConstants DEF SelfTypes
  <2> QED
    BY <1>1, <1>2, <2>1, <2>2, <2>3, InodesSufficeStill
<1>9. NothingOlder'
  BY <1>2, <1>3, <1>5, <1>6, RestIsIdle DEF NothingOlder
<1>10. OneDownload => OneDownload'
  BY <1>2, <1>5, <1>6 DEF OneDownload, Self!Broken, Self!Whole
<1>11. version' # Self!Broken => version' >= version
  BY <1>2, <1>5 DEF Self!Broken
<1>12. excuse = {} /\ promises > 0 => version' > version
  <2> SUFFICES ASSUME excuse = {}, promises > 0
               PROVE  version' > version
    OBVIOUS
  <2>1. Self!Whole(disk[dest]) /\ disk[dest][1] > version
    BY <1>1 DEF OneDownload, PromiseIsOnDisk
  <2> QED
    BY <1>2, <2>1
<1>13. PromiseIsOnDisk'
  BY <1>2 DEF PromiseIsOnDisk
<1> QED
  BY <1>1, <1>2, <1>7, <1>8, <1>9, <1>10, <1>11, <1>12, <1>13 DEF SelfInv

\* An exec fails with what it was to run only after an overlap.
LEMMA ExecFailsKeepsSelf ==
    ASSUME SelfInv, promises > 0, Self!ExecFails
    PROVE  SelfInv' /\ excuse' # {}
<1>1. /\ SelfTypes /\ InodesSuffice /\ NothingOlder /\ PromiseIsOnDisk
      /\ "overlap" \in excuse \/ OneDownload
  BY DEF SelfInv
<1>2. /\ promises' = promises - 1 /\ excuse' \in {excuse, excuse \cup {"exec"}}
      /\ UNCHANGED <<version, dest, new, disk, req, applies>>
  BY DEF Self!ExecFails
<1>3. excuse' # {}
  <2>1. CASE \E b \in Applier : req[b].at = "copy" /\ req[b].file = dest
    <3>1. PICK b \in Applier : req[b].at = "copy" /\ req[b].file = dest
      BY <2>1
    <3>2. b \in Self!Downloading
      BY <3>1 DEF Self!Downloading
    <3>3. ~ OneDownload
      BY <3>1, <3>2 DEF OneDownload
    <3> QED
      BY <1>1, <1>2, <3>3
  <2>2. CASE ~ Self!Whole(disk[dest])
    BY <1>1, <1>2, <2>2 DEF OneDownload
  <2>3. CASE excuse' = excuse \cup {"exec"}
    BY <2>3
  <2> QED
    BY <2>1, <2>2, <2>3 DEF Self!ExecFails
<1>4. SelfTypes' /\ NothingOlder'
  <2>1. promises' \in Nat
    BY <1>1, <1>2 DEF SelfTypes
  <2> QED
    BY <1>1, <1>2, <2>1 DEF SelfTypes, NothingOlder, Self!Downloading
<1>5. InodesSuffice'
  BY <1>1, <1>2 DEF InodesSuffice, Used, Opening
<1>6. OneDownload => OneDownload'
  BY <1>2 DEF OneDownload, Self!Downloading, Self!Whole
<1> QED
  BY <1>1, <1>2, <1>3, <1>4, <1>5, <1>6 DEF SelfInv, PromiseIsOnDisk

\* Every step but a restart or a crash leaves the process and its promises.
LEMMA SelfKeeps ==
    ASSUME SelfInv, Self!UpdateNext \/ UNCHANGED self
    PROVE  /\ SelfInv'
           /\ version' # Self!Broken => version' >= version
           /\ promises' < promises => version' > version \/ excuse' # {}
<1>1. version \in Nat /\ promises \in Nat
  BY DEF SelfInv, SelfTypes
<1>2. CASE UNCHANGED self
  <2>1. SelfInv'
    BY <1>2 DEF self, SelfInv, SelfTypes, InodesSuffice, Used, Opening, NothingOlder, OneDownload,
                PromiseIsOnDisk, Self!Downloading, Self!Whole
  <2> QED
    BY <1>1, <1>2, <2>1 DEF self
<1>3. ASSUME NEW a \in Applier, Self!Apply(a)
      PROVE  /\ SelfInv'
             /\ version' # Self!Broken => version' >= version
             /\ promises' < promises => version' > version \/ excuse' # {}
  <2>1. version' = version /\ (promises' = promises \/ promises' = promises + 1)
    BY <1>3 DEF Self!Apply, Self!Check, Self!Open, Self!Copy, Self!CopyFails, Self!Verify,
                Self!Swap, Self!AfterFailedRename
  <2>2. CASE Self!CopyFails(a)
    <3>1. a \in Self!Downloading
      BY <2>2 DEF Self!CopyFails, Self!Downloading
    <3> QED
      BY <1>1, <2>1, <2>2, <3>1, RemovedKeepsSelf DEF Self!CopyFails, Self!AfterBreak
  <2>3. CASE ~ Self!CopyFails(a)
    <3>1. SelfInv'
      BY <1>3, <2>3, CheckKeepsSelf, OpenKeepsSelf, CopyKeepsSelf, VerifyKeepsSelf, SwapKeepsSelf
         DEF Self!Apply
    <3> QED
      BY <1>1, <2>1, <3>1
  <2> QED
    BY <2>2, <2>3
<1>4. CASE Self!Restart
  <2>1. promises > 0
    BY <1>4 DEF Self!Restart
  <2>2. CASE Self!ExecFails
    <3>1. version' = version
      BY <2>2 DEF Self!ExecFails
    <3> QED
      BY <1>1, <2>1, <2>2, <3>1, ExecFailsKeepsSelf
  <2>3. CASE Self!Begin
    <3>1. excuse' = excuse
      BY <2>3 DEF Self!Begin
    <3> QED
      BY <2>1, <2>3, <3>1, BeginKeepsSelf
  <2> QED
    BY <1>4, <2>2, <2>3 DEF Self!Restart
<1>5. CASE Self!Crash
  <2>1. Self!Begin
    BY <1>5 DEF Self!Crash
  <2>2. promises' = 0 /\ excuse' = excuse
    BY <2>1 DEF Self!Begin
  <2>3. promises' < promises => promises > 0
    BY <1>1, <2>2
  <2> QED
    BY <2>1, <2>2, <2>3, BeginKeepsSelf
<1> QED
  BY <1>2, <1>3, <1>4, <1>5 DEF Self!UpdateNext

-----------------------------------------------------------------------------
(* The account. *)

LEMMA AccountConstants == MaxSetups \in Nat
  BY PartsAssumption DEF Admin!AccountAssumption

LEMMA AwayIsAway == Admin!Away \in Ask /\ Admin!Away.at = "away" /\ Admin!Away.file = 0
  BY DEF Admin!Away, Ask, Admin!NoAccount

LEMMA SheetsAreFinite ==
    /\ IsFiniteSet(Admin!Sheet) /\ Cardinality(Admin!Sheet) = MaxSetups
    /\ \A S \in SUBSET Admin!Sheet : IsFiniteSet(S) /\ Cardinality(S) \in Nat
    /\ Filled \subseteq Admin!Sheet /\ 0 \notin Admin!Sheet
<1>1. IsFiniteSet(1 .. MaxSetups) /\ Cardinality(1 .. MaxSetups) = MaxSetups
  BY FS_Interval, AccountConstants
<1>2. IsFiniteSet(Admin!Sheet) /\ Cardinality(Admin!Sheet) = MaxSetups
  BY <1>1 DEF Admin!Sheet
<1>3. ASSUME NEW S \in SUBSET Admin!Sheet
      PROVE  IsFiniteSet(S) /\ Cardinality(S) \in Nat
  BY <1>2, FS_Subset, FS_CardinalityType
<1>4. Filled \subseteq Admin!Sheet
  BY DEF Filled
<1>5. 0 \notin Admin!Sheet
  BY AccountConstants DEF Admin!Sheet
<1> QED
  BY <1>2, <1>3, <1>4, <1>5

\* A request that opens its file finds an inode for it.
LEMMA FreeSheet ==
    ASSUME AdminTypes, SheetsSuffice, NEW b \in Browser, setup[b].at = "open"
    PROVE  \E i \in Admin!Sheet :
               written[i] = Admin!NoAccount /\ i # adminFile /\ \A c \in Browser : setup[c].file # i
<1>1. b \in Asking /\ IsFiniteSet(Asking)
  BY DEF Asking, SheetsSuffice
<1>2. Cardinality(Asking) \in Nat \ {0}
  BY <1>1, FS_EmptySet, FS_CardinalityType
<1>3. Cardinality(Filled) + Cardinality(Asking) <= setups /\ setups \in 0 .. MaxSetups
  BY DEF SheetsSuffice, AdminTypes
<1>4. Filled # Admin!Sheet
  <2>1. Cardinality(Filled) \in Nat /\ Cardinality(Admin!Sheet) = MaxSetups
    BY SheetsAreFinite
  <2>2. Cardinality(Filled) < MaxSetups
    BY <1>2, <1>3, <2>1, AccountConstants
  <2> QED
    BY <2>1, <2>2
<1>5. PICK i \in Admin!Sheet : i \notin Filled
  BY <1>4, SheetsAreFinite
<1> QED
  BY <1>5 DEF Filled

LEMMA SheetsSufficeStill ==
    ASSUME SheetsSuffice, setups \in Nat,
           \/ Filled' \subseteq Filled /\ Asking' \subseteq Asking /\ setups' = setups
           \/ \E b : Filled' \subseteq Filled /\ Asking' \subseteq Asking \cup {b} /\ setups' = setups + 1
           \/ \E b \in Asking, i \in Admin!Sheet :
                 Filled' \subseteq Filled \cup {i} /\ Asking' \subseteq Asking \ {b} /\ setups' = setups
    PROVE  SheetsSuffice'
<1> DEFINE f == Cardinality(Filled)
           k == Cardinality(Asking)
<1>1. /\ IsFiniteSet(Filled) /\ IsFiniteSet(Asking) /\ f \in Nat /\ k \in Nat /\ f + k <= setups
  BY SheetsAreFinite, FS_CardinalityType DEF SheetsSuffice
<1>2. CASE Filled' \subseteq Filled /\ Asking' \subseteq Asking /\ setups' = setups
  <2>1. /\ IsFiniteSet(Asking') /\ Cardinality(Filled') <= f /\ Cardinality(Asking') <= k
        /\ IsFiniteSet(Filled')
    BY <1>1, <1>2, FS_Subset
  <2>2. Cardinality(Filled') \in Nat /\ Cardinality(Asking') \in Nat
    BY <2>1, FS_CardinalityType
  <2> QED
    BY <1>1, <1>2, <2>1, <2>2 DEF SheetsSuffice
<1>3. ASSUME NEW b, Filled' \subseteq Filled, Asking' \subseteq Asking \cup {b}, setups' = setups + 1
      PROVE  SheetsSuffice'
  <2>1. IsFiniteSet(Asking \cup {b}) /\ Cardinality(Asking \cup {b}) <= k + 1
    BY <1>1, OneMore
  <2>2. /\ IsFiniteSet(Asking') /\ IsFiniteSet(Filled') /\ Cardinality(Filled') <= f
        /\ Cardinality(Asking') <= Cardinality(Asking \cup {b})
    BY <1>1, <1>3, <2>1, FS_Subset
  <2>3. /\ Cardinality(Filled') \in Nat /\ Cardinality(Asking') \in Nat
        /\ Cardinality(Asking \cup {b}) \in Nat
    BY <2>1, <2>2, FS_CardinalityType
  <2> QED
    BY <1>1, <1>3, <2>1, <2>2, <2>3 DEF SheetsSuffice
<1>4. ASSUME NEW b \in Asking, NEW i \in Admin!Sheet,
             Filled' \subseteq Filled \cup {i}, Asking' \subseteq Asking \ {b}, setups' = setups
      PROVE  SheetsSuffice'
  <2>1. /\ IsFiniteSet(Filled \cup {i}) /\ Cardinality(Filled \cup {i}) <= f + 1
        /\ IsFiniteSet(Asking \ {b}) /\ Cardinality(Asking \ {b}) = k - 1
    BY <1>1, OneMore, OneLess
  <2>2. /\ IsFiniteSet(Asking') /\ IsFiniteSet(Filled')
        /\ Cardinality(Filled') <= Cardinality(Filled \cup {i})
        /\ Cardinality(Asking') <= Cardinality(Asking \ {b})
    BY <1>4, <2>1, FS_Subset
  <2>3. /\ Cardinality(Filled') \in Nat /\ Cardinality(Asking') \in Nat
        /\ Cardinality(Filled \cup {i}) \in Nat /\ Cardinality(Asking \ {b}) \in Nat
    BY <2>1, <2>2, FS_CardinalityType
  <2> QED
    BY <1>1, <1>4, <2>1, <2>2, <2>3 DEF SheetsSuffice
<1> QED
  BY <1>2, <1>3, <1>4

LEMMA AccountStarts == Admin!AccountInit => AdminInv
<1> SUFFICES ASSUME Admin!AccountInit PROVE AdminInv
  OBVIOUS
<1>1. /\ envAdmin \in {0, 1} /\ account = envAdmin /\ adminFile = 0 /\ adminTmp = 0
      /\ written = [i \in Admin!Sheet |-> 0] /\ setup = [b \in Browser |-> Admin!Away]
      /\ served = TRUE /\ confirmedAs = 0 /\ owners = 0 /\ setups = 0 /\ together = FALSE
  BY DEF Admin!AccountInit, Admin!NoAccount, Admin!OfEnv
<1>2. \A b \in Browser : setup[b].at = "away" /\ setup[b].file = 0
  BY <1>1, AwayIsAway
<1>3. Admin!Underway = {} /\ Asking = {}
  BY <1>2 DEF Admin!Underway, Asking
<1>4. Filled = {}
  BY <1>1, <1>2, SheetsAreFinite DEF Filled, Admin!NoAccount
<1>5. AdminTypes
  <2>1. written \in [Admin!Sheet -> Nat]
    BY <1>1
  <2>2. setup \in [Browser -> Ask]
    BY <1>1, AwayIsAway
  <2>3. setups \in 0 .. MaxSetups
    BY <1>1, AccountConstants
  <2>4. account \in Nat /\ confirmedAs \in Nat /\ owners \in Nat
    BY <1>1
  <2>5. served \in BOOLEAN /\ together \in BOOLEAN
    BY <1>1
  <2>6. adminFile \in Admin!Sheet \cup {0} /\ adminTmp \in Admin!Sheet \cup {0}
    BY <1>1
  <2>7. envAdmin \in {Admin!NoAccount, Admin!OfEnv}
    BY <1>1 DEF Admin!NoAccount, Admin!OfEnv
  <2> QED
    BY <2>1, <2>2, <2>3, <2>4, <2>5, <2>6, <2>7 DEF AdminTypes
<1>6. SheetsSuffice
  BY <1>1, <1>3, <1>4, FS_EmptySet DEF SheetsSuffice
<1>7. OwnerHasFile
  BY <1>1, <1>3 DEF OwnerHasFile, Admin!OneOwner, Admin!NoAccount
<1>8. OneRequest
  BY <1>1, <1>3 DEF OneRequest, Admin!OfEnv
<1> QED
  BY <1>5, <1>6, <1>7, <1>8 DEF AdminInv

\* A request that has passed its check bears the next number.
LEMMA ArriveKeepsAdmin ==
    ASSUME AdminInv, NEW b \in Browser, NEW why \in {"setup", "password"}, Admin!Arrive(b, why)
    PROVE  AdminInv'
<1>1. AdminTypes /\ SheetsSuffice /\ OwnerHasFile /\ (together \/ OneRequest)
  BY DEF AdminInv
<1> DEFINE r == [at |-> "open", for |-> why, secret |-> 1 + setups', file |-> 0]
<1>2. /\ served /\ setup[b].at = "away" /\ setups < MaxSetups /\ setups' = setups + 1
      /\ setup' = [setup EXCEPT ![b] = r]
      /\ together' = (together \/ Admin!Underway # {})
      /\ UNCHANGED <<account, envAdmin, adminFile, adminTmp, written, served, confirmedAs, owners>>
  BY DEF Admin!Arrive, Admin!OfEnv
<1>3. setups \in Nat /\ setups' \in 0 .. MaxSetups /\ setups' \in Nat
  BY <1>1, <1>2, AccountConstants DEF AdminTypes
<1>4. r \in Ask /\ r.at = "open" /\ r.secret = setups + 2 /\ r.file = 0
  BY <1>2, <1>3 DEF Ask
<1> HIDE DEF r
<1>5. /\ setup' \in [Browser -> Ask] /\ setup'[b] = r
      /\ \A c \in Browser : c # b => setup'[c] = setup[c]
  BY <1>1, <1>2, <1>4 DEF AdminTypes, Ask
<1>6. Admin!Underway' = Admin!Underway \cup {b}
  BY <1>4, <1>5 DEF Admin!Underway
<1>7. AdminTypes'
  <2>1. together' \in BOOLEAN
    BY <1>1, <1>2 DEF AdminTypes
  <2> QED
    BY <1>1, <1>2, <1>3, <1>5, <2>1 DEF AdminTypes, Ask
<1>8. SheetsSuffice'
  <2>1. Filled' \subseteq Filled
    BY <1>2, <1>4, <1>5, SheetsAreFinite DEF Filled
  <2>2. Asking' \subseteq Asking \cup {b}
    BY <1>5 DEF Asking
  <2> QED
    BY <1>1, <1>2, <1>3, <2>1, <2>2, SheetsSufficeStill
<1>9. OwnerHasFile'
  <2>1. \A c \in Admin!Underway' : /\ setup'[c].secret > 1
                                   /\ setup'[c].at = "commit" => adminFile # 0
    BY <1>1, <1>3, <1>4, <1>5, <1>6 DEF OwnerHasFile, Admin!Underway, Admin!OfEnv
  <2> QED
    BY <1>1, <1>2, <2>1 DEF OwnerHasFile, Admin!OneOwner, Admin!OfEnv
<1>10. ASSUME ~ together'
       PROVE  OneRequest'
  <2>1. OneRequest /\ Admin!Underway' = {b}
    BY <1>1, <1>2, <1>6, <1>10
  <2>2. confirmedAs <= 1 + setups /\ confirmedAs \in Nat
    BY <1>1, <2>1 DEF OneRequest, AdminTypes, Admin!OfEnv
  <2>3. confirmedAs' <= 1 + setups' /\ r.secret = 1 + setups' /\ confirmedAs < r.secret
    BY <1>2, <1>3, <1>4, <2>2
  <2> QED
    BY <1>2, <1>4, <1>5, <2>1, <2>3 DEF OneRequest, Admin!OfEnv
<1> QED
  BY <1>7, <1>8, <1>9, <1>10 DEF AdminInv

\* The temporary file is emptied, never web-admin.json.
LEMMA OpenTmpKeepsAdmin ==
    ASSUME AdminInv, NEW b \in Browser, Admin!OpenTmp(b)
    PROVE  AdminInv'
<1>1. AdminTypes /\ SheetsSuffice /\ OwnerHasFile /\ (together \/ OneRequest)
  BY DEF AdminInv
<1>2. /\ setup[b].at = "open" /\ setup \in [Browser -> Ask] /\ setup[b] \in Ask
      /\ written' = [written EXCEPT ![adminTmp'] = 0]
      /\ setup' = [setup EXCEPT ![b].at = "write", ![b].file = adminTmp']
      /\ UNCHANGED <<account, envAdmin, adminFile, served, confirmedAs, owners, setups, together>>
  BY <1>1 DEF Admin!OpenTmp, AdminTypes, Ask, Admin!NoAccount
<1>3. /\ adminTmp # 0 => adminTmp' = adminTmp
      /\ adminTmp = 0 => adminTmp' \in Admin!Sheet \ {adminFile}
  <2>1. \E i \in Admin!Sheet :
            written[i] = Admin!NoAccount /\ i # adminFile /\ \A c \in Browser : setup[c].file # i
    BY <1>1, <1>2, FreeSheet
  <2> QED
    BY <2>1 DEF Admin!OpenTmp
<1>4. PICK i \in Admin!Sheet : i = adminTmp'
  BY <1>1, <1>3 DEF AdminTypes
<1> DEFINE r == [setup[b] EXCEPT !.at = "write", !.file = i]
<1>5. r \in Ask /\ r.at = "write" /\ r.file = i /\ r.secret = setup[b].secret
  BY <1>2 DEF Ask
<1>6. /\ setup' \in [Browser -> Ask] /\ setup'[b] = r
      /\ \A c \in Browser : c # b => setup'[c] = setup[c]
  BY <1>2, <1>4, <1>5
<1> HIDE DEF r
<1>7. /\ written' \in [Admin!Sheet -> Nat] /\ written'[i] = 0
      /\ \A j \in Admin!Sheet : j # i => written'[j] = written[j]
  BY <1>1, <1>2, <1>4 DEF AdminTypes
<1>8. Admin!Underway' = Admin!Underway /\ b \in Admin!Underway
  BY <1>2, <1>5, <1>6 DEF Admin!Underway
<1>9. AdminTypes'
  BY <1>1, <1>2, <1>4, <1>6, <1>7 DEF AdminTypes, Ask
<1>10. SheetsSuffice'
  <2>1. Filled' \subseteq Filled \cup {i}
    BY <1>2, <1>4, <1>5, <1>6, <1>7 DEF Filled, Admin!NoAccount
  <2>2. b \in Asking /\ Asking' \subseteq Asking \ {b}
    BY <1>2, <1>5, <1>6 DEF Asking
  <2>3. setups \in Nat
    BY <1>1, AccountConstants DEF AdminTypes
  <2> QED
    BY <1>1, <1>2, <2>1, <2>2, <2>3, SheetsSufficeStill
<1>11. OwnerHasFile'
  BY <1>1, <1>2, <1>5, <1>6, <1>8 DEF OwnerHasFile, Admin!OneOwner, Admin!Underway
<1>12. ASSUME ~ together
       PROVE  OneRequest'
  <2>1. OneRequest /\ \A c \in Admin!Underway' : c = b
    BY <1>1, <1>8, <1>12 DEF OneRequest
  <2>2. adminFile # 0 => i # adminFile /\ written'[adminFile] = written[adminFile]
    BY <1>1, <1>3, <1>4, <1>7, <2>1 DEF OneRequest, AdminTypes
  <2> QED
    BY <1>2, <1>4, <1>5, <1>6, <1>8, <2>1, <2>2, SheetsAreFinite DEF OneRequest
<1> QED
  BY <1>2, <1>9, <1>10, <1>11, <1>12 DEF AdminInv

\* A request that is over.
LEMMA GoneKeepsSheets ==
    ASSUME AdminTypes, SheetsSuffice, NEW b \in Browser,
           setup' = [setup EXCEPT ![b] = Admin!Away],
           adminFile' \in {adminFile, 0, adminTmp}, adminTmp' \in {adminTmp, 0},
           UNCHANGED <<written, setups>>
    PROVE  /\ SheetsSuffice' /\ setup' \in [Browser -> Ask] /\ setup'[b] = Admin!Away
           /\ \A c \in Browser : c # b => setup'[c] = setup[c]
           /\ Admin!Underway' = Admin!Underway \ {b}
<1>1. /\ setup' \in [Browser -> Ask] /\ setup'[b] = Admin!Away
      /\ \A c \in Browser : c # b => setup'[c] = setup[c]
  BY AwayIsAway DEF AdminTypes, Ask
<1>2. Admin!Underway' = Admin!Underway \ {b}
  BY <1>1, AwayIsAway DEF Admin!Underway
<1>3. Filled' \subseteq Filled
  BY <1>1, AwayIsAway, SheetsAreFinite DEF Filled
<1>4. Asking' \subseteq Asking
  BY <1>1, AwayIsAway DEF Asking
<1>5. setups \in Nat
  BY AccountConstants DEF AdminTypes
<1> QED
  BY <1>1, <1>2, <1>3, <1>4, <1>5, SheetsSufficeStill

LEMMA WriteTmpKeepsAdmin ==
    ASSUME AdminInv, NEW b \in Browser, Admin!WriteTmp(b)
    PROVE  AdminInv'
<1>1. AdminTypes /\ SheetsSuffice /\ OwnerHasFile /\ (together \/ OneRequest)
  BY DEF AdminInv
<1>2. /\ setup[b].at = "write" /\ setup \in [Browser -> Ask] /\ setup[b] \in Ask
      /\ UNCHANGED <<account, envAdmin, adminFile, adminTmp, served, confirmedAs, owners, setups, together>>
  BY <1>1 DEF Admin!WriteTmp, AdminTypes, Ask
<1>3. b \in Admin!Underway
  BY <1>2 DEF Admin!Underway
<1>4. CASE setup' = [setup EXCEPT ![b] = Admin!Away] /\ UNCHANGED written
  <2>1. /\ SheetsSuffice' /\ setup' \in [Browser -> Ask] /\ setup'[b] = Admin!Away
        /\ \A c \in Browser : c # b => setup'[c] = setup[c]
        /\ Admin!Underway' = Admin!Underway \ {b}
    BY <1>1, <1>2, <1>4, GoneKeepsSheets
  <2>2. AdminTypes'
    BY <1>1, <1>2, <1>4, <2>1 DEF AdminTypes, Ask
  <2>3. OwnerHasFile'
    BY <1>1, <1>2, <2>1 DEF OwnerHasFile, Admin!OneOwner, Admin!Underway
  <2>4. OneRequest => OneRequest'
    BY <1>2, <1>3, <1>4, <2>1 DEF OneRequest
  <2> QED
    BY <1>1, <1>2, <2>1, <2>2, <2>3, <2>4 DEF AdminInv
<1>5. CASE /\ written' = [written EXCEPT ![setup[b].file] = setup[b].secret]
           /\ setup' = [setup EXCEPT ![b].at = "rename"]
  <2> DEFINE r == [setup[b] EXCEPT !.at = "rename"]
             f == setup[b].file
             s == setup[b].secret
  <2>1. r \in Ask /\ r.at = "rename" /\ r.file = f /\ r.secret = s /\ s \in Nat
    BY <1>2 DEF Ask
  <2>2. /\ setup' \in [Browser -> Ask] /\ setup'[b] = r
        /\ \A c \in Browser : c # b => setup'[c] = setup[c]
    BY <1>2, <1>5, <2>1
  <2>3. /\ written' \in [Admin!Sheet -> Nat]
        /\ \A i \in Admin!Sheet : written'[i] = IF i = f THEN s ELSE written[i]
    BY <1>1, <1>5, <2>1 DEF AdminTypes
  <2> HIDE DEF r
  <2>4. Admin!Underway' = Admin!Underway
    BY <1>2, <1>3, <2>1, <2>2 DEF Admin!Underway
  <2>5. AdminTypes'
    BY <1>1, <1>2, <2>2, <2>3 DEF AdminTypes, Ask
  <2>6. SheetsSuffice'
    <3>1. Filled' \subseteq Filled
      BY <1>2, <2>1, <2>2, <2>3 DEF Filled
    <3>2. Asking' \subseteq Asking
      BY <2>1, <2>2 DEF Asking
    <3>3. setups \in Nat
      BY <1>1, AccountConstants DEF AdminTypes
    <3> QED
      BY <1>1, <1>2, <3>1, <3>2, <3>3, SheetsSufficeStill
  <2>7. OwnerHasFile'
    BY <1>1, <1>2, <2>1, <2>2, <2>4 DEF OwnerHasFile, Admin!OneOwner, Admin!Underway
  <2>8. ASSUME ~ together
        PROVE  OneRequest'
    <3>1. OneRequest /\ \A c \in Admin!Underway' : c = b
      BY <1>1, <1>3, <2>4, <2>8 DEF OneRequest
    <3>2. f = adminTmp /\ adminTmp # 0 /\ f \in Admin!Sheet
      BY <1>1, <1>2, <1>3, <3>1 DEF OneRequest, AdminTypes
    <3>3. written'[adminTmp] = s
      BY <2>3, <3>2
    <3>4. adminFile # 0 => adminFile # f /\ written'[adminFile] = written[adminFile]
      BY <1>1, <2>3, <3>1, <3>2 DEF OneRequest, AdminTypes
    <3> QED
      BY <1>2, <1>3, <2>1, <2>2, <3>1, <3>2, <3>3, <3>4 DEF OneRequest
  <2> QED
    BY <1>2, <2>5, <2>6, <2>7, <2>8 DEF AdminInv
<1> QED
  BY <1>4, <1>5 DEF Admin!WriteTmp, Admin!AfterFailedWrite

\* web-admin.json is the file the request wrote.
LEMMA RenameKeepsAdmin ==
    ASSUME AdminInv, NEW b \in Browser, Admin!Rename(b)
    PROVE  AdminInv'
<1>1. AdminTypes /\ SheetsSuffice /\ OwnerHasFile /\ (together \/ OneRequest)
  BY DEF AdminInv
<1>2. /\ setup[b].at = "rename" /\ setup \in [Browser -> Ask] /\ setup[b] \in Ask /\ adminTmp' = 0
      /\ UNCHANGED <<account, envAdmin, written, served, confirmedAs, owners, setups, together>>
  BY <1>1 DEF Admin!Rename, AdminTypes, Ask
<1>3. b \in Admin!Underway
  BY <1>2 DEF Admin!Underway
<1>4. CASE adminTmp = 0
  <2>1. setup' = [setup EXCEPT ![b] = Admin!Away] /\ UNCHANGED adminFile
    BY <1>4 DEF Admin!Rename
  <2>2. /\ SheetsSuffice' /\ setup' \in [Browser -> Ask] /\ setup'[b] = Admin!Away
        /\ \A c \in Browser : c # b => setup'[c] = setup[c]
        /\ Admin!Underway' = Admin!Underway \ {b}
    BY <1>1, <1>2, <2>1, GoneKeepsSheets
  <2>3. AdminTypes'
    BY <1>1, <1>2, <2>1, <2>2 DEF AdminTypes, Ask
  <2>4. OwnerHasFile'
    BY <1>1, <1>2, <2>1, <2>2 DEF OwnerHasFile, Admin!OneOwner, Admin!Underway
  <2>5. OneRequest => FALSE
    BY <1>2, <1>3, <1>4 DEF OneRequest
  <2> QED
    BY <1>1, <1>2, <2>2, <2>3, <2>4, <2>5 DEF AdminInv
<1>5. CASE adminTmp # 0
  <2> DEFINE r == [setup[b] EXCEPT !.at = "commit", !.file = 0]
  <2>1. adminFile' = adminTmp /\ setup' = [setup EXCEPT ![b] = r]
    BY <1>2, <1>5 DEF Admin!Rename
  <2>2. r \in Ask /\ r.at = "commit" /\ r.file = 0 /\ r.secret = setup[b].secret
    BY <1>2 DEF Ask
  <2>3. /\ setup' \in [Browser -> Ask] /\ setup'[b] = r
        /\ \A c \in Browser : c # b => setup'[c] = setup[c]
    BY <1>2, <2>1, <2>2
  <2> HIDE DEF r
  <2>4. Admin!Underway' = Admin!Underway
    BY <1>2, <1>3, <2>2, <2>3 DEF Admin!Underway
  <2>5. AdminTypes'
    BY <1>1, <1>2, <2>1, <2>3 DEF AdminTypes, Ask
  <2>6. SheetsSuffice'
    <3>1. Filled' \subseteq Filled
      BY <1>2, <2>1, <2>2, <2>3, SheetsAreFinite DEF Filled
    <3>2. Asking' \subseteq Asking
      BY <2>2, <2>3 DEF Asking
    <3>3. setups \in Nat
      BY <1>1, AccountConstants DEF AdminTypes
    <3> QED
      BY <1>1, <1>2, <3>1, <3>2, <3>3, SheetsSufficeStill
  <2>7. OwnerHasFile'
    BY <1>1, <1>2, <1>5, <2>1, <2>2, <2>3, <2>4 DEF OwnerHasFile, Admin!OneOwner, Admin!Underway
  <2>8. ASSUME ~ together
        PROVE  OneRequest'
    <3>1. OneRequest /\ \A c \in Admin!Underway' : c = b
      BY <1>1, <1>3, <2>4, <2>8 DEF OneRequest
    <3>2. /\ written[adminTmp] = setup[b].secret /\ confirmedAs < setup[b].secret
          /\ setup[b].secret \in Nat /\ confirmedAs \in Nat
      BY <1>1, <1>2, <1>3, <3>1 DEF OneRequest, AdminTypes, Ask
    <3>3. written[adminTmp] # 0 /\ written[adminTmp] >= confirmedAs
      BY <3>2
    <3> QED
      BY <1>2, <1>3, <1>5, <2>1, <2>2, <2>3, <3>1, <3>3 DEF OneRequest, Admin!NoAccount
  <2> QED
    BY <1>2, <2>5, <2>6, <2>7, <2>8 DEF AdminInv
<1> QED
  BY <1>4, <1>5

\* The account follows the file; a setup that finds one is refused.
LEMMA CommitKeepsAdmin ==
    ASSUME AdminInv, NEW b \in Browser, Admin!Commit(b)
    PROVE  AdminInv'
<1>1. AdminTypes /\ SheetsSuffice /\ OwnerHasFile /\ (together \/ OneRequest)
  BY DEF AdminInv
<1> DEFINE s == setup[b].secret
<1>2. /\ setup[b].at = "commit" /\ setup[b] \in Ask /\ setup' = [setup EXCEPT ![b] = Admin!Away]
      /\ UNCHANGED <<envAdmin, adminFile, adminTmp, written, served, setups, together>>
      /\ \/ UNCHANGED <<account, confirmedAs, owners>>
         \/ /\ account' = s /\ confirmedAs' = s
            /\ \/ owners' = owners
               \/ account = 0 /\ owners' = owners + 1
  BY <1>1 DEF Admin!Commit, Admin!Taken, Admin!NoAccount, AdminTypes, Ask
<1>3. b \in Admin!Underway
  BY <1>2 DEF Admin!Underway
<1>4. /\ SheetsSuffice' /\ setup' \in [Browser -> Ask] /\ setup'[b] = Admin!Away
      /\ \A c \in Browser : c # b => setup'[c] = setup[c]
      /\ Admin!Underway' = Admin!Underway \ {b}
  BY <1>1, <1>2, GoneKeepsSheets
<1>5. /\ s \in Nat /\ s > 1 /\ adminFile # 0 /\ served /\ owners \in Nat /\ account \in Nat
      /\ confirmedAs \in Nat
  BY <1>1, <1>2, <1>3 DEF OwnerHasFile, AdminTypes, Ask, Admin!OfEnv
<1>6. AdminTypes'
  <2>1. account' \in Nat /\ confirmedAs' \in Nat /\ owners' \in Nat
    BY <1>2, <1>5
  <2> QED
    BY <1>1, <1>2, <1>4, <2>1 DEF AdminTypes, Ask
<1>7. OwnerHasFile'
  <2>1. account = 0 => envAdmin = 0 /\ owners = 0
    BY <1>1, <1>5 DEF OwnerHasFile, Admin!NoAccount
  <2>2. Admin!OneOwner'
    BY <1>1, <1>2, <2>1 DEF OwnerHasFile, Admin!OneOwner, Admin!NoAccount
  <2>3. account' = 0 => account = 0 /\ owners' = owners
    BY <1>2, <1>5
  <2>4. \A c \in Admin!Underway' : /\ setup'[c].secret > Admin!OfEnv
                                   /\ setup'[c].at = "commit" => adminFile' # 0
    BY <1>1, <1>2, <1>4 DEF OwnerHasFile, Admin!Underway
  <2> QED
    BY <1>1, <1>2, <1>5, <2>1, <2>2, <2>3, <2>4 DEF OwnerHasFile, Admin!NoAccount
<1>8. ASSUME ~ together
      PROVE  OneRequest'
  <2>1. OneRequest /\ Admin!Underway' = {}
    BY <1>1, <1>3, <1>4, <1>8 DEF OneRequest
  <2>2. s = 1 + setups /\ setups \in Nat
    BY <1>1, <1>3, <2>1, AccountConstants DEF OneRequest, AdminTypes, Admin!OfEnv
  <2>3. written[adminFile] >= s
    BY <1>2, <1>3, <1>5, <2>1 DEF OneRequest
  <2> QED
    BY <1>2, <1>5, <2>1, <2>2, <2>3 DEF OneRequest, Admin!OfEnv
<1> QED
  BY <1>2, <1>4, <1>6, <1>7, <1>8 DEF AdminInv


\* A start reads the file, and finds it whole unless requests crossed.
LEMMA EnsureAdminKeepsAdmin ==
    ASSUME AdminInv, Admin!EnsureAdmin
    PROVE  AdminInv'
<1>1. AdminTypes /\ SheetsSuffice /\ OwnerHasFile /\ (together \/ OneRequest)
  BY DEF AdminInv
<1>2. /\ served /\ setup' = [b \in Browser |-> Admin!Away]
      /\ served' = (adminFile = 0 \/ written[adminFile] # 0)
      /\ account' = IF adminFile = 0 THEN envAdmin ELSE written[adminFile]
      /\ UNCHANGED <<envAdmin, adminFile, adminTmp, written, confirmedAs, owners, setups, together>>
  BY DEF Admin!EnsureAdmin, Admin!NoAccount
<1>3. \A b \in Browser : setup'[b] = Admin!Away /\ setup'[b].at = "away" /\ setup'[b].file = 0
  BY <1>2, AwayIsAway
<1>4. Admin!Underway' = {} /\ Asking' = {} /\ Filled' \subseteq Filled
  <2>1. Admin!Underway' = {} /\ Asking' = {}
    BY <1>3 DEF Admin!Underway, Asking
  <2>2. Filled' \subseteq Filled
    BY <1>2, <1>3, SheetsAreFinite DEF Filled
  <2> QED
    BY <2>1, <2>2
<1>5. AdminTypes'
  <2>1. setup' \in [Browser -> Ask]
    BY <1>2, AwayIsAway
  <2>2. account' \in Nat
    BY <1>1, <1>2 DEF AdminTypes, Admin!NoAccount, Admin!OfEnv
  <2>3. served' \in BOOLEAN
    BY <1>2
  <2> QED
    BY <1>1, <1>2, <2>1, <2>2, <2>3 DEF AdminTypes
<1>6. SheetsSuffice'
  <2>1. setups \in Nat
    BY <1>1, AccountConstants DEF AdminTypes
  <2> QED
    BY <1>1, <1>2, <1>4, <2>1, SheetsSufficeStill
<1>7. OwnerHasFile'
  <2>1. served' /\ account' = 0 => adminFile = 0 /\ envAdmin = 0
    BY <1>1, <1>2
  <2>2. adminFile = 0 => owners = 0
    BY <1>1 DEF OwnerHasFile, AdminTypes
  <2> QED
    BY <1>1, <1>2, <1>4, <2>1, <2>2 DEF OwnerHasFile, Admin!OneOwner, Admin!NoAccount
<1>8. ASSUME OneRequest
      PROVE  OneRequest'
  <2>1. served'
    BY <1>2, <1>8 DEF OneRequest, Admin!NoAccount
  <2>2. account' >= confirmedAs
    <3>1. CASE adminFile = 0
      <4>1. confirmedAs = 0 /\ account' = envAdmin /\ envAdmin \in {0, 1}
        BY <1>1, <1>2, <3>1 DEF OwnerHasFile, AdminTypes, Admin!NoAccount, Admin!OfEnv
      <4> QED
        BY <4>1
    <3>2. CASE adminFile # 0
      BY <1>2, <1>8, <3>2 DEF OneRequest
    <3> QED
      BY <3>1, <3>2
  <2> QED
    BY <1>2, <1>4, <1>8, <2>1, <2>2 DEF OneRequest
<1> QED
  BY <1>1, <1>2, <1>5, <1>6, <1>7, <1>8 DEF AdminInv

LEMMA AdminKeeps ==
    ASSUME AdminInv, Admin!AccountNext \/ UNCHANGED admin
    PROVE  AdminInv'
<1>1. ASSUME NEW b \in Browser, Admin!Request(b)
      PROVE  AdminInv'
  BY <1>1, ArriveKeepsAdmin, OpenTmpKeepsAdmin, WriteTmpKeepsAdmin, RenameKeepsAdmin,
     CommitKeepsAdmin DEF Admin!Request
<1>2. CASE Admin!EnsureAdmin
  BY <1>2, EnsureAdminKeepsAdmin
<1>3. CASE UNCHANGED admin
  <2>1. /\ UNCHANGED <<account, envAdmin, adminFile, adminTmp, written, setup, served>>
        /\ UNCHANGED <<confirmedAs, owners, setups, together>>
    BY <1>3 DEF admin
  <2>2. Admin!Underway' = Admin!Underway /\ Asking' = Asking /\ Filled' = Filled
    BY <2>1 DEF Admin!Underway, Asking, Filled
  <2>3. AdminTypes' /\ SheetsSuffice'
    BY <2>1, <2>2 DEF AdminInv, AdminTypes, SheetsSuffice
  <2>4. OwnerHasFile'
    BY <2>1, <2>2 DEF AdminInv, OwnerHasFile, Admin!OneOwner
  <2>5. OneRequest => OneRequest'
    BY <2>1, <2>2 DEF OneRequest
  <2> QED
    BY <2>1, <2>3, <2>4, <2>5 DEF AdminInv
<1> QED
  BY <1>1, <1>2, <1>3 DEF Admin!AccountNext
-----------------------------------------------------------------------------
(* The whole: a step of the node is one of the parts, the others stay.      *)

LEMMA PartsMove ==
    ASSUME [ServicesNext]_all
    PROVE  /\ Chat!BotNext \/ UNCHANGED chat
           /\ Landlord!BotHostNext \/ UNCHANGED landlord
           /\ Again!ReembedNext \/ UNCHANGED reembed
           /\ Settings!ConsoleNext \/ UNCHANGED settings
           /\ Work!JobsNext \/ UNCHANGED jobs
           /\ Self!UpdateNext \/ UNCHANGED self
           /\ Admin!AccountNext \/ UNCHANGED admin
<1>1. CASE UNCHANGED all
  BY <1>1 DEF all
<1>2. CASE ServicesNext
  BY <1>2 DEF ServicesNext, InChat, InLandlord, InReembed, InSettings, InJobs, InHttp, InSelf, InAdmin
<1> QED
  BY <1>1, <1>2

\* Telegram forgets an update only when its user has an answer or a message to
\* the user was lost, and an update is answered no more often than there were
\* bots and lost replies (telegram.Bot, whatever stops it and starts it again).
THEOREM BotAnswersWhatItConfirms == ServicesSpec => []UpdatesAreAnswered
<1>1. ServicesInit => ChatInv
  BY ChatStarts DEF ServicesInit
<1>2. ChatInv /\ [ServicesNext]_all => ChatInv'
  BY PartsMove, ChatKeeps
<1>3. ChatInv => UpdatesAreAnswered
  BY DEF ChatInv, AnswersCounted, UpdatesAreAnswered, Chat!RepeatsAreAccountedFor
<1> QED
  BY <1>1, <1>2, <1>3, PTL DEF ServicesSpec

\* The files of the console hold what their writer says, unless requests
\* crossed: telegram.json the token in use, the executable a whole release,
\* web-admin.json the account somebody was told to have; and two browsers never
\* both set up the account (Set, apply and handleSetup, with their restarts).
THEOREM ConsoleFilesAreTrue == ServicesSpec => []FilesHoldUnlessCrossed
<1> DEFINE Inv == LandlordInv /\ SelfInv /\ AdminInv
<1>1. ServicesInit => Inv
  BY LandlordStarts, SelfStarts, AccountStarts DEF ServicesInit
<1>2. Inv /\ [ServicesNext]_all => Inv'
  BY PartsMove, LandlordKeeps, SelfKeeps, AdminKeeps
<1>3. Inv => FilesHoldUnlessCrossed
  <2>1. LandlordInv => Landlord!FileIsToken
    BY DEF LandlordInv, SettersInOrder, Landlord!FileIsToken
  <2>2. SelfInv => Self!ExecutableIsWhole
    BY DEF SelfInv, OneDownload, Self!ExecutableIsWhole
  <2>3. AdminInv => Admin!OneOwner /\ Admin!ConfirmedIsKept
    BY DEF AdminInv, OwnerHasFile, OneRequest, Admin!ConfirmedIsKept
  <2> QED
    BY <2>1, <2>2, <2>3 DEF FilesHoldUnlessCrossed
<1> QED
  BY <1>1, <1>2, <1>3, PTL DEF ServicesSpec

\* At most one bot polls Telegram, whatever calls of Set race the loop of the
\* host: Telegram refuses a second one (BotHost.Run waits for the old bot).
THEOREM OneBotPolls == ServicesSpec => []Landlord!OneBot
<1>1. ServicesInit => LandlordInv
  BY LandlordStarts DEF ServicesInit
<1>2. LandlordInv /\ [ServicesNext]_all => LandlordInv'
  BY PartsMove, LandlordKeeps
<1> QED
  BY <1>1, <1>2, OneBotFollows, PTL DEF ServicesSpec

\* A run of re-embedding that ended has left out only what it counts as missing
\* or failed, and what is marked as indexed can be found, after interrupted
\* runs as well (reembed's pages, batches and marks).
THEOREM ReembeddingIsComplete == ServicesSpec => []RunsLeaveNothingOut
<1>1. ServicesInit => ReembedInv
  BY ReembedStarts DEF ServicesInit
<1>2. ReembedInv /\ [ServicesNext]_all => ReembedInv'
  BY PartsMove, ReembedKeeps
<1>3. ReembedInv => RunsLeaveNothingOut
  BY DEF ReembedInv, RunsLeaveNothingOut
<1> QED
  BY <1>1, <1>2, <1>3, PTL DEF ServicesSpec

\* What the settings page accepted lets the process start, saves build up over
\* restarts, crashes and edits of .env, and rebuilding and re-embedding never
\* run together (handleSettings, the merge of web-config.json, webOps.start).
THEOREM SavedSettingsHold == ServicesSpec => []ConsoleHolds
<1> DEFINE Inv == SettingsInv /\ JobsInv
<1>1. ServicesInit => Inv
  BY ConsoleStarts, JobsStart DEF ServicesInit
<1>2. Inv /\ [ServicesNext]_all => Inv'
  BY PartsMove, ConsoleKeeps, JobsKeep
<1>3. Inv => ConsoleHolds
  BY SettingsHoldThen, OneJobThen DEF ConsoleHolds
<1> QED
  BY <1>1, <1>2, <1>3, PTL DEF ServicesSpec

\* No start of the program runs an older version than the one before, and one
\* that an update promised runs a newer version, unless the system refused the
\* exec or downloads overlapped (Apply and the restart that follows it).
THEOREM ProgramGoesForward == ServicesSpec => UpdatesGoForward
<1>1. ServicesInit => SelfInv
  BY SelfStarts DEF ServicesInit
<1>2. SelfInv /\ [ServicesNext]_all
      => /\ SelfInv'
         /\ [version' # Self!Broken => version' >= version]_(Self!update)
         /\ [promises' < promises => version' > version \/ excuse' # {}]_(Self!update)
  BY PartsMove, SelfKeeps
<1> QED
  BY <1>1, <1>2, PTL DEF ServicesSpec, UpdatesGoForward, Self!NeverOlder, Self!PromisesAreKept
=============================================================================
