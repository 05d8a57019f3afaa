------------------------------- MODULE Account -------------------------------
(***************************************************************************)
(* The console's account (httpapi/auth.go): the first browser that comes   *)
(* sets it up, and later ones change its password.  It is written to       *)
(* web-admin.json, by way of a temporary file all requests share, with no  *)
(* lock held, and then taken into memory; the next process reads the file, *)
(* or its environment without one.                                         *)
(***************************************************************************)
EXTENDS Integers, FiniteSets

CONSTANTS
    Browser,    \* who sends requests
    MaxSetups,  \* bound on requests
    MaxMishaps  \* bound on failing writes and restarts

AccountAssumption == MaxSetups \in Nat /\ MaxMishaps \in Nat

VARIABLES
    account,    \* cfg.AdminPassword: NoAccount, OfEnv, or the request it is from
    envAdmin,   \* the account of the environment, NoAccount without one
    adminFile,  \* the inode of web-admin.json, 0 before the first request
    adminTmp,   \* the inode of web-admin.json.tmp, 0 without one
    written,    \* inode -> the account it holds, NoAccount when it is empty
    setup,      \* browser -> where its request is, what for, which inode it writes
    served,     \* the process is up; FALSE when EnsureAdmin refused the file
    confirmed,  \* the last account somebody was told to have
    owners,     \* setups that were answered with success
    setups, slips,
    together    \* ghost: two requests were between their check and the lock

accountVars == <<account, envAdmin, adminFile, adminTmp, written, setup, served, confirmed,
                 owners, setups, slips, together>>

NoAccount == 0
OfEnv == 1
Sheet == 1 .. MaxSetups
Away == [at |-> "away", for |-> "setup", secret |-> NoAccount, file |-> 0]
Underway == {b \in Browser : setup[b].at # "away"}

-----------------------------------------------------------------------------
(* handleSetup and handlePassword *)

Taken_Unasked == FALSE
Taken == account # NoAccount

\* The check of a request: a setup finds no account, a change of the password
\* gives the current one.  Whoever fails it is refused, and nothing changes.
Arrive(b, for) ==
    /\ served /\ setup[b].at = "away" /\ setups < MaxSetups
    /\ IF for = "setup" THEN ~ Taken ELSE account # NoAccount
    /\ setups' = setups + 1
    /\ setup' = [setup EXCEPT ![b] = [at |-> "open", for |-> for, secret |-> OfEnv + setups', file |-> 0]]
    /\ together' = (together \/ Underway # {})
    /\ UNCHANGED <<account, envAdmin, adminFile, adminTmp, written, served, confirmed, owners, slips>>

\* O_CREATE|O_TRUNC under one name.
OpenTmp(b) ==
    /\ setup[b].at = "open"
    /\ adminTmp' = IF adminTmp # 0 THEN adminTmp ELSE CHOOSE i \in Sheet :
           written[i] = NoAccount /\ i # adminFile /\ \A c \in Browser : setup[c].file # i
    /\ written' = [written EXCEPT ![adminTmp'] = NoAccount]
    /\ setup' = [setup EXCEPT ![b].at = "write", ![b].file = adminTmp']
    /\ UNCHANGED <<account, envAdmin, adminFile, served, confirmed, owners, setups, slips, together>>

\* A write that fails ends the request, and leaves the temporary file.
AfterFailedWrite_Renames(b) == [setup EXCEPT ![b].at = "rename"]
AfterFailedWrite(b) == [setup EXCEPT ![b] = Away]

WriteTmp(b) ==
    /\ setup[b].at = "write"
    /\ \/ /\ written' = [written EXCEPT ![setup[b].file] = setup[b].secret]
          /\ setup' = [setup EXCEPT ![b].at = "rename"]
          /\ UNCHANGED slips
       \/ /\ slips < MaxMishaps /\ slips' = slips + 1
          /\ setup' = AfterFailedWrite(b)
          /\ UNCHANGED written
    /\ UNCHANGED <<account, envAdmin, adminFile, adminTmp, served, confirmed, owners, setups, together>>

\* Whatever has the name of the temporary file now becomes web-admin.json.
Rename(b) ==
    /\ setup[b].at = "rename"
    /\ IF adminTmp = 0 THEN setup' = [setup EXCEPT ![b] = Away] /\ UNCHANGED adminFile
       ELSE adminFile' = adminTmp /\ setup' = [setup EXCEPT ![b].at = "commit", ![b].file = 0]
    /\ adminTmp' = 0
    /\ UNCHANGED <<account, envAdmin, written, served, confirmed, owners, setups, slips, together>>

\* Under the lock: a setup looks again, a change of the password does not.
Commit(b) ==
    /\ setup[b].at = "commit"
    /\ setup' = [setup EXCEPT ![b] = Away]
    /\ IF setup[b].for = "setup" /\ Taken THEN UNCHANGED <<account, confirmed, owners>>
       ELSE /\ account' = setup[b].secret /\ confirmed' = setup[b].secret
            /\ owners' = IF setup[b].for = "setup" THEN owners + 1 ELSE owners
    /\ UNCHANGED <<envAdmin, adminFile, adminTmp, written, served, setups, slips, together>>

-----------------------------------------------------------------------------
\* EnsureAdmin at a start: the file goes before the environment, and an empty
\* one cannot be parsed.
EnsureAdmin ==
    /\ served /\ slips < MaxMishaps /\ slips' = slips + 1
    /\ setup' = [b \in Browser |-> Away]
    /\ served' = (adminFile = 0 \/ written[adminFile] # NoAccount)
    /\ account' = IF adminFile = 0 THEN envAdmin ELSE written[adminFile]
    /\ UNCHANGED <<envAdmin, adminFile, adminTmp, written, confirmed, owners, setups, together>>

AccountInit ==
    /\ envAdmin \in {NoAccount, OfEnv} /\ account = envAdmin
    /\ adminFile = 0 /\ adminTmp = 0
    /\ written = [i \in Sheet |-> NoAccount]
    /\ setup = [b \in Browser |-> Away]
    /\ served = TRUE /\ confirmed = NoAccount /\ owners = 0
    /\ setups = 0 /\ slips = 0 /\ together = FALSE

Request(b) ==
    \/ \E for \in {"setup", "password"} : Arrive(b, for)
    \/ OpenTmp(b) \/ WriteTmp(b) \/ Rename(b) \/ Commit(b)

AccountNext == (\E b \in Browser : Request(b)) \/ EnsureAdmin

AccountSpec == AccountInit /\ [][AccountNext]_accountVars

-----------------------------------------------------------------------------
\* One setup at the most succeeds, and none beside an account of the
\* environment, however requests and restarts of the process lie.
OneOwner == owners <= (IF envAdmin = NoAccount THEN 1 ELSE 0)

\* Whoever was told to have the account has it until a later request, also
\* after a restart, and the next process starts; unless two requests crossed:
\* the file is then of one and the memory of the other, or the file is empty.
ConfirmedIsKept == together \/ (served /\ account >= confirmed)
=============================================================================
