------------------------------- MODULE Limiter -------------------------------
(***************************************************************************)
(* The concurrency limiter (internal/app/adaptive.go): a channel of slots, *)
(* a debt of slots that were in use when the limit shrank, and a window of *)
(* outcomes the limit is adjusted by.                                      *)
(*                                                                         *)
(* Channel operations are not under the mutex: giveBack looks at the debt  *)
(* and pushes later, and a resize moves slots one by one while workers     *)
(* take and push.  `limit` moves along with that loop: the field is only   *)
(* read under the mutex, that is, before or after it.                      *)
(***************************************************************************)
EXTENDS Integers

CONSTANTS
    MinLimit, MaxLimit, StartLimit,
    Enough,   \* outcomes from which on failures count, 8 in the code
    Sample    \* bound: outcomes after which the interval is over at the latest

ASSUME LimiterAssumption ==
    /\ MinLimit \in Nat \ {0} /\ MaxLimit \in Nat /\ MinLimit <= MaxLimit
    /\ StartLimit \in MinLimit .. MaxLimit
    /\ Enough \in Nat \ {0} /\ Sample \in Nat \ {0}

VARIABLES
    limit,
    tokens,     \* slots in the channel
    debt,
    held,       \* slots in use
    returning,  \* givers that saw no debt and have not pushed yet
    window,     \* outcomes since the last adjustment
    goal        \* what setLocked moves the limit to, 0 when the mutex is free

limiter == <<limit, tokens, debt, held, returning, window, goal>>

Outcomes == {"ok", "slow", "failed"}
NoWindow == [o \in Outcomes |-> 0]

-----------------------------------------------------------------------------
Acquire ==
    /\ tokens > 0
    /\ tokens' = tokens - 1
    /\ held' = held + 1
    /\ UNCHANGED <<limit, debt, returning, window, goal>>

\* giveBack, under the mutex: pay a debt, or see none ...
PayDebt ==
    /\ goal = 0 /\ held > 0 /\ debt > 0
    /\ debt' = debt - 1
    /\ held' = held - 1
    /\ UNCHANGED <<limit, tokens, returning, window, goal>>

SeeNoDebt ==
    /\ goal = 0 /\ held > 0 /\ debt = 0
    /\ held' = held - 1
    /\ returning' = returning + 1
    /\ UNCHANGED <<limit, tokens, debt, window, goal>>

\* ... and push, without it; a full channel drops the slot.
Pushed_Lost == tokens
Pushed == IF tokens < MaxLimit THEN tokens + 1 ELSE tokens

Push ==
    /\ returning > 0
    /\ returning' = returning - 1
    /\ tokens' = Pushed
    /\ UNCHANGED <<limit, debt, held, window, goal>>

-----------------------------------------------------------------------------
(* Adjustments. *)

Total(w) == w["ok"] + w["slow"] + w["failed"]

ShouldShrink(w) ==
    w["slow"] > 0 \/ (Total(w) >= Enough /\ w["failed"] * 4 > Total(w))

Clamp_NoCeiling(t) == IF t < MinLimit THEN MinLimit ELSE t
Clamp(t) == IF t < MinLimit THEN MinLimit ELSE IF t > MaxLimit THEN MaxLimit ELSE t

Target(w) ==
    IF Total(w) = 0 THEN limit
    ELSE IF ShouldShrink(w) THEN limit \div 2
    ELSE IF w["ok"] > 0 THEN limit + 1
    ELSE limit

\* setLocked begins; nothing to do when the target is the limit.
Goal(t) == IF Clamp(t) = limit THEN 0 ELSE Clamp(t)

Adjust(w) == window' = NoWindow /\ goal' = Goal(Target(w))

\* Report: count, and adjust when the interval is over.
Report(o) ==
    /\ goal = 0
    /\ LET w == [window EXCEPT ![o] = @ + 1] IN
       \/ Adjust(w)
       \/ Total(w) < Sample /\ window' = w /\ UNCHANGED goal
    /\ UNCHANGED <<limit, tokens, debt, held, returning>>

Tick ==
    /\ goal = 0 /\ Total(window) > 0
    /\ Adjust(window)
    /\ UNCHANGED <<limit, tokens, debt, held, returning>>

SetLimit(t) ==
    /\ goal = 0 /\ Goal(t) # 0
    /\ goal' = Goal(t)
    /\ UNCHANGED <<limit, tokens, debt, held, returning, window>>

GrowBy_Slot == tokens' = Pushed /\ UNCHANGED debt

\* One turn of setLocked's loop: a debt is forgiven before a slot is made,
GrowBy == IF debt > 0 THEN debt' = debt - 1 /\ UNCHANGED tokens
          ELSE tokens' = Pushed /\ UNCHANGED debt

ShrinkBy_NoDebt == IF tokens > 0 THEN tokens' = tokens - 1 /\ UNCHANGED debt
                   ELSE UNCHANGED <<tokens, debt>>

\* an idle slot is taken before a debt is made.
ShrinkBy == IF tokens > 0 THEN tokens' = tokens - 1 /\ UNCHANGED debt
            ELSE debt' = debt + 1 /\ UNCHANGED tokens

Resize ==
    /\ goal # 0
    /\ \/ goal > limit /\ GrowBy /\ limit' = limit + 1
       \/ goal < limit /\ ShrinkBy /\ limit' = limit - 1
    /\ goal' = IF limit' = goal THEN 0 ELSE goal
    /\ UNCHANGED <<held, returning, window>>

-----------------------------------------------------------------------------
LimiterInit ==
    /\ limit = StartLimit /\ tokens = StartLimit
    /\ debt = 0 /\ held = 0 /\ returning = 0
    /\ window = NoWindow /\ goal = 0

LimiterNext ==
    \/ Acquire \/ PayDebt \/ SeeNoDebt \/ Push
    \/ (\E o \in Outcomes : Report(o)) \/ Tick
    \/ (\E t \in Nat : SetLimit(t)) \/ Resize

LimiterSpec == LimiterInit /\ [][LimiterNext]_limiter

-----------------------------------------------------------------------------
LimiterTypeOK ==
    /\ limit \in MinLimit .. MaxLimit
    /\ tokens \in Nat /\ debt \in Nat /\ held \in Nat /\ returning \in Nat
    /\ window \in [Outcomes -> Nat]
    /\ goal \in {0} \cup MinLimit .. MaxLimit

\* No slot is lost and none is made up, at every turn of a resize and with
\* any number of givers between their look at the debt and their push.
SlotsConserved == tokens + held + returning = limit + debt

\* A giver that saw no debt finds room in the channel, even when the limit
\* shrank and grew since: the default branch of giveBack's select, which
\* would drop a slot for good, is never taken.
NoPushDropped == returning > 0 => tokens < MaxLimit
=============================================================================
