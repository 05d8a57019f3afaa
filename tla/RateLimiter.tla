----------------------------- MODULE RateLimiter -----------------------------
(***************************************************************************)
(* The requests to Danbooru (internal/adapter/danbooru): callers take a    *)
(* slot of a rate limiter, sleep until it, ask, and repeat what failed     *)
(* after a pause; an answer that says "slower" pushes the slots back.      *)
(* Time is counted in ticks; a sleeper wakes in the tick it asked for.     *)
(***************************************************************************)
EXTENDS Integers, FiniteSets, Sequences

CONSTANTS
    Caller,
    Interval,    \* ticks between two slots
    Burst,       \* requests that may leave at once after a rest
    Pauses,      \* ticks a Retry-After may ask for
    Retries,     \* 3 in the code
    MaxTime      \* bound on the clock and on the slots given out

RateLimiterAssumption ==
    /\ Interval \in Nat \ {0} /\ Burst \in Nat \ {0}
    /\ Pauses \subseteq Nat /\ Retries \in Nat \ {0} /\ MaxTime \in Nat

VARIABLES
    now,
    nextSlot,    \* rateLimiter.next
    slot,        \* caller -> when it may go on, in its sleep
    spot,        \* caller -> where its get is
    attempt,     \* caller -> number of the attempt
    sent,        \* times requests left, in order
    quiet        \* until when the last penalty lasts

rate == <<now, nextSlot, slot, spot, attempt, sent, quiet>>

Later(a, b) == IF a > b THEN a ELSE b

-----------------------------------------------------------------------------
Grace_Whole == Burst * Interval

\* The first request leaves at once in any case, so the rest is one less.
Grace == (Burst - 1) * Interval

\* wait: what was not used is kept, up to the burst.
Wait(c) ==
    /\ spot[c] = "asking"
    /\ slot' = [slot EXCEPT ![c] = Later(nextSlot, now - Grace)]
    /\ nextSlot' = slot'[c] + Interval
    /\ spot' = [spot EXCEPT ![c] = "waiting"]
    /\ UNCHANGED <<now, attempt, sent, quiet>>

Send(c) ==
    /\ spot[c] = "waiting" /\ slot[c] <= now
    /\ sent' = Append(sent, now)
    /\ spot' = [spot EXCEPT ![c] = "sent"]
    /\ UNCHANGED <<now, nextSlot, slot, attempt, quiet>>

\* The context ends in the sleep: the slot is spent.
Cancel(c) ==
    /\ spot[c] = "waiting"
    /\ spot' = [spot EXCEPT ![c] = "over"]
    /\ UNCHANGED <<now, nextSlot, slot, attempt, sent, quiet>>

\* 200, or an error nobody repeats.
Answered(c) ==
    /\ spot[c] = "sent"
    /\ spot' = [spot EXCEPT ![c] = "over"]
    /\ UNCHANGED <<now, nextSlot, slot, attempt, sent, quiet>>

\* backoff: 1 << attempt, a second is a tick here.
Backoff(n) == IF n = 1 THEN 2 ELSE 4

Repeat(c) ==
    IF attempt[c] + 1 < Retries
    THEN /\ attempt' = [attempt EXCEPT ![c] = @ + 1]
         /\ spot' = [spot EXCEPT ![c] = "pausing"]
         /\ slot' = [slot EXCEPT ![c] = now + Backoff(attempt'[c])]
    ELSE spot' = [spot EXCEPT ![c] = "over"] /\ UNCHANGED <<attempt, slot>>

Broken(c) ==
    /\ spot[c] = "sent"
    /\ Repeat(c)
    /\ UNCHANGED <<now, nextSlot, sent, quiet>>

Penalized_Sets(until) == until
Penalized(until) == Later(nextSlot, until)

\* 429 and 503: observe, penalize, then repeat.
Throttled(c) ==
    /\ spot[c] = "sent"
    /\ \E pause \in Pauses :
         /\ nextSlot' = Penalized(now + pause)
         /\ quiet' = Later(quiet, now + pause)
    /\ Repeat(c)
    /\ UNCHANGED <<now, sent>>

BackoffOver(c) ==
    /\ spot[c] = "pausing" /\ slot[c] <= now
    /\ spot' = [spot EXCEPT ![c] = "asking"]
    /\ UNCHANGED <<now, nextSlot, slot, attempt, sent, quiet>>

Begin(c) ==
    /\ spot[c] = "over" /\ nextSlot < MaxTime
    /\ spot' = [spot EXCEPT ![c] = "asking"]
    /\ attempt' = [attempt EXCEPT ![c] = 0]
    /\ UNCHANGED <<now, nextSlot, slot, sent, quiet>>

\* The clock does not pass anybody's wake-up.
TimePasses ==
    /\ now < MaxTime
    /\ \A c \in Caller : ~(spot[c] \in {"waiting", "pausing"} /\ slot[c] <= now)
    /\ now' = now + 1
    /\ UNCHANGED <<nextSlot, slot, spot, attempt, sent, quiet>>

-----------------------------------------------------------------------------
RateInit ==
    /\ now = 0 /\ nextSlot = 0 - Grace /\ sent = <<>> /\ quiet = 0
    /\ slot = [c \in Caller |-> 0] /\ attempt = [c \in Caller |-> 0]
    /\ spot = [c \in Caller |-> "over"]

RateNext ==
    \/ \E c \in Caller :
         \/ Begin(c) \/ Wait(c) \/ Send(c) \/ Cancel(c) \/ Answered(c)
         \/ Broken(c) \/ Throttled(c) \/ BackoffOver(c)
    \/ TimePasses

-----------------------------------------------------------------------------
RateTypeOK ==
    /\ now \in 0 .. MaxTime /\ nextSlot \in Int /\ quiet \in Nat
    /\ slot \in [Caller -> Int] /\ attempt \in [Caller -> 0 .. Retries - 1]
    /\ spot \in [Caller -> {"asking", "waiting", "sent", "pausing", "over"}]
    /\ sent \in Seq(0 .. MaxTime)

\* In no stretch of time do more requests leave than the burst and one per
\* interval, with callers that come and go, repeat and give up.
RateHolds ==
    \A i, j \in DOMAIN sent :
        i <= j => (j - i + 1) * Interval <= Burst * Interval + (sent[j] - sent[i])

\* What takes its slot after a penalty waits for the end of it, whichever
\* penalty was announced last.
PenaltyHolds == nextSlot >= quiet \/ now >= quiet
=============================================================================
