------------------------------- MODULE Indexer -------------------------------
(***************************************************************************)
(* Indexer.IndexBatch (internal/app/indexer.go) over the Limiter: a loop   *)
(* that takes a slot per post, a goroutine per post that downloads,        *)
(* embeds, gives the slot back and appends to a batch they all share, and  *)
(* flushes of that batch, at most Senders at a time, the last one by       *)
(* IndexBatch itself.  The context may end at any time.                    *)
(***************************************************************************)
EXTENDS Limiter, FiniteSets

CONSTANTS
    Post,         \* the posts left after the duplicate check
    SubmitBatch,
    Senders,      \* 2 in the code
    Main          \* IndexBatch itself, as a flusher

ASSUME IndexerAssumption ==
    /\ SubmitBatch \in Nat \ {0} /\ Senders \in Nat \ {0} /\ Main \notin Post

VARIABLES
    main,       \* where IndexBatch's own goroutine is
    next,       \* the post whose slot it asks for
    at,         \* post -> where its goroutine is
    good,       \* posts whose processPost returned an image
    batch,      \* images appended and not yet taken by a flush
    ready,      \* flusher -> what it is sending
    saved,      \* counted in report.Saved
    failed,     \* in report.Failed
    cancelled   \* the context is done

indexer == <<main, next, at, good, batch, ready, saved, failed, cancelled>>
vars == <<limiter, indexer>>

Flushers == Post \cup {Main}

-----------------------------------------------------------------------------
(* The loop. *)

\* for _, post := range work: the context is looked at first ...
Loop ==
    /\ main = "loop"
    /\ IF cancelled \/ \A p \in Post : at[p] # "todo"
       THEN main' = "wait" /\ UNCHANGED next
       ELSE main' = "acquire" /\ \E p \in Post : at[p] = "todo" /\ next' = p
    /\ UNCHANGED <<limiter, at, good, batch, ready, saved, failed, cancelled>>

\* ... then a slot is waited for.  A select takes either branch if both are
\* ready: a slot may still be taken after the end of the context.
Launch ==
    /\ main = "acquire"
    /\ Acquire
    /\ at' = [at EXCEPT ![next] = "busy"]
    /\ main' = "loop"
    /\ UNCHANGED <<next, good, batch, ready, saved, failed, cancelled>>

GiveUp ==
    /\ main = "acquire" /\ cancelled
    /\ main' = "wait"
    /\ UNCHANGED <<limiter, next, at, good, batch, ready, saved, failed, cancelled>>

\* wg.Wait(), then the last flush.
AllDone ==
    /\ main = "wait"
    /\ \A p \in Post : at[p] \in {"todo", "done"}
    /\ main' = "flush"
    /\ UNCHANGED <<limiter, next, at, good, batch, ready, saved, failed, cancelled>>

-----------------------------------------------------------------------------
(* A post's goroutine. *)

\* processPost and Report(classify(err)).
Process(p) ==
    /\ at[p] = "busy"
    /\ \E o \in Outcomes :
         /\ Report(o)
         /\ good' = IF o = "ok" THEN good \cup {p} ELSE good
    /\ at' = [at EXCEPT ![p] = "leaving"]
    /\ UNCHANGED <<main, next, batch, ready, saved, failed, cancelled>>

\* release(), before anything is sent.
Release(p) ==
    /\ at[p] = "leaving"
    /\ \/ PayDebt /\ at' = [at EXCEPT ![p] = "free"]
       \/ SeeNoDebt /\ at' = [at EXCEPT ![p] = "pushing"]
    /\ UNCHANGED <<main, next, good, batch, ready, saved, failed, cancelled>>

ReleaseEnds(p) ==
    /\ at[p] = "pushing"
    /\ Push
    /\ at' = [at EXCEPT ![p] = "free"]
    /\ UNCHANGED <<main, next, good, batch, ready, saved, failed, cancelled>>

\* A failure is reported unless the context is done.
Drop(p) ==
    /\ at[p] = "free" /\ p \notin good
    /\ failed' = IF cancelled THEN failed ELSE failed \cup {p}
    /\ at' = [at EXCEPT ![p] = "done"]
    /\ UNCHANGED <<limiter, main, next, good, batch, ready, saved, cancelled>>

\* Whether the batch is full is asked here, under the lock, and acted on
\* after it.
AppendToBatch(p) ==
    /\ at[p] = "free" /\ p \in good
    /\ batch' = batch \cup {p}
    /\ at' = [at EXCEPT ![p] = IF Cardinality(batch') >= SubmitBatch THEN "flush" ELSE "done"]
    /\ UNCHANGED <<limiter, main, next, good, ready, saved, failed, cancelled>>

-----------------------------------------------------------------------------
(* flush *)

Flushing(f) == IF f = Main THEN main = "flush" ELSE at[f] = "flush"

\* The flush of f is over: its goroutine, or IndexBatch, with it.
Over(f) ==
    /\ ready' = [ready EXCEPT ![f] = {}]
    /\ IF f = Main THEN main' = "returned" /\ UNCHANGED at
       ELSE at' = [at EXCEPT ![f] = "done"] /\ UNCHANGED main

Sending == {f \in Flushers : ready[f] # {}}

Rest_Kept == batch
Rest == {}

\* A sender is free: take the whole batch, whatever has come into it.
Take(f) ==
    /\ Flushing(f) /\ ready[f] = {}
    /\ Cardinality(Sending) < Senders
    /\ batch # {}
    /\ ready' = [ready EXCEPT ![f] = batch]
    /\ batch' = Rest
    /\ UNCHANGED <<limiter, main, next, at, good, saved, failed, cancelled>>

NothingToSend(f) ==
    /\ Flushing(f) /\ ready[f] = {}
    /\ Cardinality(Sending) < Senders
    /\ batch = {}
    /\ Over(f)
    /\ UNCHANGED <<limiter, next, good, batch, saved, failed, cancelled>>

FailedToo(f) == failed \cup ready[f]

\* sink.Submit, which may fail for any reason, the end of the context among
\* them (the last flush gets a grace period).
Submit(f) ==
    /\ ready[f] # {}
    /\ \/ saved' = saved \cup ready[f] /\ UNCHANGED failed
       \/ failed' = FailedToo(f) /\ UNCHANGED saved
    /\ Over(f)
    /\ UNCHANGED <<limiter, next, good, batch, cancelled>>

Cancel ==
    /\ ~cancelled /\ main # "returned"
    /\ cancelled' = TRUE
    /\ UNCHANGED <<limiter, main, next, at, good, batch, ready, saved, failed>>

-----------------------------------------------------------------------------
Init ==
    /\ LimiterInit
    /\ main = "loop" /\ next = Main
    /\ at = [p \in Post |-> "todo"]
    /\ good = {} /\ batch = {} /\ saved = {} /\ failed = {}
    /\ ready = [f \in Flushers |-> {}]
    /\ cancelled = FALSE

Flush(f) == Take(f) \/ NothingToSend(f) \/ Submit(f)

Goroutine(p) == Process(p) \/ Release(p) \/ ReleaseEnds(p) \/ Drop(p) \/ AppendToBatch(p) \/ Flush(p)

IndexBatch == Loop \/ Launch \/ GiveUp \/ AllDone \/ Flush(Main)

\* The ticker of the limiter and the hand on its dial.
Dial == (Tick \/ Resize \/ \E t \in 0 .. MaxLimit + 1 : SetLimit(t)) /\ UNCHANGED indexer

Next ==
    \/ IndexBatch \/ (\E p \in Post : Goroutine(p)) \/ Cancel
    \/ Dial

\* Goroutines are scheduled, calls have timeouts, a mutex is handed on.
Spec ==
    /\ Init /\ [][Next]_vars
    /\ WF_vars(IndexBatch)
    /\ \A p \in Post : SF_vars(Goroutine(p))
    /\ WF_vars(Resize /\ UNCHANGED indexer)

-----------------------------------------------------------------------------
\* Types, and what the limiter counts is what goroutines hold.
TypeOK ==
    /\ LimiterTypeOK
    /\ main \in {"loop", "acquire", "wait", "flush", "returned"}
    /\ at \in [Post -> {"todo", "busy", "leaving", "pushing", "free", "flush", "done"}]
    /\ good \subseteq Post /\ batch \subseteq good
    /\ ready \in [Flushers -> SUBSET good]
    /\ saved \subseteq Post /\ failed \subseteq Post
    /\ held = Cardinality({p \in Post : at[p] \in {"busy", "leaving"}})
    /\ returning = Cardinality({p \in Post : at[p] = "pushing"})

\* The report counts every post once, however flushes overlap: none twice,
\* none left out unless the context ended, and nothing that was embedded is
\* dropped without a word even then.
ReportAddsUp ==
    /\ saved \cap failed = {}
    /\ main = "returned" =>
         /\ good \subseteq saved \cup failed
         /\ ~cancelled => saved \cup failed = Post

\* "SubmitBatch is the most that is sent to the center at once"
\* (indexer.go:52): capacity checks leave room for that many.
SubmitBatchIsTheMost == \A f \in Flushers : Cardinality(ready[f]) <= SubmitBatch
=============================================================================
