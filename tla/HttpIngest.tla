----------------------------- MODULE HttpIngest -----------------------------
(***************************************************************************)
(* Submissions over HTTP: the client of a worker node repeats what it got  *)
(* no answer or a server error for (internal/adapter/httpapi/client.go),   *)
(* and the central node may still be at work on the attempts it gave up    *)
(* (handleIngest, internal/adapter/httpapi/server.go, and Ingest.Submit).  *)
(* All nodes here submit one and the same post: a retry and a range, or a  *)
(* range given to two nodes.  Vectors of two nodes differ, by their device,*)
(* so a vector is named by the node that made it.                          *)
(***************************************************************************)
EXTENDS Integers, FiniteSets

CONSTANTS
    Node,
    Calls,       \* bound: calls of Submit per node
    Retries,     \* 3 in the code
    Nobody

HttpIngestAssumption ==
    Calls \in Nat /\ Retries \in Nat \ {0} /\ Nobody \notin Node

VARIABLES
    posting,     \* node -> where its Submit is
    call,        \* node -> number of that call
    try,         \* node -> attempt, from 1
    request,     \* attempt -> where the central node is with it
    kept,        \* whose vector image_vectors holds
    entry,       \* whose vector the index got last
    mark,        \* indexed_at is set
    wrote,       \* nodes whose vector has been in both
    verdict,     \* ghost: nodes whose call has had an answer that is final
    crossed      \* ghost: attempts of two nodes were at once between the stores and the mark

server == <<request, kept, entry, mark, wrote, crossed>>
client == <<posting, call, try, verdict>>
http == <<server, client>>

Attempt == Node \X (1 .. Calls) \X (1 .. Retries)
Latest(n) == <<n, call[n], try[n]>>
NotArrived == "none"

Refusals == {"401", "4xx", "409", "507"}
Answers == Refusals \cup {"200", "500"}

-----------------------------------------------------------------------------
(* Submit of the client. *)

\* What Submit returned is the place where its node is at.
Resting == {"idle", "ok", "failed", "full"}

\* The connection is made or not, the request arrives or not.
PostAttempt(n, c, t) ==
    /\ posting' = [posting EXCEPT ![n] = "waiting"]
    /\ \/ request' = [request EXCEPT ![<<n, c, t>>] = "check"]
       \/ UNCHANGED request
    /\ UNCHANGED <<kept, entry, mark, wrote, crossed>>

Submit(n) ==
    /\ posting[n] \in Resting /\ call[n] < Calls
    /\ call' = [call EXCEPT ![n] = @ + 1]
    /\ try' = [try EXCEPT ![n] = 1]
    /\ verdict' = verdict \ {n}
    /\ PostAttempt(n, call[n] + 1, 1)

NextTry_Same(n) == try[n]
NextTry(n) == try[n] + 1

\* After the pause, unless the context ends in it.
PostAgain(n) ==
    /\ posting[n] = "pausing"
    /\ \/ /\ try' = [try EXCEPT ![n] = NextTry(n)]
          /\ PostAttempt(n, call[n], NextTry(n))
       \/ posting' = [posting EXCEPT ![n] = "failed"] /\ UNCHANGED <<try, server>>
    /\ UNCHANGED <<call, verdict>>

Exhausted_Ok == "ok"
\* "All attempts failed" is an error.
Exhausted == "failed"

Repeat(n) == posting' = [posting EXCEPT ![n] = IF try[n] < Retries THEN "pausing" ELSE Exhausted]

Final_Below500(answer) == answer \in {"401", "4xx", "409"}
\* classifyIngestStatus: a full index is a 5xx and yet final.
Final(answer) == answer \in Refusals

GetAnswer(n) ==
    /\ posting[n] = "waiting"
    /\ LET answer == request[Latest(n)] IN
       /\ answer \in Answers
       /\ \/ /\ answer = "200"
             /\ posting' = [posting EXCEPT ![n] = "ok"]
          \/ /\ answer # "200" /\ Final(answer)
             /\ posting' = [posting EXCEPT ![n] = IF answer = "507" THEN "full" ELSE "failed"]
          \/ /\ answer # "200" /\ ~Final(answer)
             /\ Repeat(n)
       /\ verdict' = IF answer \in Refusals THEN verdict \cup {n} ELSE verdict
    /\ UNCHANGED <<call, try, server>>

\* No connection, a broken one, 120 seconds without an answer.
NoAnswer(n) ==
    /\ posting[n] = "waiting"
    /\ Repeat(n)
    /\ UNCHANGED <<call, try, verdict, server>>

-----------------------------------------------------------------------------
(* The central node, attempt by attempt. *)

At(r, from, to) == request[r] = from /\ request' = [request EXCEPT ![r] = to]

\* The token, Decode, the number of items, checkRoom, ValidateVectors.
Check(r) ==
    /\ \/ At(r, "check", "save")
       \/ \E answer \in Refusals : At(r, "check", answer)
    /\ UNCHANGED <<kept, entry, mark, wrote, crossed>>

\* Attempts that have saved and are not done.
Between == {r \in Attempt : request[r] \in {"index", "mark"}}

Unmarked_Not == mark
\* ON CONFLICT DO UPDATE SET vector, indexed_at = NULL
Unmarked == FALSE

SaveVectorBatch(r) ==
    /\ At(r, "save", "index")
    /\ kept' = r[1] /\ mark' = Unmarked
    /\ crossed' = (crossed \/ \E q \in Between : q[1] # r[1])
    /\ UNCHANGED <<entry, wrote>>

Upsert(r) ==
    /\ At(r, "index", "mark")
    /\ entry' = r[1]
    /\ wrote' = wrote \cup {r[1]}
    /\ UNCHANGED <<kept, mark, crossed>>

\* A mark that fails is only logged; it is for the image, not the vector.
MarkIndexedBatch(r) ==
    /\ At(r, "mark", "200")
    /\ mark' \in {mark, TRUE}
    /\ UNCHANGED <<kept, entry, wrote, crossed>>

\* An error of a store, also because the client has hung up.
Fail(r) ==
    /\ \E at \in {"check", "save", "index"} : At(r, at, "500")
    /\ UNCHANGED <<kept, entry, mark, wrote, crossed>>

-----------------------------------------------------------------------------
HttpInit ==
    /\ posting = [n \in Node |-> "idle"] /\ call = [n \in Node |-> 0] /\ try = [n \in Node |-> 1]
    /\ request = [r \in Attempt |-> NotArrived]
    /\ kept = Nobody /\ entry = Nobody /\ mark = FALSE
    /\ wrote = {} /\ verdict = {} /\ crossed = FALSE

SubmitStep(n) == PostAgain(n) \/ GetAnswer(n) \/ NoAnswer(n)

Handle(r) ==
    (Check(r) \/ SaveVectorBatch(r) \/ Upsert(r) \/ MarkIndexedBatch(r) \/ Fail(r)) /\ UNCHANGED client

HttpNext ==
    \/ \E n \in Node : Submit(n) \/ SubmitStep(n)
    \/ \E r \in Attempt : Handle(r)

-----------------------------------------------------------------------------
HttpTypeOK ==
    /\ posting \in [Node -> Resting \cup {"waiting", "pausing"}]
    /\ call \in [Node -> 0 .. Calls] /\ try \in [Node -> 1 .. Retries]
    /\ request \in [Attempt -> Answers \cup {NotArrived, "check", "save", "index", "mark"}]
    /\ {kept, entry} \subseteq Node \cup {Nobody} /\ {mark, crossed} \subseteq BOOLEAN
    /\ wrote \subseteq Node /\ verdict \subseteq Node

\* A submission that returned no error has been in both stores, however many
\* of its attempts were lost on the way there or back.
AcceptedIsStored == \A n \in Node : posting[n] = "ok" => n \in wrote

\* What the center refused is not sent again: neither a mismatch nor a full
\* index goes away, "mixed in with the 500s it would be sent without end"
\* (client.go:126-127).
RefusedIsNotRepeated == \A n \in verdict : posting[n] \in Resting

\* Repeated attempts that overtake each other leave the index with another
\* vector than the backup only unmarked, where a rebuild will find it; only
\* attempts of two nodes at once can leave them apart for good.
MarkedAgrees == mark /\ ~crossed => entry = kept

\* Submit returns: attempts are counted and an answer is waited for 120 seconds.
SubmitReturns == \A n \in Node : posting[n] \in {"waiting", "pausing"} ~> posting[n] \in Resting
=============================================================================
