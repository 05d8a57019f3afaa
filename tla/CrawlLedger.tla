---------------------------- MODULE CrawlLedger ----------------------------
(***************************************************************************)
(* What the backfill promises, without leases, nodes or attempts: ids are  *)
(* handed out once, from the newest down, and an id that was handed out    *)
(* stays owed until a worker has crawled it.                               *)
(***************************************************************************)
EXTENDS Integers

CONSTANT Latest

VARIABLES
    frontier,  \* every id from here up to Latest - 1 was handed out
    owed,      \* ids handed out and not yet reported crawled
    done       \* ids crawled at least once

vars == <<frontier, owed, done>>

Init == frontier = Latest /\ owed = {} /\ done = {}

HandOut ==
    \E f \in 1 .. frontier - 1 :
        /\ frontier' = f
        /\ owed' = owed \cup f .. frontier - 1
        /\ UNCHANGED done

\* A report of the ids S.  A late one still counts as crawled but settles
\* nothing.
Report(S) ==
    /\ done' = done \cup S
    /\ owed' \in {owed, owed \ S}
    /\ UNCHANGED frontier

Next == HandOut \/ \E S \in SUBSET (frontier .. Latest - 1) : Report(S)

Spec == Init /\ [][Next]_vars
=============================================================================
