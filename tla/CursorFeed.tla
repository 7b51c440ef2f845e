----------------------------- MODULE CursorFeed -----------------------------
(***************************************************************************)
(* What crawling with a cursor promises, whatever is published, deleted,   *)
(* fails or crashes on the way: an article is settled (stored, or given up *)
(* for a reason) in one transaction, the cursor moves in a later one, and  *)
(* forward only, to where everything is settled.  A process that dies      *)
(* between the two does work twice and loses nothing.                      *)
(* BoardCrawl, CafeCrawl and Store implement this module.                  *)
(***************************************************************************)
EXTENDS Integers

CONSTANTS
    Feeds,      \* whatever has a cursor of its own
    Ids         \* the articles, numbered as they are published

VARIABLES
    settled,    \* the published articles of each feed no walk needs to find
    cursor      \* where the next walk of each feed stops, 0 for no row

vars == <<settled, cursor>>

Init ==
    /\ settled = [f \in Feeds |-> {}]
    /\ cursor = [f \in Feeds |-> 0]

\* What is settled stays so.
Settle ==
    /\ settled' \in [Feeds -> SUBSET Ids]
    /\ \A f \in Feeds : settled[f] \subseteq settled'[f]
    /\ UNCHANGED cursor

Advance(f) ==
    \E k \in Ids :
        /\ k > cursor[f]
        /\ 1..k \subseteq settled[f]
        /\ cursor' = [cursor EXCEPT ![f] = k]
        /\ UNCHANGED settled

Next == Settle \/ \E f \in Feeds : Advance(f)

Spec == Init /\ [][Next]_vars

\* What it comes to: the next walk may stop at the cursor.
NothingBehind ==
    /\ cursor \in [Feeds -> Ids \cup {0}]
    /\ \A f \in Feeds : 1..cursor[f] \subseteq settled[f]

\* Another configuration: a feed keeps its cursor or starts from nothing, and
\* what it is asked for anew lies above.
Reconfigure ==
    /\ settled' \in [Feeds -> SUBSET Ids]
    /\ cursor' \in [Feeds -> Ids \cup {0}]
    /\ \A f \in Feeds : /\ cursor'[f] \in {0, cursor[f]}
                        /\ 1..cursor'[f] \subseteq settled'[f]
=============================================================================
