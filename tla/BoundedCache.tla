---------------------------- MODULE BoundedCache ----------------------------
(***************************************************************************)
(* What a cache filled on demand promises its clients, whatever locks it   *)
(* takes on the way: every client asks once, for its key.  It gets the     *)
(* value that is cached for the key at that moment; if there is none, the  *)
(* value it makes itself is cached, and at the limit another one leaves.   *)
(* TransportCache and RateLimit implement this module.                     *)
(***************************************************************************)
EXTENDS Integers, FiniteSets

CONSTANTS
    Clients,    \* who asks; a value is named by the client that made it
    Keys,       \* what they ask for
    Limit,      \* values cached at a time
    None,       \* no answer yet
    Failed      \* the value cannot be made

VARIABLES
    key,        \* the key of each client
    cache,      \* the values cached
    got         \* the answer of each client

vars == <<key, cache, got>>

Init ==
    /\ key \in [Clients -> Keys]
    /\ cache = {}
    /\ got = [c \in Clients |-> None]

Cached(k) == {v \in cache : key[v] = k}

Answer(c, v) ==
    /\ got[c] = None
    /\ got' = [got EXCEPT ![c] = v]
    /\ UNCHANGED key

Hit(c) ==
    /\ got[c] = None
    /\ UNCHANGED cache
    /\ \E v \in Cached(key[c]) : Answer(c, v)

\* At the limit some value w leaves; which one is left open.
Add(c) ==
    /\ Answer(c, c)
    /\ Cached(key[c]) = {}
    /\ IF Cardinality(cache) < Limit
       THEN cache' = cache \cup {c}
       ELSE \E w \in cache : cache' = (cache \ {w}) \cup {c}

Fail(c) ==
    /\ Answer(c, Failed)
    /\ UNCHANGED cache

Next == \E c \in Clients : Hit(c) \/ Add(c) \/ Fail(c)

Spec == Init /\ [][Next]_vars
=============================================================================
