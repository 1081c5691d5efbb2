---------------------------- MODULE PinnedCache ----------------------------
(***************************************************************************)
(* refcache.Cache by its keys, as its users may think of it: Get is one    *)
(* step, which finds the key's entry or fills it, and in a full cache puts *)
(* out one entry that nobody pins.                                         *)
(***************************************************************************)
EXTENDS Naturals, FiniteSets

CONSTANTS Callers, Keys, MaxSize, None

VARIABLES
    cached,  \* the keys that have an entry
    pins     \* pins[c]: the key c has pinned, None if none

cacheVars == <<cached, pins>>

Init ==
    /\ cached = {}
    /\ pins = [c \in Callers |-> None]

Unpinned == {k \in cached : \A c \in Callers : pins[c] # k}

\* What an insert may put out: nothing while there is room, then one entry.
Outgoing ==
    IF Cardinality(cached) < MaxSize THEN {{}} ELSE {{k} : k \in Unpinned}

Pin(c, k) ==
    /\ pins[c] = None
    /\ pins' = [pins EXCEPT ![c] = k]

Hit(c, k) ==
    /\ k \in cached
    /\ Pin(c, k)
    /\ UNCHANGED cached

Fill(c, k, out) ==
    /\ k \notin cached
    /\ Pin(c, k)
    /\ cached' = (cached \ out) \cup {k}

Unpin(c) ==
    /\ pins[c] # None
    /\ pins' = [pins EXCEPT ![c] = None]
    /\ UNCHANGED cached

Next ==
    \E c \in Callers :
        \/ \E k \in Keys : Hit(c, k) \/ \E out \in Outgoing : Fill(c, k, out)
        \/ Unpin(c)

Spec == Init /\ [][Next]_cacheVars

=============================================================================
