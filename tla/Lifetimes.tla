----------------------------- MODULE Lifetimes -----------------------------
(***************************************************************************)
(* What refcache.Cache promises its callers, without the cache: a resource *)
(* is opened once, is used by some callers, and is disposed of once and    *)
(* only while nobody uses it.                                              *)
(***************************************************************************)

CONSTANTS Callers, Values

VARIABLES
    stage,   \* stage[v]: "none", "open" or "closed"
    users    \* users[v]: the callers between a successful Get and its release

lifeVars == <<stage, users>>

Init ==
    /\ stage = [v \in Values |-> "none"]
    /\ users = [v \in Values |-> {}]

\* A factory call returns a new resource.
Open(v) ==
    /\ stage[v] = "none"
    /\ stage' = [stage EXCEPT ![v] = "open"]
    /\ UNCHANGED users

\* Resources nobody uses may be disposed of.
Disposable(D) == \A v \in D : stage[v] = "open" /\ users[v] = {}

Disposed(D) == [v \in Values |-> IF v \in D THEN "closed" ELSE stage[v]]

Dispose(D) ==
    /\ Disposable(D)
    /\ stage' = Disposed(D)
    /\ UNCHANGED users

\* Caller c starts to use v; what made room for v is disposed of in the same step.
Use(c, v, D) ==
    /\ stage[v] = "open"
    /\ v \notin D
    /\ c \notin users[v]
    /\ Disposable(D)
    /\ stage' = Disposed(D)
    /\ users' = [users EXCEPT ![v] = @ \cup {c}]

Unuse(c, v) ==
    /\ c \in users[v]
    /\ users' = [users EXCEPT ![v] = @ \ {c}]
    /\ UNCHANGED stage

Next ==
    \/ \E v \in Values : Open(v)
    \/ \E D \in SUBSET Values : Dispose(D)
    \/ \E c \in Callers, v \in Values, D \in SUBSET Values : Use(c, v, D)
    \/ \E c \in Callers, v \in Values : Unuse(c, v)

Spec == Init /\ [][Next]_lifeVars

=============================================================================
