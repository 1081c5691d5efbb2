---------------------------- MODULE AtLeastOnce ----------------------------
(***************************************************************************)
(* What the audit trail promises: a committed event waits, is perhaps      *)
(* received by the platform (any number of times, which the platform       *)
(* counts once), and is settled once and for all: as delivered only when   *)
(* the platform has it, otherwise set aside as quarantined.                *)
(***************************************************************************)

CONSTANT Events

VARIABLES
    status,     \* status[e]: "none", "pending", "delivered" or "quarantined"
    received    \* events the platform has

trailVars == <<status, received>>

Init ==
    /\ status \in [Events -> {"none", "pending"}]
    /\ received = {}

Commit(e) ==
    /\ status[e] = "none"
    /\ status' = [status EXCEPT ![e] = "pending"]
    /\ UNCHANGED received

\* Only what was committed is sent.
Receive(e) ==
    /\ status[e] # "none"
    /\ received' = received \cup {e}
    /\ UNCHANGED status

Deliver(e) ==
    /\ status[e] = "pending"
    /\ e \in received
    /\ status' = [status EXCEPT ![e] = "delivered"]
    /\ UNCHANGED received

\* Several at once: an upgrade sets aside every row without a proof.
Quarantine(S) ==
    /\ \A e \in S : status[e] = "pending"
    /\ status' = [e \in Events |-> IF e \in S THEN "quarantined" ELSE status[e]]
    /\ UNCHANGED received

Next ==
    \/ \E e \in Events : Commit(e) \/ Receive(e) \/ Deliver(e)
    \/ \E S \in SUBSET Events : Quarantine(S)

Spec == Init /\ [][Next]_trailVars

=============================================================================
