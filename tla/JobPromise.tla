----------------------------- MODULE JobPromise -----------------------------
(***************************************************************************)
(* What RunTask, CancelTask and TaskStatus promise, wherever a job runs: a *)
(* key stands for one request for good, a job is started at most once, and *)
(* the status it ends in is final.                                         *)
(***************************************************************************)

CONSTANTS Keys, Requests, NoRequest

VARIABLES
    request,   \* request[k]: what the job of key k does, or NoRequest
    status     \* status[k]: "none", "queued", "running" or a final status

promiseVars == <<request, status>>

Final == {"succeeded", "failed", "cancelled"}

Init ==
    /\ request = [k \in Keys |-> NoRequest]
    /\ status = [k \in Keys |-> "none"]

Becomes(k, s) == status' = [status EXCEPT ![k] = s] /\ UNCHANGED request

Create(k, r) ==
    /\ status[k] = "none"
    /\ request' = [request EXCEPT ![k] = r]
    /\ status' = [status EXCEPT ![k] = "queued"]

Start(k) == status[k] = "queued" /\ Becomes(k, "running")

Settle(k, s) == status[k] = "running" /\ Becomes(k, s)

Cancel(k) == status[k] \in {"queued", "running"} /\ Becomes(k, "cancelled")

Next ==
    \E k \in Keys :
        \/ \E r \in Requests : Create(k, r)
        \/ Start(k) \/ Cancel(k)
        \/ \E s \in Final : Settle(k, s)

Spec == Init /\ [][Next]_promiseVars

=============================================================================
