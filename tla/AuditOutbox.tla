---------------------------- MODULE AuditOutbox ----------------------------
(***************************************************************************)
(* audit, internal/auditoutbox and core/audit_delivery.go: audit events    *)
(* are inserted in the transaction of the change they describe and drained *)
(* to the platform afterwards.  A worker is a process (a Lambda container, *)
(* a cron handler, a task) that runs transactions and drains; it may crash *)
(* or freeze between any two steps.  A claim leases one row under a fresh  *)
(* token, the delivery holds no database resource, and the final update is *)
(* fenced by the token.  The platform's ingress is external.               *)
(***************************************************************************)
EXTENDS Integers, FiniteSets

CONSTANTS
    Events,        \* audit events, each the subject of at most one transaction
    Legacy,        \* events an older SDK inserted without an invocation proof
    Workers,       \* processes
    MaxAttempts,   \* auditMaximumAttempts
    Batch,         \* auditDrainBatch
    MaxFaults,     \* bound: crashes, lost finalizations and expired leases
    NoEvent

ASSUME EventsAssumption == Legacy \subseteq Events /\ NoEvent \notin Events
ASSUME BoundsAssumption ==
    MaxAttempts \in Nat \ {0} /\ Batch \in Nat \ {0} /\ MaxFaults \in Nat

VARIABLES
    row,          \* row[e]: the outbox row of event e
    provisioned,  \* EnsureTable has run in this app's schema
    pc,           \* pc[w]: where worker w is
    ev,           \* ev[w]: the event of w's transaction or delivery
    tok,          \* tok[w]: Delivery.LeaseToken
    att,          \* att[w]: Delivery.Attempts
    disp,         \* disp[w]: the disposition deliverAudit returned
    left,         \* left[w]: iterations DrainAudit may still do
    received,     \* platform: events it has recorded
    rejected,     \* history: events the platform or the proof check refused
    faults        \* faults so far

workerVars == <<pc, ev, tok, att, disp, left>>
vars == <<row, provisioned, workerVars, received, rejected, faults>>

\* token is the number of the claim that drew it, 0 for NULL: every claim
\* draws a new UUID, and the n-th claim of a row sets attempts to n.
Row(state, attempts, token, expired, ready) ==
    [state |-> state, attempts |-> attempts, token |-> token,
     expired |-> expired, ready |-> ready]

Absent == Row("absent", 0, 0, FALSE, TRUE)
Inserted == Row("pending", 0, 0, FALSE, TRUE)

Init ==
    /\ row = [e \in Events |-> IF e \in Legacy THEN Inserted ELSE Absent]
    /\ provisioned = FALSE
    /\ pc = [w \in Workers |-> "idle"]
    /\ ev = [w \in Workers |-> NoEvent]
    /\ tok = [w \in Workers |-> 0]
    /\ att = [w \in Workers |-> 0]
    /\ disp = [w \in Workers |-> "none"]
    /\ left = [w \in Workers |-> 0]
    /\ received = {}
    /\ rejected = {}
    /\ faults = 0

Pending(e) == row[e].state = "pending"

---------------------------------------------------------------------------
\* EnsureTable at install or upgrade: rows without a proof are set aside.
\* It may run again at any time.
EnsureTable ==
    /\ row' = [e \in Events |->
                  IF Pending(e) /\ e \in Legacy
                  THEN Row("quarantined", row[e].attempts, 0, FALSE, row[e].ready)
                  ELSE row[e]]
    /\ provisioned' = TRUE
    /\ UNCHANGED <<workerVars, received, rejected, faults>>

\* A worker forgets its delivery.
Reset(w, where) ==
    /\ pc' = [pc EXCEPT ![w] = where]
    /\ ev' = [ev EXCEPT ![w] = NoEvent]
    /\ tok' = [tok EXCEPT ![w] = 0]
    /\ att' = [att EXCEPT ![w] = 0]
    /\ disp' = [disp EXCEPT ![w] = "none"]

\* ms.Tx: the change and audit.Record's insert, not yet committed.  Record
\* fails before any SQL without a parsed proof, and the transaction with it.
TxRecords(w, e) ==
    /\ pc[w] = "idle"
    /\ provisioned
    /\ row[e].state = "absent"
    /\ \A v \in Workers : ev[v] # e
    /\ pc' = [pc EXCEPT ![w] = "tx"]
    /\ ev' = [ev EXCEPT ![w] = e]
    /\ UNCHANGED <<row, provisioned, tok, att, disp, left, received, rejected, faults>>

TxRollsBack(w) ==
    /\ pc[w] = "tx"
    /\ Reset(w, "idle")
    /\ UNCHANGED <<row, provisioned, left, received, rejected, faults>>

\* Commit; runAppTx saw Recorded, so the best-effort drain follows.
TxCommits(w) ==
    /\ pc[w] = "tx"
    /\ row' = [row EXCEPT ![ev[w]] = Inserted]
    /\ Reset(w, "drain")
    /\ left' = [left EXCEPT ![w] = Batch]
    /\ UNCHANGED <<provisioned, received, rejected, faults>>

\* The commit's answer is lost: Tx returns an error and nothing is drained,
\* but the row is there.
TxCommitUnknown(w) ==
    /\ pc[w] = "tx"
    /\ row' = [row EXCEPT ![ev[w]] = Inserted]
    /\ Reset(w, "idle")
    /\ UNCHANGED <<provisioned, left, received, rejected, faults>>

---------------------------------------------------------------------------
\* ms.DrainAudit from a cron handler or a maintenance job.
DrainStarts(w) ==
    /\ pc[w] = "idle"
    /\ provisioned
    /\ Reset(w, "drain")
    /\ left' = [left EXCEPT ![w] = Batch]
    /\ UNCHANGED <<row, provisioned, received, rejected, faults>>

\* Mutant of Claimable: an expired lease is not taken over.
ClaimableUnleased(e) == Pending(e) /\ row[e].ready /\ row[e].token = 0

Claimable(e) ==
    /\ Pending(e)
    /\ row[e].ready
    /\ row[e].token = 0 \/ row[e].expired

Leased(r) == Row(r.state, r.attempts + 1, r.attempts + 1, FALSE, r.ready)

\* claimAudit: lease one row in its own short database scope.
Claim(w, e) ==
    /\ pc[w] = "drain"
    /\ left[w] > 0
    /\ Claimable(e)
    /\ row' = [row EXCEPT ![e] = Leased(@)]
    /\ pc' = [pc EXCEPT ![w] = "deliver"]
    /\ ev' = [ev EXCEPT ![w] = e]
    /\ tok' = [tok EXCEPT ![w] = row'[e].token]
    /\ att' = [att EXCEPT ![w] = row'[e].attempts]
    /\ UNCHANGED <<provisioned, disp, left, received, rejected, faults>>

\* Nothing to claim, the batch is done, the claim query failed or the
\* context of the drain has ended.
DrainEnds(w) ==
    /\ pc[w] = "drain"
    /\ Reset(w, "idle")
    /\ UNCHANGED <<row, provisioned, left, received, rejected, faults>>

---------------------------------------------------------------------------
\* Mutant of Budgeted: one attempt too few.
BudgetedEarly(w, d) ==
    IF d = "retry" /\ att[w] + 1 >= MaxAttempts THEN "quarantine" ELSE d

\* A retry of a row that used up its attempts becomes a quarantine.
Budgeted(w, d) == IF d = "retry" /\ att[w] >= MaxAttempts THEN "quarantine" ELSE d

Disposed(w, d) ==
    /\ pc' = [pc EXCEPT ![w] = "finalize"]
    /\ disp' = [disp EXCEPT ![w] = Budgeted(w, d)]
    /\ UNCHANGED <<row, provisioned, ev, tok, att, left, faults>>

\* The platform has the event, or had it already, and says so.
DeliveryAccepted(w) ==
    /\ pc[w] = "deliver"
    /\ received' = received \cup {ev[w]}
    /\ Disposed(w, "acknowledge")
    /\ UNCHANGED rejected

\* The stored proof does not parse, or the platform answers 400, 409, 413, 422.
DeliveryRejected(w) ==
    /\ pc[w] = "deliver"
    /\ rejected' = rejected \cup {ev[w]}
    /\ Disposed(w, "quarantine")
    /\ UNCHANGED received

\* Mutant of DeliveryDeferred: any answer counts as an acknowledgement.
DeliveryDeferredAcked(w) ==
    /\ pc[w] = "deliver"
    /\ Disposed(w, "acknowledge")
    /\ UNCHANGED <<received, rejected>>

\* No authority, no transport, or another status.
DeliveryDeferred(w) ==
    /\ pc[w] = "deliver"
    /\ Disposed(w, "retry")
    /\ UNCHANGED <<received, rejected>>

\* The platform recorded the event but the answer was lost: a retry as well.
DeliveryUnheard(w) ==
    /\ pc[w] = "deliver"
    /\ received' = received \cup {ev[w]}
    /\ Disposed(w, "retry")
    /\ UNCHANGED rejected

---------------------------------------------------------------------------
\* Mutant of Owns: the update names the row, not its lease.
OwnsAnyLease(w) == Pending(ev[w])

\* Acknowledge, Retry and Quarantine touch the row only under its token.
Owns(w) == Pending(ev[w]) /\ row[ev[w]].token = tok[w]

Finalized(r, d) ==
    Row(CASE d = "acknowledge" -> "delivered"
          [] d = "quarantine" -> "quarantined"
          [] OTHER -> "pending",
        r.attempts, 0, FALSE, d # "retry")

\* One iteration of DrainAudit is over.
NextIteration(w) ==
    /\ Reset(w, "drain")
    /\ left' = [left EXCEPT ![w] = @ - 1]
    /\ UNCHANGED <<provisioned, received, rejected>>

Finalize(w) ==
    /\ pc[w] = "finalize"
    /\ Owns(w)
    /\ row' = [row EXCEPT ![ev[w]] = Finalized(@, disp[w])]
    /\ NextIteration(w)
    /\ UNCHANGED faults

\* ErrLeaseLost: no row matched.
FinalizeFenced(w) ==
    /\ pc[w] = "finalize"
    /\ ~Owns(w)
    /\ NextIteration(w)
    /\ UNCHANGED <<row, faults>>

\* The database is not reachable within two seconds: the lease stays.
FinalizeFails(w) ==
    /\ pc[w] = "finalize"
    /\ faults < MaxFaults
    /\ faults' = faults + 1
    /\ NextIteration(w)
    /\ UNCHANGED row

\* The process dies; an open transaction is rolled back by the database.
Crash(w) ==
    /\ pc[w] # "idle"
    /\ faults < MaxFaults
    /\ faults' = faults + 1
    /\ Reset(w, "idle")
    /\ UNCHANGED <<row, provisioned, left, received, rejected>>

---------------------------------------------------------------------------
\* Time: two minutes pass since a claim, its owner alive (a frozen Lambda,
\* counted as a fault) or gone.
OwnerAlive(e) == \E w \in Workers : ev[w] = e /\ tok[w] = row[e].token

LeaseExpires(e) ==
    /\ row[e].token # 0
    /\ ~row[e].expired
    /\ \/ ~OwnerAlive(e) /\ UNCHANGED faults
       \/ OwnerAlive(e) /\ faults < MaxFaults /\ faults' = faults + 1
    /\ row' = [row EXCEPT ![e] = Row(@.state, @.attempts, @.token, TRUE, @.ready)]
    /\ UNCHANGED <<provisioned, workerVars, received, rejected>>

\* available_at is reached.
BackoffElapses(e) ==
    /\ Pending(e)
    /\ ~row[e].ready
    /\ row' = [row EXCEPT ![e] = Row(@.state, @.attempts, @.token, @.expired, TRUE)]
    /\ UNCHANGED <<provisioned, workerVars, received, rejected, faults>>

---------------------------------------------------------------------------
Tx(w) == TxRollsBack(w) \/ TxCommits(w) \/ TxCommitUnknown(w)

Delivery(w) ==
    DeliveryAccepted(w) \/ DeliveryRejected(w) \/ DeliveryDeferred(w) \/ DeliveryUnheard(w)

Next ==
    \/ EnsureTable
    \/ \E w \in Workers, e \in Events : TxRecords(w, e) \/ Claim(w, e)
    \/ \E w \in Workers :
          \/ Tx(w) \/ DrainStarts(w) \/ DrainEnds(w) \/ Delivery(w)
          \/ Finalize(w) \/ FinalizeFenced(w) \/ FinalizeFails(w) \/ Crash(w)
    \/ \E e \in Events : LeaseExpires(e) \/ BackoffElapses(e)

Spec == Init /\ [][Next]_vars

\* Drains keep being started (every commit starts one, and a module with a
\* backlog schedules ms.DrainAudit) in goroutines of their own, however many
\* transactions the process runs meanwhile; a started one claims while it can,
\* and time passes.  Nothing is assumed of the platform.
Fairness ==
    /\ WF_vars(EnsureTable)
    /\ \A e \in Events : WF_vars(LeaseExpires(e)) /\ WF_vars(BackoffElapses(e))
    /\ \A w \in Workers :
          /\ WF_vars(Tx(w)) /\ SF_vars(DrainStarts(w)) /\ WF_vars(DrainEnds(w))
          /\ WF_vars(Delivery(w))
          /\ WF_vars(Finalize(w) \/ FinalizeFenced(w))
    /\ \A e \in Events : SF_vars(\E w \in Workers : Claim(w, e))

FairSpec == Spec /\ Fairness

---------------------------------------------------------------------------
Rows ==
    [state : {"absent", "pending", "delivered", "quarantined"}, attempts : Nat,
     token : Nat, expired : BOOLEAN, ready : BOOLEAN]

Dispositions == {"none", "acknowledge", "retry", "quarantine"}

\* The type of every variable.
TypeOK ==
    /\ row \in [Events -> Rows]
    /\ provisioned \in BOOLEAN
    /\ pc \in [Workers -> {"idle", "tx", "drain", "deliver", "finalize"}]
    /\ ev \in [Workers -> Events \cup {NoEvent}]
    /\ tok \in [Workers -> Nat]
    /\ att \in [Workers -> Nat]
    /\ disp \in [Workers -> Dispositions]
    /\ left \in [Workers -> 0..Batch]
    /\ received \subseteq Events
    /\ rejected \subseteq Events
    /\ faults \in 0..MaxFaults

\* A retry never outlives the budget: a row waiting unleased has attempts to
\* spare, however crashes, fenced workers and expired leases interleave.
RetryBudget ==
    \A e \in Events :
        Pending(e) /\ row[e].token = 0 => row[e].attempts < MaxAttempts

\* No event is set aside without one of the documented reasons: no proof, a
\* permanent rejection of this very event, or an exhausted budget.
QuarantineJustified ==
    \A e \in Events :
        row[e].state = "quarantined" =>
            e \in Legacy \cup rejected \/ row[e].attempts >= MaxAttempts

\* A rotating fence: while a lease is unexpired nobody but the worker that
\* holds its token changes the row, so a slow worker whose lease was taken
\* over cannot settle or release the row under its new owner.
LeaseRespected ==
    [][\A e \in Events :
          row[e].token # 0 /\ ~row[e].expired /\ row'[e].token # row[e].token
          => \E w \in Workers : pc[w] = "finalize" /\ ev[w] = e
                 /\ tok[w] = row[e].token /\ pc'[w] = "drain"]_vars

\* The outbox implements AtLeastOnce: delivered only if the platform has the
\* event, settled at most once, never changed or sent afresh thereafter.
A == INSTANCE AtLeastOnce WITH
        status <- [e \in Events |->
                      IF row[e].state = "absent" THEN "none" ELSE row[e].state]

ImplementsAtLeastOnce == A!Spec

\* Every committed event is settled in the end, also after lost commits,
\* crashes and expired leases.
EventuallySettled ==
    \A e \in Events :
        Pending(e) ~> row[e].state \in {"delivered", "quarantined"}

=============================================================================
