------------------------- MODULE AuditOutboxProofs -------------------------
(***************************************************************************)
(* Proofs about AuditOutbox, for any number of events and workers, any     *)
(* batch and attempt budget, and any number of faults.                     *)
(***************************************************************************)
EXTENDS AuditOutbox, TLAPS

\* A lease token is the number of the claim that drew it, and only a pending
\* row is leased.
LeaseCounts ==
    \A e \in Events :
        row[e].token # 0 => row[e].token = row[e].attempts /\ Pending(e)

\* A worker with a delivery in hand knows the row's attempts at its claim.
HoldsClaim ==
    \A w \in Workers :
        pc[w] \in {"deliver", "finalize"} =>
            /\ ev[w] \in Events
            /\ row[ev[w]].state # "absent"
            /\ tok[w] = att[w]
            /\ tok[w] # 0

\* A disposition is what the delivery of this very event justifies.
DispositionJustified ==
    \A w \in Workers :
        pc[w] = "finalize" =>
            /\ disp[w] # "none"
            /\ disp[w] = "acknowledge" => ev[w] \in received
            /\ disp[w] = "retry" => att[w] < MaxAttempts
            /\ disp[w] = "quarantine" => ev[w] \in rejected \/ att[w] >= MaxAttempts

\* An open transaction is alone with its event, whose row is not there yet.
TxAlone ==
    \A w \in Workers :
        pc[w] = "tx" =>
            /\ ev[w] \in Events
            /\ row[ev[w]].state = "absent"
            /\ \A v \in Workers : ev[v] = ev[w] => v = w

\* Rows without a proof are never leased: nothing drains before EnsureTable
\* has run, and no such row is pending afterwards.
LegacySetAside ==
    /\ \A e \in Legacy :
          row[e].token = 0 /\ row[e].state # "absent" /\ (provisioned => ~Pending(e))
    /\ \A w \in Workers : ~provisioned => pc[w] = "idle"

\* The inductive invariant.
IInv ==
    /\ LeaseCounts
    /\ HoldsClaim
    /\ DispositionJustified
    /\ TxAlone
    /\ LegacySetAside
    /\ RetryBudget
    /\ QuarantineJustified

---------------------------------------------------------------------------
States == {"absent", "pending", "delivered", "quarantined"}

\* A row built from well typed parts is well typed.
LEMMA RowType ==
    ASSUME NEW s \in States, NEW a \in Nat, NEW t \in Nat,
           NEW x \in BOOLEAN, NEW y \in BOOLEAN
    PROVE  Row(s, a, t, x, y) \in Rows
  BY DEF Row, Rows, States

\* The fields of a row are the parts it was built from.
LEMMA RowFields ==
    ASSUME NEW r \in Rows
    PROVE  /\ r.state \in States /\ r.attempts \in Nat /\ r.token \in Nat
           /\ r.expired \in BOOLEAN /\ r.ready \in BOOLEAN
  BY DEF Rows, States

\* Leasing (auditoutbox.Claim) keeps a row well typed.
LEMMA LeasedType == ASSUME NEW r \in Rows PROVE Leased(r) \in Rows
  <1>1. r.state \in States /\ r.ready \in BOOLEAN /\ FALSE \in BOOLEAN
    BY RowFields
  <1>2. r.attempts + 1 \in Nat
    BY RowFields
  <1> QED
    BY <1>1, <1>2, RowType DEF Leased

\* Every disposition leaves a well typed row (Acknowledge, Retry, Quarantine).
LEMMA FinalizedType == ASSUME NEW r \in Rows, NEW d PROVE Finalized(r, d) \in Rows
  <1> DEFINE s == CASE d = "acknowledge" -> "delivered"
                    [] d = "quarantine" -> "quarantined"
                    [] OTHER -> "pending"
  <1>1. s \in States
    BY DEF States
  <1>2. (d # "retry") \in BOOLEAN
    OBVIOUS
  <1> QED
    BY <1>1, <1>2, RowType, RowFields DEF Finalized

\* What a worker in the middle of something has in hand.
InHand ==
    \A w \in Workers :
        /\ pc[w] \in {"tx", "deliver", "finalize"} => ev[w] \in Events
        /\ pc[w] \in {"deliver", "finalize"} => left[w] > 0

\* Every variable keeps its type, and a worker that delivers has an event in hand.
LEMMA TypeInvariant == Spec => [](TypeOK /\ InHand)
  <1> USE EventsAssumption, BoundsAssumption DEF States
  <1>1. Init => TypeOK /\ InHand
    <2> SUFFICES ASSUME Init PROVE TypeOK /\ InHand
      OBVIOUS
    <2>1. row \in [Events -> Rows]
      BY RowType DEF Init, Absent, Inserted
    <2>2. provisioned \in BOOLEAN
      BY DEF Init
    <2>3. InHand
      BY DEF Init, InHand
    <2>4. left \in [Workers -> 0..Batch] /\ faults \in 0..MaxFaults
      BY DEF Init
    <2> QED
      BY <2>1, <2>2, <2>3, <2>4 DEF Init, TypeOK, Dispositions
  <1>2. TypeOK /\ InHand /\ [Next]_vars => TypeOK' /\ InHand'
    <2> SUFFICES ASSUME TypeOK, InHand, [Next]_vars PROVE TypeOK' /\ InHand'
      OBVIOUS
    <2> USE DEF TypeOK, InHand, Dispositions
    <2>1. CASE UNCHANGED vars
      BY <2>1 DEF vars, workerVars
    <2>2. CASE EnsureTable
      <3>1. row' \in [Events -> Rows]
        BY <2>2, RowType, RowFields DEF EnsureTable
      <3> QED
        BY <2>2, <3>1 DEF EnsureTable, workerVars
    <2>3. ASSUME NEW w \in Workers, NEW e \in Events, TxRecords(w, e)
          PROVE  TypeOK' /\ InHand'
      BY <2>3 DEF TxRecords
    <2>4. ASSUME NEW w \in Workers, NEW e \in Events, Claim(w, e)
          PROVE  TypeOK' /\ InHand'
      <3>1. Leased(row[e]) \in Rows
        BY LeasedType
      <3>2. row' \in [Events -> Rows]
        BY <2>4, <3>1 DEF Claim
      <3>3. row'[e].token \in Nat /\ row'[e].attempts \in Nat
        BY <3>2, RowFields
      <3> QED
        BY <2>4, <3>2, <3>3 DEF Claim
    <2>5. ASSUME NEW w \in Workers, Tx(w) PROVE TypeOK' /\ InHand'
      <3>1. Inserted \in Rows
        BY RowType DEF Inserted
      <3>2. row' \in [Events -> Rows]
        BY <2>5, <3>1 DEF Tx, TxRollsBack, TxCommits, TxCommitUnknown
      <3> QED
        BY <2>5, <3>2 DEF Tx, TxRollsBack, TxCommits, TxCommitUnknown, Reset
    <2>6. ASSUME NEW w \in Workers, DrainStarts(w) \/ DrainEnds(w)
          PROVE  TypeOK' /\ InHand'
      BY <2>6 DEF DrainStarts, DrainEnds, Reset
    <2>7. ASSUME NEW w \in Workers, Delivery(w) PROVE TypeOK' /\ InHand'
      BY <2>7 DEF Delivery, DeliveryAccepted, DeliveryRejected, DeliveryDeferred,
                  DeliveryUnheard, Disposed, Budgeted
    <2>8. ASSUME NEW w \in Workers, Finalize(w) PROVE TypeOK' /\ InHand'
      <3>1. Finalized(row[ev[w]], disp[w]) \in Rows
        BY <2>8, FinalizedType DEF Finalize
      <3>2. row' \in [Events -> Rows]
        BY <2>8, <3>1 DEF Finalize
      <3> QED
        BY <2>8, <3>2 DEF Finalize, NextIteration, Reset
    <2>9. ASSUME NEW w \in Workers, FinalizeFenced(w) \/ FinalizeFails(w)
          PROVE  TypeOK' /\ InHand'
      BY <2>9 DEF FinalizeFenced, FinalizeFails, NextIteration, Reset
    <2>10. ASSUME NEW w \in Workers, Crash(w) PROVE TypeOK' /\ InHand'
      BY <2>10 DEF Crash, Reset
    <2>11. ASSUME NEW e \in Events, LeaseExpires(e) \/ BackoffElapses(e)
           PROVE  TypeOK' /\ InHand'
      <3> DEFINE r == row[e]
                 late == Row(r.state, r.attempts, r.token, TRUE, r.ready)
                 due == Row(r.state, r.attempts, r.token, r.expired, TRUE)
      <3>0. late \in Rows /\ due \in Rows
        BY RowType, RowFields, ZenonT(60)
      <3>1. row' \in [Events -> Rows]
        BY <2>11, <3>0 DEF LeaseExpires, BackoffElapses
      <3>2. faults' = faults \/ (faults < MaxFaults /\ faults' = faults + 1)
        BY <2>11 DEF LeaseExpires, BackoffElapses
      <3>3. UNCHANGED <<provisioned, pc, ev, tok, att, disp, left, received, rejected>>
        BY <2>11 DEF LeaseExpires, BackoffElapses, workerVars
      <3> QED
        BY <3>1, <3>2, <3>3
    <2> QED
      BY <2>1, <2>2, <2>3, <2>4, <2>5, <2>6, <2>7, <2>8, <2>9, <2>10, <2>11 DEF Next
  <1> QED
    BY <1>1, <1>2, PTL DEF Spec

\* Every reachable state of the outbox has the declared types; in particular
\* DrainAudit never exceeds its batch.
THEOREM TypeCorrect == Spec => []TypeOK
  BY TypeInvariant, PTL

---------------------------------------------------------------------------
\* The inductive invariant is preserved, action by action.
LEMMA InvariantStep == TypeOK /\ InHand /\ IInv /\ [Next]_vars => IInv'
  <1> SUFFICES ASSUME TypeOK, InHand, IInv, [Next]_vars PROVE IInv'
    OBVIOUS
  <1> USE EventsAssumption, BoundsAssumption
  <1> USE DEF TypeOK, Rows, InHand, IInv, LeaseCounts, HoldsClaim, DispositionJustified, TxAlone,
              LegacySetAside, RetryBudget, QuarantineJustified, Pending, Row
  <1>1. CASE UNCHANGED vars
    BY <1>1 DEF vars, workerVars
  <1>2. CASE EnsureTable
    BY <1>2 DEF EnsureTable, workerVars
  <1>3. ASSUME NEW w \in Workers, NEW e \in Events, TxRecords(w, e) PROVE IInv'
    BY <1>3 DEF TxRecords
  <1>4. ASSUME NEW w \in Workers, NEW e \in Events, Claim(w, e) PROVE IInv'
    BY <1>4 DEF Claim, Claimable, Leased
  <1>5. ASSUME NEW w \in Workers, TxRollsBack(w) PROVE IInv'
    BY <1>5 DEF TxRollsBack, Reset
  <1>6. ASSUME NEW w \in Workers, TxCommits(w) \/ TxCommitUnknown(w) PROVE IInv'
    <2>1. /\ pc[w] = "tx" /\ ev[w] \in Events
          /\ row' = [row EXCEPT ![ev[w]] = Inserted]
          /\ pc'[w] \in {"idle", "drain"} /\ ev'[w] = NoEvent
          /\ \A v \in Workers \ {w} : /\ pc'[v] = pc[v] /\ ev'[v] = ev[v]
                                      /\ tok'[v] = tok[v] /\ att'[v] = att[v]
                                      /\ disp'[v] = disp[v]
          /\ UNCHANGED <<provisioned, received, rejected>>
      BY <1>6 DEF TxCommits, TxCommitUnknown, Reset
    <2>2. /\ row'[ev[w]].state = "pending" /\ row'[ev[w]].attempts = 0
          /\ row'[ev[w]].token = 0
          /\ \A f \in Events \ {ev[w]} : row'[f] = row[f]
      BY <2>1 DEF Inserted
    <2>3. ev[w] \notin Legacy
      BY <2>1
    <2>4. LeaseCounts' /\ RetryBudget' /\ QuarantineJustified'
      BY <2>1, <2>2
    <2>5. HoldsClaim' /\ DispositionJustified'
      BY <2>1, <2>2
    <2>6. TxAlone'
      BY <2>1, <2>2
    <2>7. LegacySetAside'
      BY <2>1, <2>2, <2>3
    <2> QED
      BY <2>4, <2>5, <2>6, <2>7
  <1>7. ASSUME NEW w \in Workers, DrainStarts(w) \/ DrainEnds(w) PROVE IInv'
    BY <1>7 DEF DrainStarts, DrainEnds, Reset
  <1>8. ASSUME NEW w \in Workers, Delivery(w) PROVE IInv'
    BY <1>8 DEF Delivery, DeliveryAccepted, DeliveryRejected, DeliveryDeferred,
                DeliveryUnheard, Disposed, Budgeted
  <1>9. ASSUME NEW w \in Workers, Finalize(w) PROVE IInv'
    <2>1. /\ pc[w] = "finalize" /\ Owns(w)
          /\ row' = [row EXCEPT ![ev[w]] = Finalized(@, disp[w])]
          /\ pc'[w] = "drain" /\ ev'[w] = NoEvent
          /\ \A v \in Workers \ {w} : /\ pc'[v] = pc[v] /\ ev'[v] = ev[v]
                                      /\ tok'[v] = tok[v] /\ att'[v] = att[v]
                                      /\ disp'[v] = disp[v]
          /\ UNCHANGED <<provisioned, received, rejected>>
      BY <1>9 DEF Finalize, NextIteration, Reset
    <2>2. ev[w] \in Events /\ Pending(ev[w]) /\ row[ev[w]].attempts = att[w]
      BY <2>1 DEF Owns
    <2>3. /\ row'[ev[w]].state = CASE disp[w] = "acknowledge" -> "delivered"
                                   [] disp[w] = "quarantine" -> "quarantined"
                                   [] OTHER -> "pending"
          /\ row'[ev[w]].attempts = att[w]
          /\ row'[ev[w]].token = 0
          /\ \A f \in Events \ {ev[w]} : row'[f] = row[f]
      BY <2>1, <2>2 DEF Finalized
    <2>4. disp[w] \in {"acknowledge", "retry", "quarantine"}
      BY <2>1 DEF Dispositions
    <2>5. LeaseCounts' /\ RetryBudget' /\ QuarantineJustified'
      BY <2>1, <2>2, <2>3, <2>4
    <2>6. HoldsClaim' /\ DispositionJustified' /\ TxAlone'
      BY <2>1, <2>2, <2>3, <2>4
    <2>7. LegacySetAside'
      BY <2>1, <2>2, <2>3, <2>4
    <2> QED
      BY <2>5, <2>6, <2>7
  <1>10. ASSUME NEW w \in Workers, FinalizeFenced(w) \/ FinalizeFails(w) PROVE IInv'
    BY <1>10 DEF FinalizeFenced, FinalizeFails, NextIteration, Reset
  <1>11. ASSUME NEW w \in Workers, Crash(w) PROVE IInv'
    BY <1>11 DEF Crash, Reset
  <1>12. ASSUME NEW e \in Events, LeaseExpires(e) \/ BackoffElapses(e) PROVE IInv'
    <2>1. \A f \in Events : /\ row'[f].state = row[f].state
                             /\ row'[f].attempts = row[f].attempts
                             /\ row'[f].token = row[f].token
      BY <1>12 DEF LeaseExpires, BackoffElapses
    <2>2. UNCHANGED <<provisioned, pc, ev, tok, att, disp, received, rejected>>
      BY <1>12 DEF LeaseExpires, BackoffElapses, workerVars
    <2> QED
      BY <2>1, <2>2
  <1> QED
    BY <1>1, <1>2, <1>3, <1>4, <1>5, <1>6, <1>7, <1>8, <1>9, <1>10, <1>11, <1>12
       DEF Next, Tx

\* The inductive invariant holds in every reachable state.
LEMMA Invariant == Spec => []IInv
  <1>1. Init => IInv
    BY EventsAssumption, BoundsAssumption
       DEF Init, IInv, LeaseCounts, HoldsClaim, DispositionJustified, TxAlone,
           LegacySetAside, RetryBudget, QuarantineJustified, Pending, Absent, Inserted, Row
  <1> QED
    BY <1>1, TypeInvariant, InvariantStep, PTL DEF Spec

\* No interleaving of crashes, expired leases and fenced workers lets a row
\* wait for a retry beyond its attempt budget.
THEOREM RetryBudgetHolds == Spec => []RetryBudget
  <1>1. IInv => RetryBudget
    BY DEF IInv
  <1> QED
    BY <1>1, Invariant, PTL

\* No event is set aside without a documented reason.
THEOREM QuarantineJustifiedHolds == Spec => []QuarantineJustified
  <1>1. IInv => QuarantineJustified
    BY DEF IInv
  <1> QED
    BY <1>1, Invariant, PTL

\* An unexpired lease is ended by nobody but the worker that holds its token.
THEOREM LeaseRespectedHolds == Spec => LeaseRespected
  <1> DEFINE Fenced ==
        \A e \in Events :
            row[e].token # 0 /\ ~row[e].expired /\ row'[e].token # row[e].token
            => \E w \in Workers : pc[w] = "finalize" /\ ev[w] = e
                   /\ tok[w] = row[e].token /\ pc'[w] = "drain"
  <1>1. TypeOK /\ InHand /\ IInv /\ [Next]_vars => [Fenced]_vars
    <2> SUFFICES ASSUME TypeOK, InHand, IInv, Next,
                        NEW e \in Events, row[e].token # 0, ~row[e].expired,
                        row'[e].token # row[e].token
                 PROVE  \E w \in Workers : pc[w] = "finalize" /\ ev[w] = e
                            /\ tok[w] = row[e].token /\ pc'[w] = "drain"
      OBVIOUS
    <2> USE EventsAssumption DEF TypeOK, Rows, InHand, IInv, LeaseCounts, TxAlone,
                                 LegacySetAside, Pending, Row
    <2>1. row[e].state = "pending" /\ e \notin Legacy
      OBVIOUS
    <2>2. ~EnsureTable
      BY <2>1 DEF EnsureTable
    <2>3. ASSUME NEW w \in Workers, NEW f \in Events, TxRecords(w, f) \/ Claim(w, f)
          PROVE  FALSE
      BY <2>3 DEF TxRecords, Claim, Claimable, Leased
    <2>4. ASSUME NEW w \in Workers, Tx(w) PROVE FALSE
      BY <2>4, <2>1 DEF Tx, TxRollsBack, TxCommits, TxCommitUnknown
    <2>5. ASSUME NEW w \in Workers,
                 \/ DrainStarts(w) \/ DrainEnds(w) \/ Delivery(w)
                 \/ FinalizeFenced(w) \/ FinalizeFails(w) \/ Crash(w)
          PROVE  FALSE
      BY <2>5 DEF DrainStarts, DrainEnds, Delivery, DeliveryAccepted, DeliveryRejected,
                  DeliveryDeferred, DeliveryUnheard, Disposed, FinalizeFenced,
                  FinalizeFails, Crash
    <2>6. ASSUME NEW f \in Events, LeaseExpires(f) \/ BackoffElapses(f) PROVE FALSE
      BY <2>6 DEF LeaseExpires, BackoffElapses
    <2>7. PICK w \in Workers : Finalize(w)
      BY <2>2, <2>3, <2>4, <2>5, <2>6 DEF Next
    <2>8. pc[w] = "finalize" /\ ev[w] = e /\ tok[w] = row[e].token /\ pc'[w] = "drain"
      BY <2>7 DEF Finalize, Owns, NextIteration, Reset
    <2> QED
      BY <2>8
  <1> QED
    BY <1>1, TypeInvariant, Invariant, PTL DEF Spec, LeaseRespected

\* A step of one event is a step of the abstract trail.
LEMMA EventStep ==
    ASSUME NEW e \in Events, A!Commit(e) \/ A!Receive(e) \/ A!Deliver(e)
    PROVE  A!Next
  BY DEF A!Next

\* So is setting a set of events aside.
LEMMA QuarantineStep ==
    ASSUME NEW S \in SUBSET Events, A!Quarantine(S)
    PROVE  A!Next
  BY DEF A!Next

\* The outbox, with its leases, retries, crashes and fences, implements the
\* at-least-once trail: delivered only what the platform has, settled once.
THEOREM OutboxImplementsTrail == Spec => ImplementsAtLeastOnce
  <1> DEFINE status == [e \in Events |->
                           IF row[e].state = "absent" THEN "none" ELSE row[e].state]
  <1>1. Init => A!Init
    BY DEF Init, A!Init, Absent, Inserted, Row
  <1>2. TypeOK /\ InHand /\ IInv /\ [Next]_vars => [A!Next]_(A!trailVars)
    <2> SUFFICES ASSUME TypeOK, InHand, IInv, [Next]_vars
                 PROVE  A!Next \/ UNCHANGED <<status, received>>
      BY DEF A!trailVars
    <2> USE EventsAssumption DEF TypeOK, Rows, InHand, IInv, Pending, Row
    <2>0. \A e \in Events : row[e].state \in States
      BY DEF States
    <2>1. CASE /\ UNCHANGED received
               /\ \A e \in Events : row'[e].state = row[e].state
      BY <2>1
    <2>2. ASSUME NEW e \in Events, row'[e].state = row[e].state, row[e].state # "absent",
                 \A f \in Events : row'[f].state = row[f].state,
                 received' = received \cup {e}
          PROVE  A!Next
      BY <2>2 DEF A!Next, A!Receive
    <2>3. CASE EnsureTable
      <3>1. PICK S \in SUBSET Events : S = {e \in Legacy : Pending(e)}
        OBVIOUS
      <3>2. \A e \in Events : row'[e].state = IF e \in S THEN "quarantined" ELSE row[e].state
        BY <2>3, <3>1 DEF EnsureTable
      <3>3. \A e \in S : status[e] = "pending"
        BY <3>1
      <3>4. status' = [e \in Events |-> IF e \in S THEN "quarantined" ELSE status[e]]
        BY <3>2
      <3>5. A!Quarantine(S)
        BY <2>3, <3>3, <3>4 DEF EnsureTable, A!Quarantine
      <3> QED
        BY <3>5, QuarantineStep
    <2>a. ASSUME NEW e \in Events, NEW s \in States \ {"absent"}, row'[e].state = s,
                 \A f \in Events \ {e} : row'[f] = row[f]
          PROVE  status' = [status EXCEPT ![e] = s]
      BY <2>a
    <2>4. ASSUME NEW w \in Workers, Tx(w) PROVE A!Next \/ UNCHANGED <<status, received>>
      <3>1. CASE TxRollsBack(w)
        BY <3>1, <2>1 DEF TxRollsBack
      <3>2. CASE TxCommits(w) \/ TxCommitUnknown(w)
        <4>1. PICK e \in Events : e = ev[w]
          BY <3>2 DEF TxCommits, TxCommitUnknown
        <4>2. /\ status[e] = "none" /\ UNCHANGED received
              /\ row'[e].state = "pending"
              /\ \A f \in Events \ {e} : row'[f] = row[f]
          BY <3>2, <4>1 DEF TxCommits, TxCommitUnknown, TxAlone, Inserted
        <4>3. status' = [status EXCEPT ![e] = "pending"]
          BY <4>2, <2>a DEF States
        <4>4. A!Commit(e)
          BY <4>2, <4>3 DEF A!Commit
        <4> QED
          BY <4>4, EventStep
      <3> QED
        BY <2>4, <3>1, <3>2 DEF Tx
    <2>5. ASSUME NEW w \in Workers, Delivery(w)
          PROVE  A!Next \/ UNCHANGED <<status, received>>
      BY <2>5, <2>1, <2>2 DEF Delivery, DeliveryAccepted, DeliveryRejected,
                              DeliveryDeferred, DeliveryUnheard, Disposed, HoldsClaim
    <2>6. ASSUME NEW w \in Workers, Finalize(w)
          PROVE  A!Next \/ UNCHANGED <<status, received>>
      <3>0. PICK e \in Events : e = ev[w]
        BY <2>6 DEF Finalize
      <3>1. row[e].state = "pending" /\ UNCHANGED received
        BY <2>6, <3>0 DEF Finalize, Owns, NextIteration
      <3>2. \A f \in Events \ {e} : row'[f] = row[f]
        BY <2>6, <3>0 DEF Finalize
      <3>3. row'[e] = Finalized(row[e], disp[w])
        BY <2>6, <3>0 DEF Finalize
      <3>4. CASE disp[w] = "acknowledge"
        <4>1. row'[e].state = "delivered" /\ e \in received
          BY <2>6, <3>0, <3>3, <3>4 DEF Finalize, Finalized, DispositionJustified
        <4>2. status' = [status EXCEPT ![e] = "delivered"]
          BY <3>2, <4>1, <2>a DEF States
        <4>3. A!Deliver(e)
          BY <3>1, <4>1, <4>2 DEF A!Deliver
        <4> QED
          BY <4>3, EventStep
      <3>5. CASE disp[w] = "quarantine"
        <4>1. row'[e].state = "quarantined"
          BY <3>3, <3>5 DEF Finalized
        <4>2. status' = [f \in Events |-> IF f \in {e} THEN "quarantined" ELSE status[f]]
          BY <3>2, <4>1
        <4>3. A!Quarantine({e})
          BY <3>1, <4>2 DEF A!Quarantine
        <4>4. {e} \in SUBSET Events
          OBVIOUS
        <4> QED
          BY <4>3, <4>4, QuarantineStep
      <3>6. CASE disp[w] \notin {"acknowledge", "quarantine"}
        <4>1. row'[e].state = "pending"
          BY <3>3, <3>6 DEF Finalized
        <4> QED
          BY <3>1, <3>2, <4>1, <2>1
      <3> QED
        BY <3>4, <3>5, <3>6
    <2>7. ASSUME NEW w \in Workers, NEW e \in Events, TxRecords(w, e) \/ Claim(w, e)
          PROVE  UNCHANGED <<status, received>>
      BY <2>7, <2>1 DEF TxRecords, Claim, Leased
    <2>8. ASSUME NEW w \in Workers,
                 \/ DrainStarts(w) \/ DrainEnds(w)
                 \/ FinalizeFenced(w) \/ FinalizeFails(w) \/ Crash(w)
          PROVE  UNCHANGED <<status, received>>
      BY <2>8, <2>1 DEF DrainStarts, DrainEnds, FinalizeFenced, FinalizeFails, Crash,
                        NextIteration
    <2>9. ASSUME NEW e \in Events, LeaseExpires(e) \/ BackoffElapses(e)
          PROVE  UNCHANGED <<status, received>>
      BY <2>9, <2>1, SMTT(30) DEF LeaseExpires, BackoffElapses
    <2>10. CASE UNCHANGED vars
      BY <2>10, <2>1 DEF vars
    <2> QED
      BY <2>3, <2>4, <2>5, <2>6, <2>7, <2>8, <2>9, <2>10 DEF Next
  <1> QED
    BY <1>1, <1>2, TypeInvariant, Invariant, PTL DEF Spec, ImplementsAtLeastOnce, A!Spec

=============================================================================
