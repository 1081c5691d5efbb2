------------------------- MODULE DevDirectoryProofs -------------------------
(***************************************************************************)
(* Proofs about DevDirectory, for any number of producers, references and  *)
(* reader goroutines and any lease times.                                  *)
(***************************************************************************)
EXTENDS DevDirectory, TLAPS

\* The constants as naturals, and the bounds the proofs rest on.
LEMMA Times ==
    /\ HB \in Nat /\ TTL \in Nat /\ CacheTTL \in Nat
    /\ MaxPublish \in Nat /\ MaxLookup \in Nat
    /\ MaxPublish < HB /\ 0 < CacheTTL /\ 2 * HB + 2 * MaxPublish < TTL
    /\ Window \in Nat /\ Window = MaxLookup + CacheTTL /\ Many = 3
  BY TimesAssumption, LeaseAssumption DEF Window, Many

\* LivenessPhase keeps phase in its type and at 0 or within d of its value.
LEMMA PhaseStep ==
    ASSUME TypeOK, NEW d \in {0, 1}, LivenessPhase(d)
    PROVE  /\ phase' \in [Producers -> 0..Window]
           /\ \A p \in Producers : \/ phase'[p] = 0
                                   \/ (Live(p)' <=> Live(p)) /\ phase'[p] <= phase[p] + d
  <1>1. \A p \in Producers : phase[p] \in 0..Window
    BY DEF TypeOK
  <1>2. ASSUME NEW p \in Producers
        PROVE  /\ phase'[p] \in 0..Window
               /\ \/ phase'[p] = 0
                  \/ (Live(p)' <=> Live(p)) /\ phase'[p] <= phase[p] + d
    <2>1. CASE ~(Live(p)' <=> Live(p))
      BY <2>1, Times DEF LivenessPhase
    <2>2. CASE Live(p)' <=> Live(p)
      <3>1. phase'[p] = IF phase[p] + d <= Window THEN phase[p] + d ELSE Window
        BY <2>2 DEF LivenessPhase
      <3> QED
        BY <1>1, <2>2, <3>1, Times
    <2> QED
      BY <2>1, <2>2
  <1>3. phase' = [p \in Producers |-> phase'[p]]
    BY DEF LivenessPhase
  <1> QED
    BY <1>2, <1>3

\* Move keeps the stages of all publications in their type.
LEMMA MoveType ==
    ASSUME TypeOK, NEW p \in Producers, NEW w \in Publishers,
           NEW stage \in Stages, Move(p, w, stage)
    PROVE  /\ pub' \in [Producers -> [Publishers -> Stages]]
           /\ \A q \in Producers, v \in Publishers :
                 pub'[q][v] = IF q = p /\ v = w THEN stage ELSE pub[q][v]
  BY DEF TypeOK, Move

\* The rows a batch found, after an update for one publication.
LEMMA DoomedType ==
    ASSUME TypeOK, NEW p \in Producers, NEW w \in Publishers,
           NEW S \in SUBSET Producers, doomed' = [doomed EXCEPT ![p][w] = S]
    PROVE  /\ doomed' \in [Producers -> [Publishers -> SUBSET Producers]]
           /\ \A q \in Producers, v \in Publishers :
                 doomed'[q][v] = IF q = p /\ v = w THEN S ELSE doomed[q][v]
  BY DEF TypeOK

---------------------------------------------------------------------------
\* Every variable of the directory model keeps its type.
THEOREM TypeCorrect == Spec => []TypeOK
  <1>1. Init => TypeOK
    <2> SUFFICES ASSUME Init PROVE TypeOK
      OBVIOUS
    <2>1. /\ pub \in [Producers -> [Publishers -> Stages]]
          /\ doomed \in [Producers -> [Publishers -> SUBSET Producers]]
      BY DEF Init, Stages
    <2>2. /\ since \in [Producers -> 0..TTL] /\ phase \in [Producers -> 0..Window]
          /\ timer \in [Producers -> 0..HB] /\ missed \in [Producers -> 0..Many]
          /\ memoAge \in [Refs -> 0..CacheTTL] /\ lookAge \in [Readers -> 0..MaxLookup]
      BY Times DEF Init
    <2> QED
      BY <2>1, <2>2 DEF Init, TypeOK
  <1>2. TypeOK /\ [Next]_vars => TypeOK'
    <2> SUFFICES ASSUME TypeOK, [Next]_vars PROVE TypeOK'
      OBVIOUS
    <2> USE Times
    <2> USE DEF vars, tableVars, procVars, pubVars, memoVars, lookVars
    <2>0. "boot" \in Publishers /\ "beat" \in Publishers /\ "lazy" \in Publishers
      BY DEF Publishers
    <2>1. ASSUME NEW p \in Producers, Boot(p) PROVE TypeOK'
      <3>1. Move(p, "boot", "sent") /\ created' \in BOOLEAN
        BY <2>1 DEF Boot, EnsureThenSend, TypeOK
      <3>2. pub' \in [Producers -> [Publishers -> Stages]]
        BY <2>0, <3>1, MoveType DEF Stages
      <3>3. /\ timer' \in [Producers -> 0..HB] /\ missed' \in [Producers -> 0..Many]
            /\ proc' \in [Producers -> {"off", "boot", "serving", "stopping",
                                        "deleting", "closed"}]
        BY <2>1 DEF Boot, TypeOK
      <3> QED
        BY <2>1, <3>1, <3>2, <3>3 DEF Boot, TypeOK
    <2>2. ASSUME NEW p \in Producers, Beat(p) PROVE TypeOK'
      <3>1. Move(p, "beat", "sent") /\ created' \in BOOLEAN
        BY <2>2 DEF Beat, EnsureThenSend, TypeOK
      <3>2. pub' \in [Producers -> [Publishers -> Stages]]
        BY <2>0, <3>1, MoveType DEF Stages
      <3>3. /\ timer' \in [Producers -> 0..HB] /\ missed' \in [Producers -> 0..Many]
            /\ proc' \in [Producers -> {"off", "boot", "serving", "stopping",
                                        "deleting", "closed"}]
        BY <2>2 DEF Beat, TypeOK
      <3> QED
        BY <2>2, <3>1, <3>2, <3>3 DEF Beat, TypeOK
    <2>3. ASSUME NEW p \in Producers, LazyRepublish(p) PROVE TypeOK'
      <3>1. Move(p, "lazy", "sent") /\ created' \in BOOLEAN
        BY <2>3 DEF LazyRepublish, EnsureThenSend, TypeOK
      <3>2. pub' \in [Producers -> [Publishers -> Stages]]
        BY <2>0, <3>1, MoveType DEF Stages
      <3> QED
        BY <2>3, <3>1, <3>2 DEF LazyRepublish, TypeOK
    <2>4. ASSUME NEW p \in Producers, NEW w \in Publishers, BatchRuns(p, w) PROVE TypeOK'
      <3>1. pub' \in [Producers -> [Publishers -> Stages]]
        BY <2>4, MoveType DEF BatchRuns, Stages
      <3>a. PICK S \in SUBSET Producers : doomed' = [doomed EXCEPT ![p][w] = S]
        BY <2>4 DEF BatchRuns
      <3>2. doomed' \in [Producers -> [Publishers -> SUBSET Producers]]
        BY <3>a, DoomedType
      <3> QED
        BY <2>4, <3>1, <3>2 DEF BatchRuns, TypeOK
    <2>5. ASSUME NEW p \in Producers, NEW w \in Publishers, BatchCommits(p, w) PROVE TypeOK'
      <3>1. pub' \in [Producers -> [Publishers -> Stages]]
        BY <2>5, MoveType DEF BatchCommits, Stages
      <3>a. PICK S \in SUBSET Producers : doomed' = [doomed EXCEPT ![p][w] = S]
        BY <2>5 DEF BatchCommits
      <3>2. doomed' \in [Producers -> [Publishers -> SUBSET Producers]]
        BY <3>a, DoomedType
      <3>3. row' \in [Producers -> BOOLEAN]
        BY <2>5 DEF BatchCommits
      <3>4. phase' \in [Producers -> 0..Window]
        BY <2>5, PhaseStep DEF BatchCommits
      <3> QED
        BY <2>5, <3>1, <3>2, <3>3, <3>4 DEF BatchCommits, TypeOK
    <2>6. ASSUME NEW p \in Producers, NEW w \in Publishers,
                 PublishReturns(p, w) \/ PublishFails(p, w)
          PROVE  TypeOK'
      <3>1. Ends(p, w)
        BY <2>6 DEF PublishReturns, PublishFails
      <3>2. pub' \in [Producers -> [Publishers -> Stages]]
        BY <3>1, MoveType DEF Ends, Stages
      <3>a. PICK S \in SUBSET Producers : doomed' = [doomed EXCEPT ![p][w] = S]
        BY <3>1 DEF Ends
      <3>3. doomed' \in [Producers -> [Publishers -> SUBSET Producers]]
        BY <3>a, DoomedType
      <3>4. /\ proc' \in [Producers -> {"off", "boot", "serving", "stopping",
                                        "deleting", "closed"}]
            /\ timer' \in [Producers -> 0..HB]
        BY <3>1 DEF Ends, TypeOK
      <3>5. missed' \in [Producers -> 0..Many]
        <4>1. CASE PublishReturns(p, w)
          BY <4>1 DEF PublishReturns, TypeOK
        <4>2. CASE PublishFails(p, w)
          <5>1. missed[p] \in 0..3
            BY DEF TypeOK
          <5>2. \/ missed' = [missed EXCEPT ![p] = missed[p]]
                \/ missed[p] < 3 /\ missed' = [missed EXCEPT ![p] = missed[p] + 1]
            BY <4>2 DEF PublishFails
          <5> QED
            BY <5>1, <5>2 DEF TypeOK
        <4> QED
          BY <2>6, <4>1, <4>2
      <3>6. published' \in [Producers -> BOOLEAN]
        BY <2>6 DEF PublishReturns, PublishFails, TypeOK
      <3>7. UNCHANGED <<tableVars, phase, healed, withdrawn, memoVars, lookVars>>
        BY <2>6 DEF PublishReturns, PublishFails
      <3> QED
        BY <3>2, <3>3, <3>4, <3>5, <3>6, <3>7 DEF TypeOK
    <2>7. ASSUME NEW p \in Producers, Close(p) \/ BeatStopped(p) \/ GivesUp(p)
                                      \/ WithdrawFails(p) \/ Exit(p)
          PROVE  TypeOK'
      BY <2>7 DEF Close, BeatStopped, GivesUp, WithdrawFails, Exit, TypeOK
    <2>8. ASSUME NEW p \in Producers, Withdraw(p) PROVE TypeOK'
      <3>1. phase' \in [Producers -> 0..Window]
        BY <2>8, PhaseStep DEF Withdraw
      <3> QED
        BY <2>8, <3>1 DEF Withdraw, TypeOK
    <2>9. ASSUME NEW p \in Producers, Crash(p) PROVE TypeOK'
      BY <2>9 DEF Crash, TypeOK, Stages
    <2>10. ASSUME NEW c \in Readers, NEW r \in Refs, LookupReads(c, r) PROVE TypeOK'
      BY <2>10 DEF LookupReads, Found, TypeOK
    <2>11. ASSUME NEW c \in Readers, LookupReturns(c) \/ LookupFails(c) PROVE TypeOK'
      <3>1. lookRef[c] \in Refs /\ lookWho[c] \in Producers \cup {Nobody}
        BY <2>11 DEF LookupReturns, LookupFails, TypeOK
      <3>2. memoWho' \in [Refs -> Producers \cup {Nobody}]
        BY <2>11, <3>1 DEF LookupReturns, LookupFails, TypeOK
      <3>3. memoAge' \in [Refs -> 0..CacheTTL]
        <4>1. memoAge' = memoAge \/ memoAge' = [memoAge EXCEPT ![lookRef[c]] = 0]
          BY <2>11 DEF LookupReturns, LookupFails
        <4>2. 0 \in 0..CacheTTL /\ memoAge \in [Refs -> 0..CacheTTL]
          BY DEF TypeOK
        <4> QED
          BY <3>1, <4>1, <4>2
      <3>5. lookAge' \in [Readers -> 0..MaxLookup]
        <4>1. lookAge' = [lookAge EXCEPT ![c] = 0] /\ 0 \in 0..MaxLookup
          BY <2>11 DEF LookupReturns, LookupFails
        <4> QED
          BY <4>1 DEF TypeOK
      <3>4. /\ lookRef' \in [Readers -> Refs \cup {Nobody}]
            /\ lookWho' \in [Readers -> Producers \cup {Nobody}]
        BY <2>11, <3>1 DEF LookupReturns, LookupFails, TypeOK
      <3> QED
        BY <2>11, <3>2, <3>3, <3>4, <3>5 DEF LookupReturns, LookupFails, TypeOK
    <2>12. CASE Tick
      <3>1. phase' \in [Producers -> 0..Window]
        BY <2>12, PhaseStep DEF Tick
      <3>2. lookAge' \in [Readers -> 0..MaxLookup]
        BY <2>12 DEF Tick, Timely, TypeOK
      <3> QED
        BY <2>12, <3>1, <3>2 DEF Tick, TypeOK
    <2>13. CASE UNCHANGED vars
      BY <2>13 DEF TypeOK
    <2> QED
      BY <2>1, <2>2, <2>3, <2>4, <2>5, <2>6, <2>7, <2>8, <2>9, <2>10, <2>11, <2>12,
         <2>13 DEF Next, Publish, Stop
  <1> QED
    BY <1>1, <1>2, PTL DEF Spec

---------------------------------------------------------------------------
\* A lookup under way is wrong about p for no longer than it has lasted.
LookFresh ==
    \A c \in Readers, p \in Producers :
        lookRef[c] # Nobody /\ Disagrees(lookWho[c], lookRef[c], p)
            => phase[p] <= lookAge[c]

\* The memo is wrong about p for no longer than its lookup and its own age.
MemoFresh ==
    \A r \in Refs, p \in Producers :
        MemoUsable(r) /\ Disagrees(memoWho[r], r, p)
            => phase[p] <= MaxLookup + memoAge[r]

\* A step that leaves the consumer alone, and resets phase where it changes
\* what is live, keeps both.
LEMMA ConsumerIdle ==
    ASSUME TypeOK, LookFresh, MemoFresh, UNCHANGED <<memoVars, lookVars>>,
           \A p \in Producers : \/ phase'[p] = 0
                                \/ (Live(p)' <=> Live(p)) /\ phase'[p] <= phase[p],
           phase' \in [Producers -> 0..Window]
    PROVE  LookFresh' /\ MemoFresh'
  <1> USE Times DEF memoVars, lookVars
  <1>1. ASSUME NEW c \in Readers, NEW p \in Producers,
               lookRef'[c] # Nobody, Disagrees(lookWho[c], lookRef[c], p)'
        PROVE  phase'[p] <= lookAge'[c]
    <2>0. lookAge[c] \in Nat /\ phase[p] \in Nat /\ phase'[p] \in Nat
      BY DEF TypeOK
    <2>1. CASE phase'[p] = 0
      BY <2>0, <2>1
    <2>2. CASE (Live(p)' <=> Live(p)) /\ phase'[p] <= phase[p]
      <3>1. Disagrees(lookWho[c], lookRef[c], p)
        BY <1>1, <2>2 DEF Disagrees, Matches
      <3> QED
        BY <1>1, <2>0, <2>2, <3>1 DEF LookFresh
    <2> QED
      BY <2>1, <2>2
  <1>2. ASSUME NEW r \in Refs, NEW p \in Producers,
               MemoUsable(r)', Disagrees(memoWho[r], r, p)'
        PROVE  phase'[p] <= MaxLookup + memoAge'[r]
    <2>0. memoAge[r] \in Nat /\ phase[p] \in Nat /\ phase'[p] \in Nat
      BY DEF TypeOK
    <2>1. CASE phase'[p] = 0
      BY <2>0, <2>1
    <2>2. CASE (Live(p)' <=> Live(p)) /\ phase'[p] <= phase[p]
      <3>1. Disagrees(memoWho[r], r, p) /\ MemoUsable(r)
        BY <1>2, <2>2 DEF Disagrees, Matches, MemoUsable
      <3> QED
        BY <2>0, <2>2, <3>1 DEF MemoFresh
    <2> QED
      BY <2>1, <2>2
  <1> QED
    BY <1>1, <1>2 DEF LookFresh, MemoFresh

\* The same for the passing of time, which ages memo and lookups.
LEMMA ConsumerAges ==
    ASSUME TypeOK, TypeOK', LookFresh, MemoFresh, Tick
    PROVE  LookFresh' /\ MemoFresh'
  <1> USE Times
  <1>0. \A p \in Producers : \/ phase'[p] = 0
                             \/ (Live(p)' <=> Live(p)) /\ phase'[p] <= phase[p] + 1
    BY PhaseStep DEF Tick
  <1>1. UNCHANGED <<memoWho, lookRef, lookWho>>
    BY DEF Tick
  <1>2. ASSUME NEW c \in Readers, NEW p \in Producers,
               lookRef'[c] # Nobody, Disagrees(lookWho[c], lookRef[c], p)'
        PROVE  phase'[p] <= lookAge'[c]
    <2>0. lookAge[c] \in Nat /\ phase[p] \in Nat /\ phase'[p] \in Nat
      BY DEF TypeOK
    <2>1. lookAge'[c] = lookAge[c] + 1
      BY <1>1, <1>2 DEF Tick
    <2>2. CASE phase'[p] = 0
      BY <2>0, <2>1, <2>2
    <2>3. CASE (Live(p)' <=> Live(p)) /\ phase'[p] <= phase[p] + 1
      <3>1. lookRef[c] # Nobody /\ Disagrees(lookWho[c], lookRef[c], p)
        BY <1>1, <1>2, <2>3 DEF Disagrees, Matches
      <3> QED
        BY <2>0, <2>1, <2>3, <3>1 DEF LookFresh
    <2> QED
      BY <1>0, <2>2, <2>3
  <1>3. ASSUME NEW r \in Refs, NEW p \in Producers,
               MemoUsable(r)', Disagrees(memoWho[r], r, p)'
        PROVE  phase'[p] <= MaxLookup + memoAge'[r]
    <2>0. memoAge[r] \in Nat /\ phase[p] \in Nat /\ phase'[p] \in Nat
      BY DEF TypeOK
    <2>1. memoAge'[r] = memoAge[r] + 1 /\ MemoUsable(r)
      BY <1>3, <2>0 DEF Tick, MemoUsable, TypeOK
    <2>2. CASE phase'[p] = 0
      BY <2>0, <2>1, <2>2
    <2>3. CASE (Live(p)' <=> Live(p)) /\ phase'[p] <= phase[p] + 1
      <3>1. Disagrees(memoWho[r], r, p)
        BY <1>1, <1>3, <2>3 DEF Disagrees, Matches
      <3> QED
        BY <2>0, <2>1, <2>3, <3>1 DEF MemoFresh
    <2> QED
      BY <1>0, <2>2, <2>3
  <1> QED
    BY <1>2, <1>3 DEF LookFresh, MemoFresh

\* For every lease time and any number of modules, references and goroutines,
\* the memo of colocatedProducer is wrong only within Window of the change.
THEOREM MemoIsFresh == Spec => []MemoWrongOnlyBriefly
  <1> USE DEF vars, tableVars, procVars, pubVars, memoVars, lookVars
  <1>1. Init => LookFresh /\ MemoFresh
    BY Times DEF Init, LookFresh, MemoFresh, MemoUsable
  <1>2. TypeOK /\ TypeOK' /\ LookFresh /\ MemoFresh /\ [Next]_vars => LookFresh' /\ MemoFresh'
    <2> SUFFICES ASSUME TypeOK, TypeOK', LookFresh, MemoFresh, [Next]_vars
                 PROVE  LookFresh' /\ MemoFresh'
      OBVIOUS
    <2>0. phase' \in [Producers -> 0..Window] /\ \A p \in Producers : phase[p] \in Nat
      BY Times DEF TypeOK
    <2>1. CASE UNCHANGED <<row, since, phase, memoVars, lookVars>>
      <3>1. \A p \in Producers : (Live(p)' <=> Live(p)) /\ phase'[p] <= phase[p]
        BY <2>0, <2>1 DEF Live
      <3> QED
        BY <2>0, <2>1, <3>1, ConsumerIdle
    <2>2. CASE LivenessPhase(0) /\ UNCHANGED <<memoVars, lookVars>>
      <3>1. \A p \in Producers : \/ phase'[p] = 0
                                 \/ (Live(p)' <=> Live(p)) /\ phase'[p] <= phase[p]
        BY <2>0, <2>2, PhaseStep
      <3> QED
        BY <2>0, <2>2, <3>1, ConsumerIdle
    <2>3. ASSUME NEW p \in Producers, Boot(p) \/ Beat(p) \/ LazyRepublish(p)
                                      \/ Close(p) \/ Crash(p) \/ BeatStopped(p)
                                      \/ GivesUp(p) \/ WithdrawFails(p) \/ Exit(p)
          PROVE  UNCHANGED <<row, since, phase, memoVars, lookVars>>
      BY <2>3 DEF Boot, Beat, LazyRepublish, Close, Crash, BeatStopped, GivesUp,
                  WithdrawFails, Exit
    <2>4. ASSUME NEW p \in Producers, NEW w \in Publishers,
                 BatchRuns(p, w) \/ PublishReturns(p, w) \/ PublishFails(p, w)
          PROVE  UNCHANGED <<row, since, phase, memoVars, lookVars>>
      BY <2>4 DEF BatchRuns, PublishReturns, PublishFails
    <2>5. ASSUME NEW p \in Producers, Withdraw(p) \/ \E w \in Publishers : BatchCommits(p, w)
          PROVE  LivenessPhase(0) /\ UNCHANGED <<memoVars, lookVars>>
      BY <2>5 DEF Withdraw, BatchCommits
    <2>6. ASSUME NEW c \in Readers, NEW r \in Refs, LookupReads(c, r)
          PROVE  LookFresh' /\ MemoFresh'
      <3>1. UNCHANGED <<row, since, phase, memoVars>>
        BY <2>6 DEF LookupReads
      <3>2. MemoFresh'
        BY <3>1 DEF MemoFresh, MemoUsable, Disagrees, Matches, Live
      <3>3. PICK w \in (IF Found(r) = {} THEN {Nobody} ELSE Found(r)) :
                lookWho' = [lookWho EXCEPT ![c] = w]
        BY <2>6 DEF LookupReads
      <3>4. \A p \in Producers : ~Disagrees(w, r, p)
        BY <3>3, NamesAssumption DEF Found, Disagrees
      <3>5. /\ lookRef'[c] = r /\ lookWho'[c] = w
            /\ \A b \in Readers \ {c} : /\ lookRef'[b] = lookRef[b]
                                       /\ lookWho'[b] = lookWho[b]
                                       /\ lookAge'[b] = lookAge[b]
        BY <2>6, <3>3 DEF LookupReads, TypeOK
      <3>6. ASSUME NEW b \in Readers, NEW p \in Producers, lookRef'[b] # Nobody,
                   Disagrees(lookWho[b], lookRef[b], p)'
            PROVE  phase'[p] <= lookAge'[b]
        <4>1. CASE b = c
          BY <3>1, <3>4, <3>5, <3>6, <4>1 DEF Disagrees, Matches, Live
        <4>2. CASE b # c
          BY <3>1, <3>5, <3>6, <4>2 DEF Disagrees, Matches, Live, LookFresh
        <4> QED
          BY <4>1, <4>2
      <3> QED
        BY <3>2, <3>6 DEF LookFresh
    <2>7. ASSUME NEW c \in Readers, LookupReturns(c) \/ LookupFails(c)
          PROVE  LookFresh' /\ MemoFresh'
      <3>1. UNCHANGED <<row, since, phase>>
        BY <2>7 DEF LookupReturns, LookupFails
      <3>2. /\ lookRef'[c] = Nobody
            /\ \A b \in Readers \ {c} : /\ lookRef'[b] = lookRef[b]
                                       /\ lookWho'[b] = lookWho[b]
                                       /\ lookAge'[b] = lookAge[b]
        BY <2>7 DEF LookupReturns, LookupFails, TypeOK
      <3>3. LookFresh'
        BY <3>1, <3>2 DEF LookFresh, Disagrees, Matches, Live
      <3>4. CASE LookupFails(c)
        BY <3>1, <3>3, <3>4 DEF LookupFails, MemoFresh, MemoUsable, Disagrees, Matches, Live
      <3>5. CASE LookupReturns(c)
        <4> DEFINE s == lookRef[c]
        <4>1. /\ s \in Refs /\ s # Nobody
              /\ memoWho'[s] = lookWho[c] /\ memoAge'[s] = 0
              /\ \A r \in Refs \ {s} : memoWho'[r] = memoWho[r] /\ memoAge'[r] = memoAge[r]
          BY <3>5, NamesAssumption DEF LookupReturns, TypeOK
        <4>2. lookAge[c] <= MaxLookup /\ lookAge[c] \in Nat
          BY Times DEF TypeOK
        <4>3. ASSUME NEW r \in Refs, NEW p \in Producers,
                     MemoUsable(r)', Disagrees(memoWho[r], r, p)'
              PROVE  phase'[p] <= MaxLookup + memoAge'[r]
          <5>1. CASE r = s
            <6>1. Disagrees(lookWho[c], lookRef[c], p)
              BY <3>1, <4>1, <4>3, <5>1 DEF Disagrees, Matches, Live
            <6>2. phase[p] <= lookAge[c]
              BY <4>1, <6>1 DEF LookFresh
            <6> QED
              BY <2>0, <3>1, <4>1, <4>2, <5>1, <6>2, Times
          <5>2. CASE r # s
            <6>1. Disagrees(memoWho[r], r, p) /\ MemoUsable(r)
              BY <3>1, <4>1, <4>3, <5>2 DEF Disagrees, Matches, Live, MemoUsable
            <6> QED
              BY <3>1, <4>1, <5>2, <6>1 DEF MemoFresh
          <5> QED
            BY <5>1, <5>2
        <4> QED
          BY <3>3, <4>3 DEF MemoFresh
      <3> QED
        BY <2>7, <3>4, <3>5
    <2>8. CASE Tick
      BY <2>8, ConsumerAges
    <2> QED
      BY <2>1, <2>2, <2>3, <2>4, <2>5, <2>6, <2>7, <2>8 DEF Next, Publish, Stop
  <1>3. TypeOK /\ MemoFresh => MemoWrongOnlyBriefly
    <2> SUFFICES ASSUME TypeOK, MemoFresh, NEW r \in Refs, NEW p \in Producers,
                        MemoUsable(r), Disagrees(memoWho[r], r, p)
                 PROVE  phase[p] < Window
      BY DEF MemoWrongOnlyBriefly
    <2>1. phase[p] <= MaxLookup + memoAge[r]
      BY DEF MemoFresh
    <2>2. memoAge[r] \in Nat /\ phase[p] \in Nat /\ memoAge[r] < CacheTTL
      BY Times DEF TypeOK, MemoUsable
    <2> QED
      BY <2>1, <2>2, Times
  <1> QED
    BY <1>1, <1>2, <1>3, TypeCorrect, PTL DEF Spec

---------------------------------------------------------------------------
\* A boot publishes alone, and only a boot publishes as "boot".
BootAlone ==
    \A p \in Producers :
        /\ pub[p]["boot"] # "idle" <=> proc[p] = "boot"
        /\ proc[p] = "boot" => pub[p]["beat"] = "idle"

\* Boots and beats that are under way are within their bound.
Prompt ==
    \A p \in Producers :
        pub[p]["boot"] # "idle" \/ pub[p]["beat"] # "idle" => timer[p] <= MaxPublish

\* A batch deletes other modules' rows, of its own slug only.
DoomedShare ==
    \A p \in Producers, w \in Publishers : \A q \in doomed[p][w] :
        q # p /\ Slug[q] = Slug[p]

\* A beat under way that has not stamped the row yet.
Flying(p) == pub[p]["beat"] \in {"sent", "ran"}

\* The age of a row, in terms of the beats missed since its stamp.
AgeBound(p) ==
    MaxPublish + (IF missed[p] = 1 THEN HB ELSE 0) + (IF Flying(p) THEN HB ELSE 0) + timer[p]

Leased ==
    \A p \in Producers :
        Unshared(p) /\ missed[p] <= 1 =>
            /\ proc[p] = "boot" => row[p] /\ since[p] <= timer[p]
            /\ proc[p] = "serving" => row[p] /\ since[p] <= AgeBound(p)

LeaseInv == BootAlone /\ Prompt /\ DoomedShare /\ Leased

\* Nothing a lease depends on changes for p.
LEMMA LeaseKept ==
    ASSUME TypeOK, Leased, NEW p \in Producers,
           proc'[p] = proc[p] \/ proc'[p] \notin {"boot", "serving"},
           row'[p] <=> row[p], since'[p] = since[p], timer'[p] = timer[p],
           missed'[p] = missed[p], pub'[p]["beat"] = pub[p]["beat"],
           Unshared(p), missed'[p] <= 1
    PROVE  /\ proc'[p] = "boot" => row'[p] /\ since'[p] <= timer'[p]
           /\ proc'[p] = "serving" => row'[p] /\ since'[p] <= AgeBound(p)'
  <1>1. AgeBound(p)' = AgeBound(p)
    BY DEF AgeBound, Flying
  <1> QED
    BY <1>1 DEF Leased

\* Every step keeps the lease invariant.
LEMMA LeaseStep ==
    ASSUME TypeOK, TypeOK', LeaseInv, [Next]_vars
    PROVE  LeaseInv'
  <1> USE Times, MoveType
  <1> USE DEF LeaseInv, vars, tableVars, procVars, pubVars, memoVars, lookVars
  <1>0. /\ "boot" \in Publishers /\ "beat" \in Publishers /\ "lazy" \in Publishers
        /\ Stages = {"idle", "sent", "ran", "landed"}
    BY DEF Publishers, Stages
  <1>a. \A p \in Producers :
           /\ since[p] \in Nat /\ timer[p] \in 0..HB /\ missed[p] \in 0..3
           /\ since'[p] \in Nat /\ timer'[p] \in 0..HB /\ missed'[p] \in 0..3
    BY DEF TypeOK
  <1>1. CASE UNCHANGED <<row, since, proc, timer, missed, pubVars>>
    BY <1>1 DEF BootAlone, Prompt, DoomedShare, Leased, AgeBound, Flying
  <1>2. ASSUME NEW p \in Producers, Boot(p) PROVE LeaseInv'
    <2>1. \A q \in Producers, w \in Publishers :
             pub'[q][w] = IF q = p /\ w = "boot" THEN "sent" ELSE pub[q][w]
      BY <1>0, <1>2 DEF Boot, EnsureThenSend
    <2>2. /\ proc'[p] = "boot" /\ timer'[p] = 0 /\ missed'[p] = 3
          /\ \A q \in Producers \ {p} : /\ proc'[q] = proc[q] /\ timer'[q] = timer[q]
                                        /\ missed'[q] = missed[q]
          /\ \A w \in Publishers : pub[p][w] = "idle"
          /\ UNCHANGED <<row, since, doomed>>
      BY <1>2 DEF Boot, Idle, TypeOK
    <2>3. BootAlone' /\ Prompt' /\ DoomedShare'
      BY <1>0, <2>1, <2>2 DEF BootAlone, Prompt, DoomedShare
    <2>4. ASSUME NEW q \in Producers, Unshared(q), missed'[q] <= 1
          PROVE  /\ proc'[q] = "boot" => row'[q] /\ since'[q] <= timer'[q]
                 /\ proc'[q] = "serving" => row'[q] /\ since'[q] <= AgeBound(q)'
      <3>1. q # p
        BY <2>2, <2>4
      <3> QED
        BY <1>0, <2>1, <2>2, <2>4, <3>1, LeaseKept
    <2> QED
      BY <2>3, <2>4 DEF Leased, Unshared
  <1>3. ASSUME NEW p \in Producers, Beat(p) PROVE LeaseInv'
    <2>1. \A q \in Producers, w \in Publishers :
             pub'[q][w] = IF q = p /\ w = "beat" THEN "sent" ELSE pub[q][w]
      BY <1>0, <1>3 DEF Beat, EnsureThenSend
    <2>2. /\ proc[p] \in {"serving", "stopping"} /\ timer[p] = HB /\ timer'[p] = 0
          /\ pub[p]["beat"] = "idle"
          /\ \A q \in Producers \ {p} : timer'[q] = timer[q]
          /\ UNCHANGED <<row, since, doomed, proc, missed>>
      BY <1>3 DEF Beat, TypeOK
    <2>3. BootAlone' /\ Prompt' /\ DoomedShare'
      BY <1>0, <2>1, <2>2 DEF BootAlone, Prompt, DoomedShare
    <2>4. ASSUME NEW q \in Producers, Unshared(q), missed'[q] <= 1
          PROVE  /\ proc'[q] = "boot" => row'[q] /\ since'[q] <= timer'[q]
                 /\ proc'[q] = "serving" => row'[q] /\ since'[q] <= AgeBound(q)'
      <3>1. CASE q = p
        <4>1. ~Flying(p) /\ Flying(p)'
          BY <1>0, <2>1, <2>2 DEF Flying
        <4>2. AgeBound(p)' = AgeBound(p)
          BY <1>a, <2>2, <4>1 DEF AgeBound
        <4> QED
          BY <2>2, <2>4, <3>1, <4>2 DEF Leased
      <3>2. CASE q # p
        BY <1>0, <2>1, <2>2, <2>4, <3>2, LeaseKept
      <3> QED
        BY <3>1, <3>2
    <2> QED
      BY <2>3, <2>4 DEF Leased, Unshared
  <1>4. ASSUME NEW p \in Producers, LazyRepublish(p) PROVE LeaseInv'
    <2>1. \A q \in Producers, w \in Publishers :
             pub'[q][w] = IF q = p /\ w = "lazy" THEN "sent" ELSE pub[q][w]
      BY <1>0, <1>4 DEF LazyRepublish, EnsureThenSend
    <2>2. UNCHANGED <<row, since, doomed, proc, missed, timer>>
      BY <1>4 DEF LazyRepublish
    <2> QED
      BY <1>0, <2>1, <2>2 DEF BootAlone, Prompt, DoomedShare, Leased, AgeBound, Flying
  <1>5. ASSUME NEW p \in Producers, NEW w \in Publishers, BatchRuns(p, w) PROVE LeaseInv'
    <2>1. \A q \in Producers, v \in Publishers :
             pub'[q][v] = IF q = p /\ v = w THEN "ran" ELSE pub[q][v]
      BY <1>0, <1>5 DEF BatchRuns
    <2>2. pub[p][w] = "sent" /\ UNCHANGED <<row, since, proc, missed, timer>>
      BY <1>5 DEF BatchRuns
    <2>3. /\ \A q \in doomed'[p][w] : q # p /\ Slug[q] = Slug[p]
          /\ \A q \in Producers, v \in Publishers :
                ~(q = p /\ v = w) => doomed'[q][v] = doomed[q][v]
      BY <1>5 DEF BatchRuns, TypeOK
    <2>4. DoomedShare'
      BY <2>3 DEF DoomedShare
    <2>5. \A q \in Producers : Flying(q)' <=> Flying(q)
      BY <1>0, <2>1, <2>2 DEF Flying
    <2>6. BootAlone' /\ Prompt'
      BY <1>0, <2>1, <2>2 DEF BootAlone, Prompt
    <2>7. \A q \in Producers : AgeBound(q)' = AgeBound(q)
      BY <2>2, <2>5 DEF AgeBound
    <2>8. Leased'
      BY <2>2, <2>7 DEF Leased, Unshared
    <2> QED
      BY <2>4, <2>6, <2>8
  <1>6. ASSUME NEW p \in Producers, NEW w \in Publishers, BatchCommits(p, w) PROVE LeaseInv'
    <2>1. \A q \in Producers, v \in Publishers :
             pub'[q][v] = IF q = p /\ v = w THEN "landed" ELSE pub[q][v]
      BY <1>0, <1>6 DEF BatchCommits
    <2>2. pub[p][w] = "ran" /\ UNCHANGED <<proc, timer>>
      BY <1>6 DEF BatchCommits
    <2>3. DoomedShare'
      BY <1>6 DEF BatchCommits, DoomedShare, TypeOK
    <2>4. BootAlone' /\ Prompt'
      BY <1>0, <2>1, <2>2 DEF BootAlone, Prompt
    <2>5. row'[p] /\ since'[p] = 0 /\ missed'[p] = 0
      BY <1>6, ZenonT(60) DEF BatchCommits, TypeOK
    <2>6. ASSUME NEW q \in Producers \ {p}, Unshared(q)
          PROVE  (row'[q] <=> row[q]) /\ since'[q] = since[q] /\ missed'[q] = missed[q]
      <3>1. q \notin doomed[p][w]
        BY <2>6 DEF DoomedShare, Unshared
      <3>2. row'[q] <=> row[q]
        BY <1>6, <3>1 DEF BatchCommits, TypeOK
      <3> QED
        BY <1>6, <3>2 DEF BatchCommits, TypeOK
    <2>7. ASSUME NEW q \in Producers, Unshared(q), missed'[q] <= 1
          PROVE  /\ proc'[q] = "boot" => row'[q] /\ since'[q] <= timer'[q]
                 /\ proc'[q] = "serving" => row'[q] /\ since'[q] <= AgeBound(q)'
      <3>1. CASE q = p
        <4>1. 0 <= timer'[p] /\ 0 <= AgeBound(p)'
          BY <1>a, <2>5 DEF AgeBound
        <4> QED
          BY <2>5, <3>1, <4>1
      <3>2. CASE q # p
        BY <1>0, <2>1, <2>2, <2>6, <2>7, <3>2, LeaseKept
      <3> QED
        BY <3>1, <3>2
    <2> QED
      BY <2>3, <2>4, <2>7 DEF Leased, Unshared
  <1>7. ASSUME NEW p \in Producers, NEW w \in Publishers,
               PublishReturns(p, w) \/ PublishFails(p, w)
        PROVE  LeaseInv'
    <2>0. Ends(p, w) /\ UNCHANGED <<row, since>> /\ pub[p][w] # "idle"
      BY <1>7 DEF PublishReturns, PublishFails
    <2>1. \A q \in Producers, v \in Publishers :
             pub'[q][v] = IF q = p /\ v = w THEN "idle" ELSE pub[q][v]
      BY <1>0, <2>0 DEF Ends
    <2>2. /\ proc'[p] = IF w = "boot" THEN "serving" ELSE proc[p]
          /\ timer'[p] = IF w = "boot" THEN 0 ELSE timer[p]
          /\ \A q \in Producers \ {p} : proc'[q] = proc[q] /\ timer'[q] = timer[q]
      BY <2>0 DEF Ends, TypeOK
    <2>3. DoomedShare'
      BY <2>0 DEF Ends, DoomedShare, TypeOK
    <2>4. BootAlone' /\ Prompt'
      BY <1>0, <1>a, <2>1, <2>2 DEF BootAlone, Prompt
    <2>5. /\ \A q \in Producers \ {p} : missed'[q] = missed[q]
          /\ w # "beat" \/ ~Flying(p) => missed'[p] = missed[p]
          /\ w = "beat" /\ Flying(p) /\ missed'[p] <= 1 =>
                (missed[p] = 0 /\ missed'[p] = 1) \/ PublishReturns(p, w)
      <3>1. CASE PublishReturns(p, w)
        BY <3>1 DEF PublishReturns
      <3>2. CASE PublishFails(p, w)
        BY <1>0, <1>a, <3>2 DEF PublishFails, Flying, TypeOK
      <3> QED
        BY <1>7, <3>1, <3>2
    <2>6. w = "beat" /\ PublishReturns(p, w) => ~Flying(p)
      BY DEF PublishReturns, Flying
    <2>7. ASSUME NEW q \in Producers, Unshared(q), missed'[q] <= 1
          PROVE  /\ proc'[q] = "boot" => row'[q] /\ since'[q] <= timer'[q]
                 /\ proc'[q] = "serving" => row'[q] /\ since'[q] <= AgeBound(q)'
      <3>1. CASE q # p
        BY <1>0, <2>0, <2>1, <2>2, <2>5, <2>7, <3>1, LeaseKept
      <3>2. CASE q = p /\ w = "boot"
        <4>1. proc[p] = "boot" /\ timer[p] <= MaxPublish /\ pub[p]["beat"] = "idle"
          BY <2>0, <3>2 DEF BootAlone, Prompt
        <4>2. missed'[p] = missed[p]
          BY <2>5, <3>2
        <4>3. row[p] /\ since[p] <= timer[p]
          BY <2>7, <3>2, <4>1, <4>2 DEF Leased
        <4>4. MaxPublish <= AgeBound(p)'
          BY <1>a DEF AgeBound
        <4>5. AgeBound(p)' \in Nat
          BY <1>a DEF AgeBound
        <4> QED
          BY <1>a, <2>0, <2>2, <3>2, <4>1, <4>3, <4>4, <4>5
      <3>3. CASE q = p /\ w = "lazy"
        BY <1>0, <2>0, <2>1, <2>2, <2>5, <2>7, <3>3, LeaseKept
      <3>4. CASE q = p /\ w = "beat"
        <4>1. proc'[p] = proc[p] /\ timer'[p] = timer[p] /\ ~Flying(p)' /\ proc[p] # "boot"
          BY <1>0, <2>0, <2>1, <2>2, <3>4 DEF Flying, BootAlone
        <4>2. missed[p] <= 1 /\ AgeBound(p)' = AgeBound(p)
          <5>1. CASE Flying(p)
            BY <1>a, <2>5, <2>6, <2>7, <3>4, <4>1, <5>1 DEF AgeBound
          <5>2. CASE ~Flying(p)
            BY <1>a, <2>5, <2>7, <3>4, <4>1, <5>2 DEF AgeBound
          <5> QED
            BY <5>1, <5>2
        <4> QED
          BY <2>0, <2>7, <3>4, <4>1, <4>2 DEF Leased
      <3> QED
        BY <3>1, <3>2, <3>3, <3>4 DEF Publishers
    <2> QED
      BY <2>3, <2>4, <2>7 DEF Leased, Unshared
  <1>8. ASSUME NEW p \in Producers, Close(p) \/ BeatStopped(p) \/ GivesUp(p)
                                    \/ WithdrawFails(p) \/ Exit(p)
        PROVE  LeaseInv'
    <2>1. /\ proc[p] # "boot" /\ proc'[p] \notin {"boot", "serving"}
          /\ \A q \in Producers \ {p} : proc'[q] = proc[q]
          /\ UNCHANGED <<row, since, timer, missed, pub, doomed>>
      BY <1>8 DEF Close, BeatStopped, GivesUp, WithdrawFails, Exit, TypeOK
    <2> QED
      BY <2>1 DEF BootAlone, Prompt, DoomedShare, Leased, AgeBound, Flying, Unshared
  <1>9. ASSUME NEW p \in Producers, Withdraw(p) PROVE LeaseInv'
    <2>1. /\ proc[p] # "boot" /\ proc'[p] \notin {"boot", "serving"}
          /\ \A q \in Producers \ {p} : proc'[q] = proc[q] /\ (row'[q] <=> row[q])
          /\ UNCHANGED <<since, timer, missed, pub, doomed>>
      BY <1>9 DEF Withdraw, TypeOK
    <2> QED
      BY <2>1 DEF BootAlone, Prompt, DoomedShare, Leased, AgeBound, Flying, Unshared
  <1>10. ASSUME NEW p \in Producers, Crash(p) PROVE LeaseInv'
    <2>1. /\ proc'[p] = "off"
          /\ \A w \in Publishers : pub'[p][w] = "idle" /\ doomed'[p][w] = {}
          /\ \A q \in Producers \ {p} : /\ proc'[q] = proc[q] /\ pub'[q] = pub[q]
                                        /\ doomed'[q] = doomed[q]
          /\ UNCHANGED <<row, since, timer, missed>>
      BY <1>10 DEF Crash, TypeOK
    <2>2. BootAlone' /\ Prompt'
      BY <1>0, <2>1 DEF BootAlone, Prompt
    <2>3. DoomedShare'
      BY <2>1 DEF DoomedShare
    <2>4. Leased'
      BY <2>1 DEF Leased, AgeBound, Flying, Unshared
    <2> QED
      BY <2>2, <2>3, <2>4
  <1>11. CASE Tick
    <2>1. UNCHANGED <<row, proc, missed, pub, doomed>> /\ Timely
      BY <1>11 DEF Tick
    <2>2. \A p \in Producers :
             /\ timer'[p] = IF timer[p] < HB THEN timer[p] + 1 ELSE HB
             /\ since'[p] <= since[p] + 1
      BY <1>11, <1>a DEF Tick
    <2>3. BootAlone' /\ DoomedShare'
      BY <2>1 DEF BootAlone, DoomedShare
    <2>4. Prompt'
      BY <1>a, <2>1, <2>2 DEF Prompt, Timely
    <2>5. ASSUME NEW p \in Producers, Unshared(p), missed'[p] <= 1
          PROVE  /\ proc'[p] = "boot" => row'[p] /\ since'[p] <= timer'[p]
                 /\ proc'[p] = "serving" => row'[p] /\ since'[p] <= AgeBound(p)'
      <3>1. CASE proc[p] = "boot"
        <4>1. row[p] /\ since[p] <= timer[p]
          BY <2>1, <2>5, <3>1 DEF Leased
        <4>2. timer'[p] = timer[p] + 1
          BY <1>a, <2>1, <2>2, <3>1 DEF Timely, BootAlone
        <4> QED
          BY <1>a, <2>1, <2>2, <3>1, <4>1, <4>2
      <3>2. CASE proc[p] = "serving"
        <4>1. row[p] /\ since[p] <= AgeBound(p)
          BY <2>1, <2>5, <3>2 DEF Leased
        <4>2. timer[p] < HB
          BY <1>a, <2>1, <3>2 DEF Timely
        <4>3. AgeBound(p)' = AgeBound(p) + 1 /\ AgeBound(p) \in Nat
          BY <1>a, <2>1, <2>2, <4>2 DEF AgeBound, Flying
        <4> QED
          BY <1>a, <2>1, <2>2, <3>2, <4>1, <4>3
      <3> QED
        BY <2>1, <3>1, <3>2
    <2> QED
      BY <2>3, <2>4, <2>5 DEF Leased, Unshared
  <1>12. ASSUME NEW c \in Readers, \/ LookupReturns(c) \/ LookupFails(c)
                                   \/ \E r \in Refs : LookupReads(c, r)
         PROVE  UNCHANGED <<row, since, proc, timer, missed, pubVars>>
    BY <1>12 DEF LookupReturns, LookupFails, LookupReads
  <1> QED
    BY <1>1, <1>2, <1>3, <1>4, <1>5, <1>6, <1>7, <1>8, <1>9, <1>10, <1>11, <1>12
       DEF Next, Publish, Stop

\* For every lease time that LeaseAssumption allows: a serving module that
\* missed at most one beat since its last stamp is found by every consumer.
THEOREM FoundWhileBeating == Spec => []VisibleWhileBeating
  <1>1. Init => LeaseInv
    BY DEF Init, LeaseInv, BootAlone, Prompt, DoomedShare, Leased, Publishers
  <1>2. TypeOK /\ TypeOK' /\ LeaseInv /\ [Next]_vars => LeaseInv'
    BY LeaseStep
  <1>3. TypeOK /\ LeaseInv => VisibleWhileBeating
    <2> SUFFICES ASSUME TypeOK, LeaseInv, NEW p \in Producers,
                        proc[p] = "serving", Unshared(p), missed[p] <= 1
                 PROVE  Live(p)
      BY DEF VisibleWhileBeating
    <2>1. row[p] /\ since[p] <= AgeBound(p)
      BY DEF LeaseInv, Leased
    <2>2. timer[p] \in 0..HB /\ since[p] \in Nat /\ (Flying(p) => timer[p] <= MaxPublish)
      BY Times DEF TypeOK, LeaseInv, Prompt, Flying
    <2>3. AgeBound(p) < TTL /\ AgeBound(p) \in Nat
      BY <2>2, Times DEF AgeBound
    <2> QED
      BY <2>1, <2>2, <2>3, Times DEF Live
  <1> QED
    BY <1>1, <1>2, <1>3, TypeCorrect, PTL DEF Spec

---------------------------------------------------------------------------
\* No beat and no boot publication is under way once the shutdown has reached
\* its DELETE, so only a lazy republish can write after it.
Settled(p) == pub[p]["boot"] = "idle" /\ pub[p]["beat"] = "idle"

StopInv ==
    \A p \in Producers :
        /\ pub[p]["boot"] # "idle" => proc[p] = "boot"
        /\ pub[p]["lazy"] # "idle" => healed[p]
        /\ proc[p] = "deleting" => Settled(p)
        /\ withdrawn[p] => proc[p] \in {"closed", "off"} /\ Settled(p)
        /\ withdrawn[p] /\ row[p] => healed[p]

LEMMA StopStep == TypeOK /\ StopInv /\ [Next]_vars => StopInv'
  <1> SUFFICES ASSUME TypeOK, StopInv, [Next]_vars PROVE StopInv'
    OBVIOUS
  <1> USE DEF vars, tableVars, procVars, pubVars, memoVars, lookVars
  <1>0. "boot" \in Publishers /\ "beat" \in Publishers /\ "lazy" \in Publishers
    BY DEF Publishers
  <1>1. ASSUME NEW p \in Producers, Boot(p) PROVE StopInv'
    BY <1>0, <1>1 DEF Boot, EnsureThenSend, Move, Idle, TypeOK, StopInv, Settled
  <1>2. ASSUME NEW p \in Producers, Beat(p) PROVE StopInv'
    BY <1>0, <1>2 DEF Beat, EnsureThenSend, Move, TypeOK, StopInv, Settled
  <1>3. ASSUME NEW p \in Producers, LazyRepublish(p) PROVE StopInv'
    BY <1>0, <1>3 DEF LazyRepublish, EnsureThenSend, Move, TypeOK, StopInv, Settled
  <1>4. ASSUME NEW p \in Producers, NEW w \in Publishers, BatchRuns(p, w) PROVE StopInv'
    BY <1>0, <1>4 DEF BatchRuns, Move, TypeOK, StopInv, Settled
  <1>5. ASSUME NEW p \in Producers, NEW w \in Publishers, BatchCommits(p, w) PROVE StopInv'
    BY <1>0, <1>5 DEF BatchCommits, Move, TypeOK, StopInv, Settled, Publishers
  <1>6. ASSUME NEW p \in Producers, NEW w \in Publishers,
               PublishReturns(p, w) \/ PublishFails(p, w)
        PROVE  StopInv'
    <2>1. Move(p, w, "idle")
      BY <1>6 DEF PublishReturns, PublishFails, Ends
    <2>2. \A q \in Producers, v \in Publishers :
             pub'[q][v] = IF q = p /\ v = w THEN "idle" ELSE pub[q][v]
      BY <2>1, MoveType DEF Stages
    <2>3. \A q \in Producers :
             proc'[q] = IF q = p /\ w = "boot" THEN "serving" ELSE proc[q]
      BY <1>6 DEF PublishReturns, PublishFails, Ends, TypeOK
    <2>4. UNCHANGED <<row, healed, withdrawn>> /\ pub[p][w] # "idle"
      BY <1>6 DEF PublishReturns, PublishFails
    <2>5. w = "boot" => proc[p] = "boot"
      BY <2>4 DEF StopInv
    <2> QED
      BY <1>0, <2>2, <2>3, <2>4, <2>5 DEF StopInv, Settled
  <1>7. ASSUME NEW p \in Producers, Close(p) \/ BeatStopped(p) \/ GivesUp(p)
        PROVE  StopInv'
    BY <1>0, <1>7 DEF Close, BeatStopped, GivesUp, TypeOK, StopInv, Settled
  <1>8. ASSUME NEW p \in Producers, Withdraw(p) \/ WithdrawFails(p) PROVE StopInv'
    BY <1>0, <1>8 DEF Withdraw, WithdrawFails, TypeOK, StopInv, Settled
  <1>9. ASSUME NEW p \in Producers, Exit(p) \/ Crash(p) PROVE StopInv'
    BY <1>0, <1>9 DEF Exit, Crash, Idle, TypeOK, StopInv, Settled
  <1>10. CASE \/ Tick \/ UNCHANGED vars
              \/ \E c \in Readers : \/ LookupReturns(c) \/ LookupFails(c)
                                    \/ \E r \in Refs : LookupReads(c, r)
    BY <1>10 DEF Tick, LookupReturns, LookupFails, LookupReads, StopInv, Settled
  <1> QED
    BY <1>1, <1>2, <1>3, <1>4, <1>5, <1>6, <1>7, <1>8, <1>9, <1>10
       DEF Next, Publish, Stop

\* However beats, lazy republishes, failures and other modules interleave with
\* a shutdown: after its DELETE the row is written again only by a lazy
\* republish of the same process.
THEOREM WithdrawalHolds == Spec => []WithdrawnForGood
  <1>1. Init => StopInv
    BY DEF Init, StopInv, Settled, Publishers
  <1>2. StopInv => WithdrawnForGood
    BY DEF StopInv, WithdrawnForGood
  <1> QED
    BY <1>1, <1>2, StopStep, TypeCorrect, PTL DEF Spec

=============================================================================
