----------------------------- MODULE TaskProofs -----------------------------
(***************************************************************************)
(* Proofs about a task attempt: the hand-over of its claim to one process  *)
(* (TaskClaim), the usage that process and the HTTP handlers report        *)
(* (Metering), and the attempt itself (OneShotTask), for any number of     *)
(* processes, HTTP handlers, uses, handler goroutines and lease rotations. *)
(***************************************************************************)
EXTENDS OneShotTask, Metering, TLAPS

---------------------------------------------------------------------------
(* The claim hand-over alone. *)

\* The processes that hold the claim in their hands: at most one ever does,
\* because a file is consumed once and the broker's claim is won once.
Holds(p) == pc[p] = "claimed" \/ p \in ran \/ p \in failed

\* Who holds the claim has used up the file, or has won the broker's claim.
OneHolder ==
    /\ \A p, q \in Procs : Holds(p) /\ Holds(q) => p = q
    /\ source = "file" /\ file => \A p \in Procs : ~Holds(p)
    /\ source = "bootstrap" =>
          /\ ~file
          /\ \A p \in Procs : pc[p] # "loaded" /\ (Holds(p) => holder = p)
    /\ \A p \in Procs : ~(p \in ran /\ pc[p] = "claimed")
    /\ \A p \in Procs : ~(p \in failed /\ pc[p] = "claimed")
    /\ ran \cap failed = {}
    /\ failed # {} => source = "bootstrap" /\ quality = "badFields"

\* Every reachable state of the claim handoff has the declared types.
THEOREM ClaimTypeCorrect == ClaimSpec => []ClaimTypeOK
  <1>1. ClaimInit => ClaimTypeOK
    BY DEF ClaimInit, ClaimTypeOK
  <1>2. ClaimTypeOK /\ [ClaimNext]_claimVars => ClaimTypeOK'
    <2> SUFFICES ASSUME ClaimTypeOK, [ClaimNext]_claimVars PROVE ClaimTypeOK'
      OBVIOUS
    <2>1. CASE UNCHANGED claimVars
      BY <2>1 DEF ClaimTypeOK, claimVars
    <2>2. CASE ClaimNext
      BY <2>2 DEF ClaimTypeOK, ClaimNext, Go, LoadFile, LoadFails, ConsumeFile, ClaimWon,
                  ClaimLost, ClaimFails, RunHandler, RejectClaim, Crash
    <2> QED
      BY <2>1, <2>2
  <1> QED
    BY <1>1, <1>2, PTL DEF ClaimSpec

\* One process at most is past the claim.
LEMMA OneHolderInvariant == ClaimSpec => []OneHolder
  <1>1. ClaimInit => OneHolder
    BY ProcsAssumption DEF ClaimInit, OneHolder, Holds
  <1>2. ClaimTypeOK /\ OneHolder /\ [ClaimNext]_claimVars => OneHolder'
    <2> SUFFICES ASSUME ClaimTypeOK, OneHolder, [ClaimNext]_claimVars PROVE OneHolder'
      OBVIOUS
    <2> USE ProcsAssumption DEF ClaimTypeOK, OneHolder, Holds, Go
    <2>1. CASE UNCHANGED claimVars
      BY <2>1 DEF claimVars
    <2>2. ASSUME NEW p \in Procs, LoadFile(p) PROVE OneHolder'
      BY <2>2 DEF LoadFile
    <2>3. ASSUME NEW p \in Procs, LoadFails(p) PROVE OneHolder'
      BY <2>3 DEF LoadFails
    <2>4. ASSUME NEW p \in Procs, ConsumeFile(p) PROVE OneHolder'
      BY <2>4 DEF ConsumeFile
    <2>5. ASSUME NEW p \in Procs, ClaimWon(p) PROVE OneHolder'
      BY <2>5 DEF ClaimWon
    <2>6. ASSUME NEW p \in Procs, ClaimLost(p) PROVE OneHolder'
      BY <2>6 DEF ClaimLost
    <2>7. ASSUME NEW p \in Procs, ClaimFails(p) PROVE OneHolder'
      BY <2>7 DEF ClaimFails
    <2>8. ASSUME NEW p \in Procs, RunHandler(p) PROVE OneHolder'
      BY <2>8 DEF RunHandler
    <2>9. ASSUME NEW p \in Procs, RejectClaim(p) PROVE OneHolder'
      BY <2>9 DEF RejectClaim, Reportable
    <2>10. ASSUME NEW p \in Procs, Crash(p) PROVE OneHolder'
      BY <2>10 DEF Crash
    <2> QED
      BY <2>1, <2>2, <2>3, <2>4, <2>5, <2>6, <2>7, <2>8, <2>9, <2>10 DEF ClaimNext
  <1> QED
    BY <1>1, <1>2, ClaimTypeCorrect, PTL DEF ClaimSpec

\* Whatever the number of processes and wherever they crash, the handler of
\* an attempt is entered at most once.
THEOREM HandlerRunsOnceHolds == ClaimSpec => []HandlerRunsOnce
  <1>1. ClaimTypeOK /\ OneHolder => HandlerRunsOnce
    BY DEF ClaimTypeOK, OneHolder, Holds, HandlerRunsOnce
  <1> QED
    BY <1>1, ClaimTypeCorrect, OneHolderInvariant, PTL

\* Only the process the broker gave the claim to reports it as invalid.
THEOREM CallbackOnlyByClaimantHolds == ClaimSpec => []CallbackOnlyByClaimant
  <1>1. ClaimTypeOK /\ OneHolder => CallbackOnlyByClaimant
    BY DEF ClaimTypeOK, OneHolder, Holds, CallbackOnlyByClaimant
  <1> QED
    BY <1>1, ClaimTypeCorrect, OneHolderInvariant, PTL

\* A claim file is the runner's claim, and stays it.
FileIsTheRunners == source = "file" => holder = "runner"

LEMMA FileIsTheRunnersInvariant == ClaimSpec => []FileIsTheRunners
  <1>1. ClaimInit => FileIsTheRunners
    BY DEF ClaimInit, FileIsTheRunners
  <1>2. FileIsTheRunners /\ [ClaimNext]_claimVars => FileIsTheRunners'
    BY DEF FileIsTheRunners, claimVars, ClaimNext, LoadFile, LoadFails, ConsumeFile, ClaimWon,
           ClaimLost, ClaimFails, RunHandler, RejectClaim, Crash
  <1> QED
    BY <1>1, <1>2, PTL DEF ClaimSpec

---------------------------------------------------------------------------
(* Metering. *)

\* Reporting usage interferes with no step of the hand-over: a module that
\* meters still implements TaskClaim.
THEOREM MeteringImplementsClaim == MeteringSpec => ClaimSpec
  <1>1. MeteringInit => ClaimInit
    BY DEF MeteringInit
  <1>2. [MeteringNext]_<<claimVars, meterVars>> => [ClaimNext]_claimVars
    BY DEF MeteringNext
  <1> QED
    BY <1>1, <1>2, PTL DEF MeteringSpec, ClaimSpec

\* The manifest has every metric Record resolves, and each is well declared.
Declared ==
    /\ metrics \subseteq manifest
    /\ \A d \in manifest :
           d.name \notin ReservedNames =>
               Cardinality(d.kinds) = 1 /\ (d.keyed => "Gauge" \in d.kinds)

\* What an event on its way says of who sent it, under which authority, and
\* of the use and the metric it reports.
UsageAuthorised(e) ==
    /\ e.by \in ran \cup HTTPHandlers
    /\ IF e.by \in Procs
       THEN e.credential = "capability" /\ e.to = "attested"
       ELSE e.credential # "capability" /\ e.to # "attested"

Resolved(e) ==
    /\ e.id = [use |-> e.id.use, n |-> e.id.n]
    /\ e.id.use.api # "Record" => e.id.n = 0
    /\ \E d \in metrics :
           /\ d.name = e.id.use.metric
           /\ d.name \notin ReservedNames
           /\ d.keyed => e.id.use.subject # ""

\* The inductive invariant.
Reported ==
    /\ env.secret \in {"", "session"}
    /\ Declared
    /\ \A e \in posts : UsageAuthorised(e) /\ Resolved(e)
    /\ \A id \in counted : \E e \in posts : e.id = id

\* What a handler posts now is authorised and resolved.
LEMMA EventIsSound ==
    ASSUME ClaimTypeOK, Declared, env.secret \in {"", "session"},
           NEW h \in Handlers, NEW u, MayReport(u),
           NEW credential \in ServiceCredentials(h)
    PROVE  LET e == [id |-> EventID(u), by |-> h, credential |-> credential, to |-> UsageURL(h)]
           IN  UsageAuthorised(e) /\ Resolved(e)
  <1> DEFINE e == [id |-> EventID(u), by |-> h, credential |-> credential, to |-> UsageURL(h)]
  <1>1. e.by = h /\ e.credential = credential /\ e.to = UsageURL(h)
    OBVIOUS
  <1>2. e.id.use = u /\ e.id.n = IF u.api = "Record" THEN made + 1 ELSE 0
    BY DEF EventID
  <1>3. e.id = [use |-> e.id.use, n |-> e.id.n]
    BY DEF EventID
  <1>4. UsageAuthorised(e)
    <2>1. h \in ran \cup HTTPHandlers
      BY DEF Handlers
    <2>2. CASE h \in Procs
      BY <1>1, <2>1, <2>2 DEF UsageAuthorised, ServiceCredentials, UsageURL
    <2>3. CASE h \notin Procs
      BY <1>1, <2>1, <2>3 DEF UsageAuthorised, ServiceCredentials, UsageURL
    <2> QED
      BY <2>2, <2>3
  <1>5. Resolved(e)
    <2>1. PICK d \in metrics : /\ d.name = u.metric
                               /\ d.name \notin ReservedNames
                               /\ d.keyed => u.api = "RecordObservation" /\ u.subject # ""
      BY DEF MayReport
    <2> HIDE DEF e
    <2> QED
      BY <1>2, <1>3, <2>1 DEF Resolved
  <1> QED
    BY <1>4, <1>5

\* What is declared of a metric is kept: the manifest gets every metric that
\* Record will resolve, under the rules of its kind.
LEMMA MeterKeepsDeclared ==
    ASSUME Declared, NEW name, NEW opts, Meter(name, opts)
    PROVE  Declared'
  <1>1. CASE Acceptable(name, opts)
    <2>1. /\ metrics' = metrics \cup {Decl(name, opts)}
          /\ manifest' = manifest \cup {Decl(name, opts)}
      BY <1>1 DEF Meter
    <2>2. /\ Decl(name, opts).name = name
          /\ Decl(name, opts).kinds = opts \cap MetricKinds
          /\ Decl(name, opts).keyed = ("BySubject" \in opts)
      BY DEF Decl
    <2>3. name \notin ReservedNames =>
              /\ Cardinality(opts \cap MetricKinds) = 1
              /\ "BySubject" \in opts => "Gauge" \in opts \cap MetricKinds
      BY <1>1 DEF Acceptable, KindFits, MetricKinds
    <2> QED
      BY <2>1, <2>2, <2>3 DEF Declared
  <1>2. CASE ~Acceptable(name, opts)
    BY <1>2 DEF Meter, Declared
  <1> QED
    BY <1>1, <1>2

\* An event stays authorised and resolved while metrics are added and
\* processes start handlers.
LEMMA EventsKeep ==
    ASSUME NEW e, UsageAuthorised(e), Resolved(e), ran \subseteq ran', metrics \subseteq metrics'
    PROVE  UsageAuthorised(e)' /\ Resolved(e)'
  BY DEF UsageAuthorised, Resolved

\* The hand-over never takes a handler back.
LEMMA RanGrows == ASSUME [ClaimNext]_claimVars PROVE ran \subseteq ran'
  BY DEF claimVars, ClaimNext, LoadFile, LoadFails, ConsumeFile, ClaimWon,
         ClaimLost, ClaimFails, RunHandler, RejectClaim, Crash

LEMMA ReportedInvariant == MeteringSpec => []Reported
  <1>1. MeteringInit => Reported
    BY DEF MeteringInit, Reported, Declared
  <1>2. ClaimTypeOK /\ Reported /\ [MeteringNext]_<<claimVars, meterVars>> => Reported'
    <2> SUFFICES ASSUME ClaimTypeOK, Reported, [MeteringNext]_<<claimVars, meterVars>>
                 PROVE  Reported'
      OBVIOUS
    <2>1. env.secret \in {"", "session"} /\ Declared
      BY DEF Reported
    <2>2. ASSUME UNCHANGED meterVars, [ClaimNext]_claimVars PROVE Reported'
      <3>1. ran \subseteq ran'
        BY <2>2, RanGrows
      <3>2. UNCHANGED <<env, metrics, manifest, posts, counted>>
        BY <2>2 DEF meterVars
      <3>3. \A e \in posts : UsageAuthorised(e)' /\ Resolved(e)'
        BY <3>1, <3>2, EventsKeep DEF Reported
      <3> QED
        BY <3>2, <3>3 DEF Reported, Declared
    <2>3. ASSUME MeterStep, UNCHANGED claimVars PROVE Reported'
      <3>1. ran' = ran
        BY <2>3 DEF claimVars
      <3>2. ASSUME UNCHANGED <<env, metrics, manifest, posts, counted>> PROVE Reported'
        <4>1. \A e \in posts : UsageAuthorised(e)' /\ Resolved(e)'
          BY <3>1, <3>2, EventsKeep DEF Reported
        <4> QED
          BY <3>2, <4>1 DEF Reported, Declared
      <3>3. CASE Start
        BY <3>2, <3>3 DEF Start
      <3>4. ASSUME NEW name, NEW opts, Meter(name, opts) PROVE Reported'
        <4>1. Declared'
          BY <2>1, <3>4, MeterKeepsDeclared
        <4>2. metrics \subseteq metrics' /\ UNCHANGED <<env, posts, counted>>
          BY <3>4 DEF Meter
        <4>3. \A e \in posts : UsageAuthorised(e)' /\ Resolved(e)'
          BY <3>1, <4>2, EventsKeep DEF Reported
        <4> QED
          BY <4>1, <4>2, <4>3 DEF Reported
      <3>5. ASSUME NEW h \in Handlers, End(h) \/ Return(h) PROVE Reported'
        BY <3>2, <3>5 DEF End, Return
      <3>6. ASSUME NEW h \in Handlers, NEW u \in Uses, Report(h, u) PROVE Reported'
        <4> DEFINE event(credential) ==
                [id |-> EventID(u), by |-> h, credential |-> credential, to |-> UsageURL(h)]
        <4>1. PICK credential \in ServiceCredentials(h) : posts' = posts \cup {event(credential)}
          BY <3>6 DEF Report
        <4>2. MayReport(u) /\ UNCHANGED <<env, metrics, manifest, counted>>
          BY <3>6 DEF Report
        <4>3. UsageAuthorised(event(credential)) /\ Resolved(event(credential))
          BY <2>1, <4>1, <4>2, EventIsSound
        <4>4. \A e \in posts \cup {event(credential)} : UsageAuthorised(e)' /\ Resolved(e)'
          <5> HIDE DEF event
          <5> QED
            BY <3>1, <4>2, <4>3, EventsKeep DEF Reported
        <4>5. posts \subseteq posts'
          BY <4>1
        <4> QED
          BY <4>1, <4>2, <4>4, <4>5 DEF Reported, Declared
      <3>7. ASSUME NEW event \in posts, Ingest(event) PROVE Reported'
        <4>1. UNCHANGED <<env, metrics, manifest, posts>> /\ counted' = counted \cup {event.id}
          BY <3>7 DEF Ingest
        <4>2. \A e \in posts : UsageAuthorised(e)' /\ Resolved(e)'
          BY <3>1, <4>1, EventsKeep DEF Reported
        <4> QED
          BY <3>7, <4>1, <4>2 DEF Reported, Declared
      <3> QED
        BY <2>3, <3>3, <3>4, <3>5, <3>6, <3>7 DEF MeterStep
    <2>4. CASE UNCHANGED <<claimVars, meterVars>>
      BY <2>2, <2>4
    <2>5. CASE MeteringNext
      BY <2>2, <2>3, <2>5 DEF MeteringNext
    <2> QED
      BY <2>4, <2>5
  <1>3. MeteringSpec => []ClaimTypeOK
    BY MeteringImplementsClaim, ClaimTypeCorrect, PTL
  <1> QED
    BY <1>1, <1>2, <1>3, PTL DEF MeteringSpec

\* Metering's own variables have their declared types, and an event a handler
\* is posting is one dispatch may still receive.
THEOREM MeteringTypeCorrect == MeteringSpec => []MeteringTypeOK
  <1>1. MeteringInit => MeteringTypeOK
    <2> SUFFICES ASSUME MeteringInit PROVE MeteringTypeOK
      OBVIOUS
    <2>1. \A h \in DOMAIN call : call[h] = Nil
      BY DEF MeteringInit
    <2>2. metrics \cup manifest = {} /\ counted = {} /\ ended = {}
      BY DEF MeteringInit
    <2>3. made = 0 /\ MaxCalls \in Nat
      BY MeteringAssumption DEF MeteringInit
    <2>5. made \in 0..MaxCalls
      BY <2>3
    <2>4. env \in [url : URLs, secret : {"", "session"}] /\ phase = "setup"
      BY DEF MeteringInit
    <2> QED
      BY <2>1, <2>2, <2>4, <2>5 DEF MeteringTypeOK
  <1>2. ClaimTypeOK /\ MeteringTypeOK /\ [MeteringNext]_<<claimVars, meterVars>> => MeteringTypeOK'
    <2> SUFFICES ASSUME ClaimTypeOK, MeteringTypeOK, [MeteringNext]_<<claimVars, meterVars>>
                 PROVE  MeteringTypeOK'
      OBVIOUS
    <2> USE MeteringAssumption
    <2>1. CASE UNCHANGED meterVars
      BY <2>1 DEF MeteringTypeOK, meterVars
    <2>2. ASSUME MeterStep PROVE MeteringTypeOK'
      <3>1. CASE Start
        BY <3>1 DEF Start, MeteringTypeOK
      <3>2. ASSUME NEW name \in CustomNames \cup ReservedNames \cup MalformedNames,
                   NEW opts \in SUBSET Options, Meter(name, opts)
            PROVE  MeteringTypeOK'
        <4>1. CASE Acceptable(name, opts)
          <5>1. name \in CustomNames \cup ReservedNames
            BY <3>2, <4>1 DEF Acceptable
          <5>2. Decl(name, opts) \in [name : CustomNames \cup ReservedNames,
                                      kinds : SUBSET MetricKinds, keyed : BOOLEAN]
            BY <5>1 DEF Decl
          <5> QED
            BY <3>2, <4>1, <5>2 DEF Meter, MeteringTypeOK
        <4>2. CASE ~Acceptable(name, opts)
          BY <3>2, <4>2 DEF Meter, MeteringTypeOK
        <4> QED
          BY <4>1, <4>2
      <3>3. ASSUME NEW h \in Handlers, End(h) PROVE MeteringTypeOK'
        <4>1. h \in Procs \cup HTTPHandlers
          BY DEF Handlers, ClaimTypeOK
        <4>2. ended' \subseteq Procs \cup HTTPHandlers
          BY <3>3, <4>1 DEF End, MeteringTypeOK
        <4>3. \A g \in DOMAIN call' : call'[g] # Nil => call'[g] \in posts'
          BY <3>3 DEF End, MeteringTypeOK
        <4>4. UNCHANGED <<phase, env, metrics, manifest, made, posts, counted>>
          BY <3>3 DEF End
        <4> QED
          BY <4>2, <4>3, <4>4 DEF MeteringTypeOK
      <3>4. ASSUME NEW h \in Handlers, Return(h) PROVE MeteringTypeOK'
        BY <3>4 DEF Return, MeteringTypeOK
      <3>5. ASSUME NEW h \in Handlers, NEW u \in Uses, Report(h, u) PROVE MeteringTypeOK'
        <4>1. PICK event : call' = [call EXCEPT ![h] = event] /\ posts' = posts \cup {event}
          BY <3>5 DEF Report
        <4>2. \A g \in DOMAIN call' : call'[g] # Nil => call'[g] \in posts'
          BY <4>1 DEF MeteringTypeOK
        <4>3. counted' = counted /\ counted \subseteq {e.id : e \in posts}
          BY <3>5 DEF Report, MeteringTypeOK
        <4>4. counted' \subseteq {e.id : e \in posts'}
          BY <4>1, <4>3
        <4>5. made < MaxCalls /\ made' = made + 1 /\ made \in 0..MaxCalls /\ MaxCalls \in Nat
          BY <3>5 DEF Report, MeteringTypeOK
        <4>6. made' \in 0..MaxCalls
          BY <4>5
        <4>7. UNCHANGED <<phase, env, metrics, manifest, ended>>
          BY <3>5 DEF Report
        <4> QED
          BY <4>2, <4>4, <4>6, <4>7 DEF MeteringTypeOK
      <3>6. ASSUME NEW event \in posts, Ingest(event) PROVE MeteringTypeOK'
        <4>1. counted' \subseteq {e.id : e \in posts'} /\ UNCHANGED <<call, posts>>
          BY <3>6 DEF Ingest, MeteringTypeOK
        <4>2. UNCHANGED <<phase, env, metrics, manifest, made, ended>>
          BY <3>6 DEF Ingest
        <4> QED
          BY <4>1, <4>2 DEF MeteringTypeOK
      <3> QED
        BY <2>2, <3>1, <3>2, <3>3, <3>4, <3>5, <3>6 DEF MeterStep
    <2> QED
      BY <2>1, <2>2 DEF MeteringNext
  <1> QED
    BY <1>1, <1>2, MeteringImplementsClaim, ClaimTypeCorrect, PTL DEF MeteringSpec

\* A use with a persisted event ID is counted once, however often it was
\* retried and by whomever: all its events have one and the same ID.
THEOREM UsageCountedOnceHolds == MeteringSpec => []UsageCountedOnce
  <1>1. Reported => UsageCountedOnce
    <2> SUFFICES ASSUME Reported, NEW i \in counted, NEW j \in counted,
                        i.use = j.use, i.use.api # "Record"
                 PROVE  i = j
      BY DEF UsageCountedOnce
    <2>1. PICK e \in posts : e.id = i
      BY DEF Reported
    <2>2. PICK f \in posts : f.id = j
      BY DEF Reported
    <2>3. i = [use |-> i.use, n |-> 0]
      BY <2>1 DEF Reported, Resolved
    <2>4. j = [use |-> j.use, n |-> 0]
      BY <2>2 DEF Reported, Resolved
    <2> QED
      BY <2>3, <2>4
  <1> QED
    BY <1>1, ReportedInvariant, PTL

\* Usage reported by a task goes out under its claim's authority, and from
\* one process, since one at most runs the handler.
THEOREM TaskUsageIsTheAttemptsHolds == MeteringSpec => []TaskUsageIsTheAttempts
  <1>1. ClaimTypeOK /\ OneHolder /\ FileIsTheRunners /\ Reported => TaskUsageIsTheAttempts
    <2> SUFFICES ASSUME ClaimTypeOK, OneHolder, FileIsTheRunners, Reported
                 PROVE  TaskUsageIsTheAttempts
      OBVIOUS
    <2>1. \A p \in ran : holder \in {p, "runner"}
      BY DEF ClaimTypeOK, OneHolder, Holds, FileIsTheRunners
    <2>2. \A p, q \in ran : p = q
      BY DEF ClaimTypeOK, OneHolder, Holds
    <2>3. \A e \in posts : e.by \in Procs => e.by \in ran
      BY MeteringAssumption DEF Reported, UsageAuthorised
    <2>4. \A e \in posts :
             IF e.by \in Procs
             THEN e.credential = "capability" /\ e.to = "attested"
             ELSE e.credential # "capability" /\ e.to # "attested"
      BY DEF Reported, UsageAuthorised
    <2>5. \A e \in posts : e.by \in Procs => holder \in {e.by, "runner"}
      BY <2>1, <2>3
    <2>6. \A e, f \in posts : e.by \in Procs /\ f.by \in Procs => e.by = f.by
      BY <2>2, <2>3
    <2> QED
      BY <2>4, <2>5, <2>6 DEF TaskUsageIsTheAttempts
  <1> QED
    BY <1>1, MeteringImplementsClaim, ClaimTypeCorrect, OneHolderInvariant,
       FileIsTheRunnersInvariant, ReportedInvariant, PTL

\* Whatever dispatch counts, the manifest says how to aggregate.
THEOREM UsageIsAggregableHolds == MeteringSpec => []UsageIsAggregable
  <1>1. Reported => UsageIsAggregable
    <2> SUFFICES ASSUME Reported, NEW id \in counted
                 PROVE  \E d \in manifest :
                          /\ d.name = id.use.metric
                          /\ d.name \notin ReservedNames
                          /\ Cardinality(d.kinds) = 1
                          /\ d.keyed => "Gauge" \in d.kinds /\ id.use.subject # ""
      BY DEF UsageIsAggregable
    <2>1. PICK e \in posts : e.id = id
      BY DEF Reported
    <2>2. PICK d \in metrics : /\ d.name = id.use.metric
                               /\ d.name \notin ReservedNames
                               /\ d.keyed => id.use.subject # ""
      BY <2>1 DEF Reported, Resolved
    <2>3. d \in manifest /\ Cardinality(d.kinds) = 1 /\ (d.keyed => "Gauge" \in d.kinds)
      BY <2>2 DEF Reported, Declared
    <2> QED
      BY <2>2, <2>3
  <1> QED
    BY <1>1, ReportedInvariant, PTL

---------------------------------------------------------------------------
(* The attempt, from its validated claim to RunOneShot's return. *)

Stages == {"none", "sent", "answered", "refused", "lost"}
Vended == {"none", "stale", "fresh"}

\* A request built from well typed parts is well typed.
LEMMA RequestType ==
    ASSUME NEW s \in Stages, NEW t \in 0..MaxLease, NEW n \in 0..MaxLease,
           NEW c \in BOOLEAN, NEW l \in BOOLEAN, NEW v \in Vended
    PROVE  Request(s, t, n, c, l, v) \in Requests
  BY DEF Request, Requests, Stages, Vended

\* The fields of a request are the parts it was built from.
LEMMA RequestFields ==
    ASSUME NEW r \in Requests
    PROVE  /\ r.stage \in Stages /\ r.token \in 0..MaxLease /\ r.cap \in 0..MaxLease
           /\ r.cancelled \in BOOLEAN /\ r.late \in BOOLEAN /\ r.vended \in Vended
  BY DEF Requests, Stages, Vended

\* Moving a request to another stage keeps it well typed.
LEMMA AtType == ASSUME NEW r \in Requests, NEW s \in Stages PROVE At(r, s) \in Requests
  BY RequestType, RequestFields DEF At

\* A request as sent is well typed.
LEMMA SentType == ASSUME NEW t \in 0..MaxLease PROVE Sent(t) \in Requests
  <1>1. 0 \in 0..MaxLease /\ FALSE \in BOOLEAN /\ "none" \in Vended /\ "sent" \in Stages
    BY LeaseAssumption DEF Vended, Stages
  <1> QED
    BY <1>1, RequestType DEF Sent

\* So is the absence of a request.
LEMMA NoReqType == NoReq \in Requests
  <1>1. 0 \in 0..MaxLease /\ FALSE \in BOOLEAN /\ "none" \in Vended /\ "none" \in Stages
    BY LeaseAssumption DEF Vended, Stages
  <1> QED
    BY <1>1, RequestType DEF NoReq

\* The end of a singleflight keeps the goroutines' locations well typed.
LEMMA LandsType ==
    ASSUME TypeOK, NEW u \in Users, NEW next \in {"read", "idle"}, Lands(u, next)
    PROVE  /\ flight' \in [Kinds -> Users \cup {None}]
           /\ user' \in [Users -> {"idle", "join", "wait", "lead", "posting", "read"}]
           /\ got' \in [Users -> BOOLEAN]
  <1>1. flight' \in [Kinds -> Users \cup {None}]
    BY DEF TypeOK, Lands
  <1>2. user' \in [Users -> {"idle", "join", "wait", "lead", "posting", "read"}]
    BY DEF TypeOK, Lands
  <1>3. got' \in [Users -> BOOLEAN]
    BY DEF TypeOK, Lands
  <1> QED
    BY <1>1, <1>2, <1>3

\* cancelCause keeps the type of the cause.
LEMMA CancelWithType ==
    ASSUME TypeOK, NEW e \in Errors, CancelWith(e)
    PROVE  cause' \in Errors \cup {"none"}
  BY DEF TypeOK, CancelWith

\* What RunOneShot knows where: the handler's result once it has returned,
\* a decision before it reports.
Progress ==
    /\ main # "run" => ret # "running"
    /\ main \in {"report", "posting", "clear", "exit"} => decision # NoDecision
    /\ req["main"].stage # "none" => main = "posting"

\* Every action preserves the type invariant.
LEMMA TypeStep == TypeOK /\ Progress /\ [Next]_vars => TypeOK'
  <1> SUFFICES ASSUME TypeOK, Progress, [Next]_vars PROVE TypeOK'
    OBVIOUS
  <1> USE LeaseAssumption DEF TypeOK, vars, procVars, ctxVars, brokerVars, history
  <1>1. CASE UNCHANGED vars
    BY <1>1
  <1>2. ASSUME NEW r \in Returns, HandlerReturns(r) PROVE TypeOK'
    BY <1>2 DEF HandlerReturns
  <1>3. CASE Decide
    <2>1. Verdict \in {"nil", "panic"} \cup Errors
      BY <1>3 DEF Decide, Verdict, Returns, Errors, Progress
    <2>2. Decided \in Decisions
      BY <2>1 DEF Decided, Decisions
    <2> QED
      BY <1>3, <2>2 DEF Decide
  <1>4. CASE TerminalSends
    BY <1>4, SentType DEF TerminalSends, Posters, MaxTries
  <1>5. CASE TerminalRetries
    BY <1>5, SentType, RequestFields DEF TerminalRetries, Posters, MaxTries
  <1>6. CASE TerminalReturns
    <2>1. req' \in [Posters -> Requests] /\ brokerMu' = None /\ main' = "clear"
      BY <1>6, NoReqType DEF TerminalReturns, Unlock
    <2>2. UNCHANGED <<hb, user, want, got, flight, terminal, cap, res, ctxVars,
                      brokerVars, history>>
      BY <1>6 DEF TerminalReturns
    <2> QED
      BY <2>1, <2>2
  <1>7. CASE Clear
    BY <1>7 DEF Clear, CancelWith, Errors
  <1>8. CASE HeartbeatStops \/ HeartbeatFires \/ HeartbeatSends
    BY <1>8, SentType DEF HeartbeatStops, HeartbeatFires, HeartbeatSends, Posters
  <1>9. CASE HeartbeatInterrupted \/ HeartbeatFails
    BY <1>9, NoReqType DEF HeartbeatInterrupted, HeartbeatFails, RequestErrors,
                           CancelWith, Unlock, Errors
  <1>10. CASE HeartbeatReturns
    BY <1>10, NoReqType, RequestFields
       DEF HeartbeatReturns, Adopt, NoteCancelled, CancelWith, Unlock, Errors, Posters
  <1>11. ASSUME NEW u \in Users, NEW k \in Kinds, UserAsks(u, k) PROVE TypeOK'
    BY <1>11 DEF UserAsks
  <1>11a. ASSUME NEW u \in Users, UserJoins(u) PROVE TypeOK'
    BY <1>11a DEF UserJoins
  <1>12. ASSUME NEW u \in Users, RefreshNotNeeded(u) \/ RefreshTooLate(u)
         PROVE  TypeOK'
    <2>1. Lands(u, "read") \/ Lands(u, "idle")
      BY <1>12 DEF RefreshNotNeeded, RefreshTooLate
    <2>2. /\ flight' \in [Kinds -> Users \cup {None}]
          /\ user' \in [Users -> {"idle", "join", "wait", "lead", "posting", "read"}]
          /\ got' \in [Users -> BOOLEAN]
      BY <2>1, LandsType
    <2>3. UNCHANGED <<main, hb, want, brokerMu, terminal, cap, res, ctxVars, req,
                      brokerVars, history>>
      BY <1>12 DEF RefreshNotNeeded, RefreshTooLate
    <2> QED
      BY <2>2, <2>3
  <1>13. ASSUME NEW u \in Users, RefreshSends(u) PROVE TypeOK'
    BY <1>13, SentType DEF RefreshSends, Posters
  <1>14. ASSUME NEW u \in Users, RefreshInterrupted(u) \/ RefreshFails(u)
         PROVE  TypeOK'
    <2>1. /\ flight' \in [Kinds -> Users \cup {None}]
          /\ user' \in [Users -> {"idle", "join", "wait", "lead", "posting", "read"}]
          /\ got' \in [Users -> BOOLEAN]
      BY <1>14, LandsType DEF RefreshInterrupted, RefreshFails
    <2>2. cause' \in Errors \cup {"none"}
      BY <1>14, CancelWithType DEF RefreshInterrupted, RefreshFails, RequestErrors, Errors
    <2>3. trouble' \in BOOLEAN
      BY <1>14 DEF RefreshInterrupted, RefreshFails
    <2>4. req' \in [Posters -> Requests] /\ brokerMu' = None
      BY <1>14, NoReqType DEF RefreshInterrupted, RefreshFails, Unlock
    <2>5. UNCHANGED <<main, hb, want, terminal, cap, res, expired, stopped, ret,
                      decision, tries, brokerVars, latest, cancelled>>
      BY <1>14 DEF RefreshInterrupted, RefreshFails
    <2> QED
      BY <2>1, <2>2, <2>3, <2>4, <2>5
  <1>15. ASSUME NEW u \in Users, RefreshReturns(u) PROVE TypeOK'
    <2>0. req[u].cap \in 0..MaxLease /\ req[u].vended \in Vended
      BY RequestFields DEF Posters
    <2>1. /\ flight' \in [Kinds -> Users \cup {None}]
          /\ user' \in [Users -> {"idle", "join", "wait", "lead", "posting", "read"}]
          /\ got' \in [Users -> BOOLEAN]
      BY <1>15, LandsType DEF RefreshReturns
    <2>2. cause' \in Errors \cup {"none"}
      BY <1>15, CancelWithType DEF RefreshReturns, Errors
    <2>3. trouble' \in BOOLEAN /\ cancelled' \in BOOLEAN
      BY <1>15 DEF RefreshReturns, NoteCancelled
    <2>4. req' \in [Posters -> Requests] /\ brokerMu' = None
      BY <1>15, NoReqType DEF RefreshReturns, Unlock
    <2>5. cap' \in 0..MaxLease /\ latest' \in 1..MaxLease
      BY <1>15, <2>0 DEF RefreshReturns, Adopt
    <2>6. res' \in [Kinds -> Vended]
      BY <1>15, <2>0 DEF RefreshReturns, Vended
    <2>7. UNCHANGED <<main, hb, want, terminal, expired, stopped, ret, decision,
                      tries, brokerVars>>
      BY <1>15 DEF RefreshReturns
    <2> QED
      BY <2>1, <2>2, <2>3, <2>4, <2>5, <2>6, <2>7 DEF Vended
  <1>16. ASSUME NEW u \in Users, UserReads(u) PROVE TypeOK'
    <2>1. got' \in [Users -> BOOLEAN]
      BY <1>16 DEF UserReads
    <2>2. user' \in [Users -> {"idle", "join", "wait", "lead", "posting", "read"}]
      BY <1>16 DEF UserReads
    <2>3. UNCHANGED <<main, hb, want, flight, brokerMu, terminal, cap, res,
                      ctxVars, req, brokerVars, history>>
      BY <1>16 DEF UserReads
    <2> QED
      BY <2>1, <2>2, <2>3
  <1>17. ASSUME NEW p \in Posters, BrokerAnswers(p) PROVE TypeOK'
    <2>1. PICK new \in {0, lease + 1} \cap 0..MaxLease, late \in BOOLEAN,
               vended \in IF p = "hb" THEN {"none"} ELSE {"none", "stale", "fresh"} :
               /\ lease' = IF new = 0 THEN lease ELSE new
               /\ trouble' = (trouble \/ (late /\ p = "hb"))
               /\ req' = [req EXCEPT ![p] = Request("answered", req[p].token, new,
                                                cancelReq, late /\ p = "hb", vended)]
      BY <1>17 DEF BrokerAnswers
    <2>2. /\ "answered" \in Stages /\ req[p].token \in 0..MaxLease /\ new \in 0..MaxLease
          /\ cancelReq \in BOOLEAN /\ (late /\ p = "hb") \in BOOLEAN /\ vended \in Vended
      BY RequestFields DEF Stages, Vended
    <2>3. Request("answered", req[p].token, new, cancelReq, late /\ p = "hb", vended)
              \in Requests
      BY <2>2, RequestType
    <2>4. req' \in [Posters -> Requests]
      BY <2>1, <2>3
    <2>5. lease' \in 1..MaxLease
      BY <2>1
    <2>6. trouble' \in BOOLEAN
      BY <2>1
    <2>7. UNCHANGED <<procVars, cap, res, ctxVars, outcome, cancelReq, latest, cancelled>>
      BY <1>17 DEF BrokerAnswers
    <2> QED
      BY <2>4, <2>5, <2>6, <2>7
  <1>18. ASSUME NEW p \in Posters, BrokerRefuses(p) \/ AnswerLost(p) PROVE TypeOK'
    <2>1. At(req[p], "refused") \in Requests /\ At(req[p], "lost") \in Requests
      BY AtType DEF Stages
    <2>2. req' \in [Posters -> Requests]
      BY <1>18, <2>1 DEF BrokerRefuses, AnswerLost
    <2>3. trouble' = TRUE
      BY <1>18 DEF BrokerRefuses, AnswerLost
    <2>4. UNCHANGED <<procVars, cap, res, ctxVars, brokerVars, latest, cancelled>>
      BY <1>18 DEF BrokerRefuses, AnswerLost
    <2> QED
      BY <2>2, <2>3, <2>4
  <1>19. CASE BrokerRecords
    <2>1. At(req["main"], "answered") \in Requests
      BY AtType DEF Stages, Posters
    <2>2. req' \in [Posters -> Requests]
      BY <1>19, <2>1 DEF BrokerRecords
    <2>3. decision # NoDecision
      BY <1>19 DEF BrokerRecords, Progress
    <2>4. outcome' \in {"open", "complete", "fail"}
      BY <1>19, <2>3 DEF BrokerRecords, Decisions, NoDecision, Completion, Failure
    <2>5. UNCHANGED <<procVars, cap, res, ctxVars, lease, cancelReq, history>>
      BY <1>19 DEF BrokerRecords
    <2> QED
      BY <2>2, <2>4, <2>5
  <1>20. ASSUME NEW e \in {"Canceled", "DeadlineExceeded"}, ParentDone(e) PROVE TypeOK'
    BY <1>20 DEF ParentDone, CancelWith, Errors
  <1>21. CASE DeadlinePasses
    BY <1>21 DEF DeadlinePasses
  <1>22. CASE RequestCancel
    BY <1>22 DEF RequestCancel
  <1>23. ASSUME NEW k \in Kinds, CredentialAges(k) PROVE TypeOK'
    BY <1>23 DEF CredentialAges
  <1> QED
    BY <1>1, <1>2, <1>3, <1>4, <1>5, <1>6, <1>7, <1>8, <1>9, <1>10, <1>11, <1>11a,
       <1>12, <1>13, <1>14, <1>15, <1>16, <1>17, <1>18, <1>19, <1>20, <1>21, <1>22, <1>23
       DEF Next, Main, Heartbeat, Refresh, Answer

---------------------------------------------------------------------------
\* brokerMu is held by exactly the goroutine whose request is under way.
LockHeld ==
    /\ \A p \in Posters : req[p].stage # "none" => brokerMu = p
    /\ hb = "posting" <=> brokerMu = "hb"
    /\ main = "posting" <=> brokerMu = "main"
    /\ \A u \in Users : user[u] = "posting" <=> brokerMu = u

\* The heartbeat is over before the decision, and from the terminal request on
\* nobody but RunOneShot gets brokerMu.
TerminalClosed ==
    /\ terminal <=> main \in {"posting", "clear", "exit"}
    /\ main \notin {"run", "drain"} => hb = "done"
    /\ terminal => brokerMu \in {"main", None}

\* The manager holds the newest lease until it is cleared.
LeaseAdopted ==
    /\ main # "exit" => cap = latest
    /\ req["main"].stage # "none" => req["main"].token = latest

\* What was decided, from what.
DecisionHonest ==
    /\ decision # NoDecision => ~Undecided
    /\ cancelled => cause # "none"
    /\ decision = Completion => ret = "nil" /\ ~cancelled
    /\ decision # NoDecision /\ cancelled => decision = Failure(cause)
    /\ outcome # "open" => outcome = decision.kind /\ decision # NoDecision

\* A flight has one leader, which asked for its kind, and waiters have a flight.
Flights ==
    /\ \A u \in Users : user[u] \in {"lead", "posting"} => flight[want[u]] = u
    /\ \A k \in Kinds : flight[k] # None =>
          user[flight[k]] \in {"lead", "posting"} /\ want[flight[k]] = k
    /\ \A u \in Users : user[u] = "wait" => flight[want[u]] # None

ClearedAtExit == main = "exit" => \A k \in Kinds : res[k] = "none"

IInv ==
    /\ Progress
    /\ LockHeld
    /\ TerminalClosed
    /\ LeaseAdopted
    /\ DecisionHonest
    /\ Flights
    /\ ClearedAtExit

\* When a refresh ends, no goroutine is left waiting for it.
LEMMA LandsFlights ==
    ASSUME TypeOK, Flights, NEW u \in Users, user[u] \in {"lead", "posting"},
           NEW next \in {"read", "idle"}, Lands(u, next), UNCHANGED want
    PROVE  /\ Flights'
           /\ \A v \in Users : user'[v] = "posting" <=> user[v] = "posting" /\ v # u
  <1> USE UsersAssumption DEF TypeOK, Flights
  <1> DEFINE all == {u} \cup {w \in Users : user[w] = "wait" /\ want[w] = want[u]}
  <1>1. \A v \in Users : user'[v] = IF v \in all THEN next ELSE user[v]
    BY DEF Lands
  <1>2. \A k \in Kinds : flight'[k] = IF k = want[u] THEN None ELSE flight[k]
    BY DEF Lands
  <1>3. \A v \in Users : user'[v] = "posting" <=> user[v] = "posting" /\ v # u
    BY <1>1
  <1>4. \A v \in Users : user'[v] \in {"lead", "posting"} => flight'[want'[v]] = v
    BY <1>1, <1>2
  <1>5. \A k \in Kinds : flight'[k] # None =>
          user'[flight'[k]] \in {"lead", "posting"} /\ want'[flight'[k]] = k
    BY <1>1, <1>2
  <1>6. \A v \in Users : user'[v] = "wait" => flight'[want'[v]] # None
    BY <1>1, <1>2
  <1> QED
    BY <1>3, <1>4, <1>5, <1>6

\* The inductive invariant is preserved, action by action.
LEMMA InvariantStep == TypeOK /\ IInv /\ [Next]_vars => IInv'
  <1> SUFFICES ASSUME TypeOK, IInv, [Next]_vars PROVE IInv'
    OBVIOUS
  <1> USE UsersAssumption, LeaseAssumption
  <1> USE DEF TypeOK, Requests, vars, procVars, ctxVars, brokerVars, history, IInv, Progress, LockHeld,
              TerminalClosed, LeaseAdopted, DecisionHonest, Flights, ClearedAtExit,
              Undecided, Posters, CancelWith, Unlock, Request, NoReq, Sent, At
  <1>1. CASE UNCHANGED vars
    BY <1>1
  <1>2. ASSUME NEW r \in Returns, HandlerReturns(r) PROVE IInv'
    <2>1. Completion # NoDecision /\ decision = NoDecision /\ r # "running"
      BY <1>2 DEF HandlerReturns, Completion, NoDecision, Returns, Errors
    <2> QED
      BY <1>2, <2>1 DEF HandlerReturns
  <1>3. CASE Decide
    <2>1. Completion # NoDecision /\ \A e : Failure(e) \notin {Completion, NoDecision}
      BY DEF NoDecision, Completion, Failure
    <2>2. cancelled => Decided = Failure(cause)
      BY DEF Decided, Verdict, Errors
    <2>3. Decided = Completion => ret = "nil" /\ ~cancelled
      BY <2>1, <2>2 DEF Decided, Verdict, Errors
    <2>4. Decided # NoDecision
      BY <2>1 DEF Decided
    <2>5. decision = NoDecision /\ outcome = "open"
      BY <1>3 DEF Decide
    <2>6. DecisionHonest'
      BY <1>3, <2>2, <2>3, <2>4, <2>5 DEF Decide
    <2>7. (Progress /\ LockHeld /\ TerminalClosed /\ LeaseAdopted)'
      BY <1>3, <2>4 DEF Decide
    <2>8. (Flights /\ ClearedAtExit)'
      BY <1>3 DEF Decide
    <2> QED
      BY <2>6, <2>7, <2>8
  <1>4. CASE TerminalSends
    BY <1>4 DEF TerminalSends
  <1>5. CASE TerminalRetries
    BY <1>5 DEF TerminalRetries
  <1>6. CASE TerminalReturns
    BY <1>6 DEF TerminalReturns
  <1>7. CASE Clear
    BY <1>7 DEF Clear
  <1>8. CASE HeartbeatStops \/ HeartbeatFires \/ HeartbeatSends
    BY <1>8 DEF HeartbeatStops, HeartbeatFires, HeartbeatSends, HbDone, BaseDone
  <1>9. CASE HeartbeatInterrupted
    BY <1>9 DEF HeartbeatInterrupted
  <1>10. CASE HeartbeatFails
    BY <1>10 DEF HeartbeatFails
  <1>11. CASE HeartbeatReturns
    <2>1. ~terminal /\ Undecided /\ req["main"].stage = "none" /\ main # "exit"
      BY <1>11 DEF HeartbeatReturns
    <2>2. decision = NoDecision /\ outcome = "open"
      BY <2>1
    <2>3. DecisionHonest'
      BY <1>11, <2>1, <2>2 DEF HeartbeatReturns, NoteCancelled, Completion, NoDecision
    <2>4. LeaseAdopted'
      BY <1>11, <2>1 DEF HeartbeatReturns, Adopt
    <2>5. (Progress /\ LockHeld /\ TerminalClosed)'
      BY <1>11, <2>1 DEF HeartbeatReturns
    <2>6. (Flights /\ ClearedAtExit)'
      BY <1>11, <2>1 DEF HeartbeatReturns
    <2> QED
      BY <2>3, <2>4, <2>5, <2>6
  <1>12. ASSUME NEW u \in Users, NEW k \in Kinds, UserAsks(u, k) PROVE IInv'
    BY <1>12 DEF UserAsks
  <1>12a. ASSUME NEW u \in Users, UserJoins(u) PROVE IInv'
    <2>1. /\ user[u] = "join" /\ user'[u] # "posting"
          /\ \A v \in Users \ {u} : user'[v] = user[v]
      BY <1>12a DEF UserJoins
    <2>2. Flights'
      <3>1. CASE flight[want[u]] = None
        <4>1. /\ user'[u] = "lead" /\ UNCHANGED want
              /\ \A k \in Kinds : flight'[k] = IF k = want[u] THEN u ELSE flight[k]
          BY <1>12a, <3>1 DEF UserJoins
        <4>2. \A v \in Users \ {u} : user[v] \in {"lead", "posting"} => want[v] # want[u]
          BY <3>1, UsersAssumption
        <4>3. \A v \in Users : user'[v] \in {"lead", "posting"} => flight'[want'[v]] = v
          BY <2>1, <4>1, <4>2
        <4>4. ASSUME NEW k \in Kinds, flight'[k] # None
              PROVE  user'[flight'[k]] \in {"lead", "posting"} /\ want'[flight'[k]] = k
          <5>1. CASE k = want[u]
            BY <4>1, <5>1
          <5>2. CASE k # want[u]
            <6>1. flight'[k] = flight[k] /\ flight[k] \in Users /\ flight[k] # u
              BY <2>1, <4>1, <4>4, <5>2
            <6> QED
              BY <2>1, <4>1, <4>4, <6>1
          <5> QED
            BY <5>1, <5>2
        <4>5. \A v \in Users : user'[v] = "wait" => flight'[want'[v]] # None
          BY <2>1, <4>1, UsersAssumption
        <4> QED
          BY <4>3, <4>4, <4>5
      <3>2. CASE flight[want[u]] # None
        <4>1. user'[u] = "wait" /\ UNCHANGED <<want, flight>>
          BY <1>12a, <3>2 DEF UserJoins
        <4>2. \A k \in Kinds : flight[k] # u
          BY <2>1, UsersAssumption
        <4> QED
          BY <2>1, <3>2, <4>1, <4>2, UsersAssumption
      <3> QED
        BY <3>1, <3>2
    <2>3. LockHeld'
      BY <1>12a, <2>1 DEF UserJoins
    <2>4. (Progress /\ TerminalClosed /\ LeaseAdopted /\ DecisionHonest /\ ClearedAtExit)'
      BY <1>12a DEF UserJoins
    <2> QED
      BY <2>2, <2>3, <2>4
  <1>13. ASSUME NEW u \in Users, RefreshNotNeeded(u) \/ RefreshTooLate(u) PROVE IInv'
    <2>1. user[u] = "lead" /\ UNCHANGED want /\ (Lands(u, "read") \/ Lands(u, "idle"))
      BY <1>13 DEF RefreshNotNeeded, RefreshTooLate
    <2>2. Flights' /\ \A v \in Users : user'[v] = "posting" <=> user[v] = "posting"
      BY <2>1, LandsFlights
    <2>3. (Progress /\ LockHeld /\ TerminalClosed)'
      BY <1>13, <2>2 DEF RefreshNotNeeded, RefreshTooLate
    <2>4. (LeaseAdopted /\ DecisionHonest /\ ClearedAtExit)'
      BY <1>13 DEF RefreshNotNeeded, RefreshTooLate
    <2> QED
      BY <2>2, <2>3, <2>4
  <1>14. ASSUME NEW u \in Users, RefreshSends(u) PROVE IInv'
    BY <1>14 DEF RefreshSends
  <1>15. ASSUME NEW u \in Users, RefreshInterrupted(u) \/ RefreshFails(u) PROVE IInv'
    <2>1. user[u] = "posting" /\ UNCHANGED want /\ Lands(u, "idle")
      BY <1>15 DEF RefreshInterrupted, RefreshFails
    <2>2. Flights' /\ \A v \in Users : user'[v] = "posting" <=> user[v] = "posting" /\ v # u
      BY <2>1, LandsFlights
    <2>3. LockHeld'
      BY <1>15, <2>1, <2>2 DEF RefreshInterrupted, RefreshFails
    <2>4. (Progress /\ TerminalClosed /\ LeaseAdopted)'
      BY <1>15, <2>1 DEF RefreshInterrupted, RefreshFails
    <2>5. cause # "none" => cause' = cause
      BY <1>15 DEF RefreshInterrupted, RefreshFails
    <2>6. DecisionHonest'
      BY <1>15, <2>5 DEF RefreshInterrupted, RefreshFails
    <2>7. ClearedAtExit'
      BY <1>15 DEF RefreshInterrupted, RefreshFails
    <2> QED
      BY <2>2, <2>3, <2>4, <2>6, <2>7
  <1>16. ASSUME NEW u \in Users, RefreshReturns(u) PROVE IInv'
    <2>1. user[u] = "posting" /\ UNCHANGED want /\ (Lands(u, "read") \/ Lands(u, "idle"))
      BY <1>16 DEF RefreshReturns
    <2>2. Flights' /\ \A v \in Users : user'[v] = "posting" <=> user[v] = "posting" /\ v # u
      BY <2>1, LandsFlights
    <2>3. ~terminal /\ main \notin {"posting", "clear", "exit"} /\ req["main"].stage = "none"
      BY <2>1
    <2>4. LockHeld'
      BY <1>16, <2>1, <2>2 DEF RefreshReturns
    <2>5. (Progress /\ TerminalClosed)'
      BY <1>16, <2>1, <2>3 DEF RefreshReturns
    <2>6. LeaseAdopted'
      BY <1>16, <2>1, <2>3 DEF RefreshReturns, Adopt
    <2>7. cause # "none" => cause' = cause
      BY <1>16 DEF RefreshReturns
    <2>8. cancelled' => cancelled \/ (Undecided /\ cause' # "none")
      BY <1>16 DEF RefreshReturns, NoteCancelled
    <2>9. DecisionHonest'
      BY <1>16, <2>7, <2>8 DEF RefreshReturns, Completion, NoDecision
    <2>10. ClearedAtExit'
      BY <1>16, <2>3 DEF RefreshReturns
    <2> QED
      BY <2>2, <2>4, <2>5, <2>6, <2>9, <2>10
  <1>17. ASSUME NEW u \in Users, UserReads(u) PROVE IInv'
    BY <1>17 DEF UserReads
  <1>18. ASSUME NEW p \in Posters, BrokerAnswers(p) PROVE IInv'
    BY <1>18 DEF BrokerAnswers
  <1>19. ASSUME NEW p \in Posters, BrokerRefuses(p) \/ AnswerLost(p) PROVE IInv'
    BY <1>19 DEF BrokerRefuses, AnswerLost
  <1>20. CASE BrokerRecords
    BY <1>20 DEF BrokerRecords
  <1>21. ASSUME NEW e \in {"Canceled", "DeadlineExceeded"}, ParentDone(e) PROVE IInv'
    BY <1>21 DEF ParentDone
  <1>22. CASE DeadlinePasses \/ RequestCancel
    BY <1>22 DEF DeadlinePasses, RequestCancel
  <1>23. ASSUME NEW k \in Kinds, CredentialAges(k) PROVE IInv'
    BY <1>23 DEF CredentialAges
  <1> HIDE DEF TypeOK, IInv
  <1> QED
    BY <1>1, <1>2, <1>3, <1>4, <1>5, <1>6, <1>7, <1>8, <1>9, <1>10, <1>11, <1>12,
       <1>12a, <1>13, <1>14, <1>15, <1>16, <1>17, <1>18, <1>19, <1>20, <1>21, <1>22, <1>23
       DEF Next, Main, Heartbeat, Refresh, Answer

\* The types and the inductive invariant hold in every reachable state.
LEMMA Invariant == Spec => [](TypeOK /\ IInv)
  <1>1. Init => TypeOK
    <2> SUFFICES ASSUME Init PROVE TypeOK
      OBVIOUS
    <2>1. req \in [Posters -> Requests]
      BY NoReqType DEF Init
    <2>2. /\ got \in [Users -> BOOLEAN] /\ terminal \in BOOLEAN
          /\ expired \in BOOLEAN /\ stopped \in BOOLEAN /\ cancelReq \in BOOLEAN
          /\ cancelled \in BOOLEAN /\ trouble \in BOOLEAN
      BY DEF Init
    <2>3. decision \in Decisions
      BY DEF Init, Decisions
    <2> QED
      BY <2>1, <2>2, <2>3, LeaseAssumption DEF Init, TypeOK, Errors, Returns, MaxTries, Posters
  <1>2. Init => IInv
    <2> SUFFICES ASSUME Init PROVE IInv
      OBVIOUS
    <2>1. \A p \in Posters : req[p].stage = "none"
      BY DEF Init, NoReq, Request
    <2>2. Progress /\ LockHeld /\ TerminalClosed
      BY <2>1, UsersAssumption DEF Init, Progress, LockHeld, TerminalClosed, Posters
    <2>3. LeaseAdopted /\ DecisionHonest
      BY <2>1 DEF Init, LeaseAdopted, DecisionHonest, Posters, Completion, NoDecision
    <2>4. Flights /\ ClearedAtExit
      BY DEF Init, Flights, ClearedAtExit
    <2> QED
      BY <2>2, <2>3, <2>4 DEF IInv
  <1>3. IInv => Progress
    BY DEF IInv
  <1> QED
    BY <1>1, <1>2, <1>3, TypeStep, InvariantStep, PTL DEF Spec

\* Every reachable state of an attempt has the declared types; in particular
\* the terminal callback is tried at most three times.
THEOREM TypeCorrect == Spec => []TypeOK
  BY Invariant, PTL

\* The terminal callback is the last request of the attempt, however many
\* goroutines the handler leaked.
THEOREM NothingAfterTerminalHolds == Spec => []NothingAfterTerminal
  <1>1. IInv => NothingAfterTerminal
    BY UsersAssumption DEF IInv, NothingAfterTerminal, LockHeld, TerminalClosed, Posters
  <1> QED
    BY <1>1, Invariant, PTL

\* Requests of one attempt never overlap.
THEOREM OneRequestAtATimeHolds == Spec => []OneRequestAtATime
  <1>1. IInv => OneRequestAtATime
    BY DEF IInv, OneRequestAtATime, LockHeld
  <1> QED
    BY <1>1, Invariant, PTL

\* The terminal callback presents the newest lease any answer delivered.
THEOREM TerminalUsesLatestLeaseHolds == Spec => []TerminalUsesLatestLease
  <1>1. IInv => TerminalUsesLatestLease
    BY DEF IInv, TerminalUsesLatestLease, LeaseAdopted
  <1> QED
    BY <1>1, Invariant, PTL

\* No goroutine waits for a refresh that nobody is doing.
THEOREM FollowersHaveLeaderHolds == Spec => []FollowersHaveLeader
  <1>1. TypeOK /\ IInv => FollowersHaveLeader
    BY UsersAssumption DEF TypeOK, IInv, FollowersHaveLeader, Flights
  <1> QED
    BY <1>1, Invariant, PTL

\* A recorded completion is the handler's success, not told of a cancellation.
THEOREM CompletionIsHonestHolds == Spec => []CompletionIsHonest
  <1>1. TypeOK /\ IInv => CompletionIsHonest
    <2> SUFFICES ASSUME TypeOK, IInv, outcome = "complete"
                 PROVE  ret = "nil" /\ ~cancelled /\ decision = Completion
      BY DEF CompletionIsHonest
    <2>1. decision \in Decisions /\ decision.kind = "complete"
      BY DEF TypeOK, IInv, DecisionHonest
    <2>2. decision = Completion
      BY <2>1 DEF Decisions, NoDecision, Failure
    <2> QED
      BY <2>2 DEF IInv, DecisionHonest
  <1> QED
    BY <1>1, Invariant, PTL

\* A cancellation the process heard of in time is reported as one.
THEOREM CancellationIsReportedHolds == Spec => []CancellationIsReported
  <1>1. IInv => CancellationIsReported
    <2> SUFFICES ASSUME IInv, cancelled, decision # NoDecision
                 PROVE  /\ decision.kind = "fail"
                        /\ cause = "TaskCancelled" => ~decision.retryable
      BY DEF CancellationIsReported
    <2>1. decision = Failure(cause)
      BY DEF IInv, DecisionHonest
    <2>2. decision.kind = "fail"
      BY <2>1 DEF Failure
    <2>3. decision.retryable = (cause \in {"panic", "Canceled", "Other"})
      BY <2>1 DEF Failure
    <2> QED
      BY <2>2, <2>3
  <1> QED
    BY <1>1, Invariant, PTL

\* After RunOneShot returned nobody obtains a credential of the attempt.
THEOREM NoCredentialAfterExitHolds == Spec => NoCredentialAfterExit
  <1> DEFINE Kept == \A u \in Users : main = "exit" /\ got'[u] => got[u]
  <1>1. TypeOK /\ IInv /\ [Next]_vars => [Kept]_vars
    <2> SUFFICES ASSUME TypeOK, IInv, Next, NEW u \in Users, main = "exit", got'[u]
                 PROVE  got[u]
      OBVIOUS
    <2> USE DEF TypeOK, vars, procVars, ctxVars, brokerVars, history
    <2>1. terminal /\ brokerMu \in {"main", None} /\ brokerMu # "main"
      BY DEF IInv, TerminalClosed, LockHeld
    <2>2. \A v \in Users : user[v] # "posting"
      BY <2>1, UsersAssumption DEF IInv, LockHeld
    <2>3. ASSUME NEW v \in Users, UserReads(v) PROVE got[u]
      BY <2>3 DEF UserReads, IInv, ClearedAtExit
    <2>4. ASSUME NEW v \in Users, RefreshNotNeeded(v) \/ RefreshTooLate(v) PROVE got[u]
      BY <2>4 DEF RefreshNotNeeded, RefreshTooLate, Lands
    <2>5. ASSUME NEW v \in Users, \/ RefreshInterrupted(v) \/ RefreshFails(v)
                                  \/ RefreshReturns(v) PROVE FALSE
      BY <2>5, <2>2 DEF RefreshInterrupted, RefreshFails, RefreshReturns
    <2>6. CASE UNCHANGED got
      BY <2>6
    <2>7. ASSUME NEW v \in Users, RefreshSends(v) PROVE UNCHANGED got
      BY <2>7 DEF RefreshSends
    <2>8. ASSUME NEW v \in Users, NEW k \in Kinds, UserAsks(v, k) PROVE UNCHANGED got
      BY <2>8 DEF UserAsks
    <2>8a. ASSUME NEW v \in Users, UserJoins(v) PROVE UNCHANGED got
      BY <2>8a DEF UserJoins
    <2>9. CASE Main \/ \E r \in Returns : HandlerReturns(r)
      BY <2>9, <2>6 DEF Main, Decide, TerminalSends, TerminalRetries, TerminalReturns, Clear,
                  HandlerReturns
    <2>10. CASE Heartbeat \/ HeartbeatFires
      BY <2>10, <2>6 DEF Heartbeat, HeartbeatStops, HeartbeatSends, HeartbeatInterrupted,
                   HeartbeatFails, HeartbeatReturns, HeartbeatFires
    <2>11. ASSUME NEW p \in Posters, Answer(p) PROVE UNCHANGED got
      BY <2>11 DEF Answer, BrokerAnswers, BrokerRefuses, AnswerLost
    <2>12. CASE \/ BrokerRecords \/ DeadlinePasses \/ RequestCancel
                \/ \E e \in {"Canceled", "DeadlineExceeded"} : ParentDone(e)
                \/ \E k \in Kinds : CredentialAges(k)
      BY <2>12, <2>6 DEF BrokerRecords, DeadlinePasses, RequestCancel, ParentDone,
                         CredentialAges
    <2> QED
      BY <2>3, <2>4, <2>5, <2>6, <2>7, <2>8, <2>8a, <2>9, <2>10, <2>11, <2>12
         DEF Next, Refresh
  <1> QED
    BY <1>1, Invariant, PTL DEF Spec, NoCredentialAfterExit

=============================================================================
