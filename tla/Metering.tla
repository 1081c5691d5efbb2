------------------------------ MODULE Metering ------------------------------
(***************************************************************************)
(* How usage is declared and reported: ms.Meter in setup, then ms.Record,  *)
(* ms.RecordWithID and ms.RecordObservation from the handlers.  A handler  *)
(* is an HTTP request, or the task attempt that TaskClaim gave to one      *)
(* process.  A call that fails may have been counted all the same, and the *)
(* outbox that retries it runs in another handler, so only the event ID    *)
(* keeps a use from being billed twice.  Dispatch, which ingests the       *)
(* events, is external.                                                    *)
(***************************************************************************)
EXTENDS TaskClaim

CONSTANTS
    HTTPHandlers,                                \* requests being served
    CustomNames, ReservedNames, MalformedNames,  \* metric names
    Uses,                                        \* billable transitions
    MaxCalls                                     \* bound: events posted in all

ASSUME MeteringAssumption ==
    /\ MaxCalls \in Nat
    /\ HTTPHandlers \cap Procs = {}
    /\ CustomNames \cap ReservedNames = {}

VARIABLES
    phase,      \* "setup", then "serving", or "panicked"
    env,        \* MS_DISPATCH_URL and MS_INTERNAL_SECRET of the process
    metrics,    \* meter.Client.metrics
    manifest,   \* the metrics of the registry, in the published manifest
    call,       \* call[h]: the event handler h is posting, or Nil
    made,       \* events posted so far
    posts,      \* the events on their way to dispatch
    counted,    \* dispatch: the event IDs it has ingested
    ended       \* handlers that returned, or whose process died

meterVars == <<phase, env, metrics, manifest, call, made, posts, counted, ended>>

Options == {"Counter", "Gauge", "BySubject", "Unit", "Price"}
MetricKinds == {"Counter", "Gauge"}
URLs == {"", "valid", "malformed"}

MeteringInit ==
    /\ ClaimInit
    /\ phase = "setup"
    /\ env \in [url : URLs, secret : {"", "session"}]
    /\ metrics = {}
    /\ manifest = {}
    /\ call = [h \in Procs \cup HTTPHandlers |-> Nil]
    /\ made = 0
    /\ posts = {}
    /\ counted = {}
    /\ ended = {}

---------------------------------------------------------------------------
(* Setup. *)

\* DeclFromOptions; unit, price and labels only travel to the manifest.
Decl(name, opts) ==
    [name |-> name, kinds |-> opts \cap MetricKinds, keyed |-> "BySubject" \in opts]

\* A custom metric has exactly one kind, and BySubject only with Gauge.
KindFits(opts) ==
    /\ Cardinality(opts \cap MetricKinds) = 1
    /\ "BySubject" \in opts => "Gauge" \in opts

\* ValidateMetricName and the rules of Declare; whatever fails them panics.
Acceptable(name, opts) ==
    /\ name \notin MalformedNames
    /\ IF name \in ReservedNames THEN opts = {"Price"} ELSE KindFits(opts)
    /\ \A d \in metrics : d.name # name

Meter(name, opts) ==
    /\ phase = "setup"
    /\ IF Acceptable(name, opts)
       THEN /\ metrics' = metrics \cup {Decl(name, opts)}
            /\ manifest' = manifest \cup {Decl(name, opts)}
            /\ UNCHANGED phase
       ELSE /\ phase' = "panicked"
            /\ UNCHANGED <<metrics, manifest>>
    /\ UNCHANGED <<env, call, made, posts, counted, ended>>

\* meter.New rejects a malformed MS_DISPATCH_URL; else the module starts.
Start ==
    /\ phase = "setup"
    /\ phase' = IF env.url = "malformed" THEN "panicked" ELSE "serving"
    /\ UNCHANGED <<env, metrics, manifest, call, made, posts, counted, ended>>

---------------------------------------------------------------------------
(* Reporting.  A task has a credential provider and the dispatch URL of its *)
(* claim in its context, a request has neither.                             *)

Handlers == (ran \cup HTTPHandlers) \ ended

\* Mutant of ServiceCredentials: an unavailable task credential falls back.
ServiceCredentialsLenient(h) ==
    IF h \in Procs THEN {"capability", env.secret} ELSE {env.secret}

\* serviceCredential: a task's provider answers, or the call fails; the
\* ambient secret, even an empty one, is for the others.
ServiceCredentials(h) == IF h \in Procs THEN {"capability"} ELSE {env.secret}

\* resolveUsageURLFor.
UsageURL(h) ==
    IF h \in Procs THEN "attested" ELSE IF env.url = "" THEN "fallback" ELSE "ambient"

\* Mutant of EventID: every delivery has an ID of its own.
EventIDFresh(u) == [use |-> u, n |-> made + 1]

\* Record mints an ID per call; the other two take the one persisted with
\* the transition.
EventID(u) == [use |-> u, n |-> IF u.api = "Record" THEN made + 1 ELSE 0]

\* Mutant of MayReport: a subject-keyed metric may go through record.
MayReportAnyhow(u) ==
    \E d \in metrics : d.name = u.metric /\ d.name \notin ReservedNames /\ u.sound

\* recordInputs, record and validateObservation: everything else returns an
\* error before any event is built.
MayReport(u) ==
    \E d \in metrics :
        /\ d.name = u.metric
        /\ d.name \notin ReservedNames
        /\ u.sound
        /\ d.keyed => u.api = "RecordObservation" /\ u.subject # ""

Report(h, u) ==
    /\ phase = "serving"
    /\ h \in Handlers
    /\ call[h] = Nil
    /\ made < MaxCalls
    /\ MayReport(u)
    /\ \E credential \in ServiceCredentials(h) :
           LET event == [id |-> EventID(u), by |-> h, credential |-> credential, to |-> UsageURL(h)] IN
           /\ call' = [call EXCEPT ![h] = event]
           /\ posts' = posts \cup {event}
    /\ made' = made + 1
    /\ UNCHANGED <<phase, env, metrics, manifest, counted, ended>>

\* Dispatch ingests an authenticated event, however late and however often
\* it is delivered: ON CONFLICT(event_id) DO NOTHING.
Ingest(event) ==
    /\ event.credential # ""
    /\ counted' = counted \cup {event.id}
    /\ UNCHANGED <<phase, env, metrics, manifest, call, made, posts, ended>>

\* dispatch returns: with a response, of whatever status, or because the
\* client's timeout or the handler's context ended it.  Nil of them stops an
\* event that is on its way.
Return(h) ==
    /\ call[h] # Nil
    /\ call' = [call EXCEPT ![h] = Nil]
    /\ UNCHANGED <<phase, env, metrics, manifest, made, posts, counted, ended>>

End(h) ==
    /\ phase = "serving"
    /\ h \in Handlers
    /\ ended' = ended \cup {h}
    /\ call' = [call EXCEPT ![h] = Nil]
    /\ UNCHANGED <<phase, env, metrics, manifest, made, posts, counted>>

MeterStep ==
    \/ Start
    \/ \E name \in CustomNames \cup ReservedNames \cup MalformedNames, opts \in SUBSET Options :
           Meter(name, opts)
    \/ \E h \in Handlers : End(h) \/ Return(h) \/ \E u \in Uses : Report(h, u)
    \/ \E event \in posts : Ingest(event)

MeteringNext ==
    \/ MeterStep /\ UNCHANGED claimVars
    \/ phase = "serving" /\ ClaimNext /\ UNCHANGED meterVars

MeteringSpec == MeteringInit /\ [][MeteringNext]_<<claimVars, meterVars>>

---------------------------------------------------------------------------
\* A use whose event ID was persisted with its transition is counted once at
\* most, whoever retries it, after whatever failure, and however late an
\* attempt that timed out arrives.  (Record promises that for one call only.)
UsageCountedOnce ==
    \A i, j \in counted : i.use = j.use /\ i.use.api # "Record" => i = j

\* What a task reports goes out under the capability and to the ingress of
\* its claim, from the one process that holds the attempt; what a request
\* reports never does.
TaskUsageIsTheAttempts ==
    /\ \A e \in posts :
           IF e.by \in Procs
           THEN e.credential = "capability" /\ e.to = "attested" /\ holder \in {e.by, "runner"}
           ELSE e.credential # "capability" /\ e.to # "attested"
    /\ \A e, f \in posts : e.by \in Procs /\ f.by \in Procs => e.by = f.by

\* Everything dispatch counts can be aggregated from the manifest alone,
\* since no event names its kind: a custom metric with one kind, a gauge and
\* a subject where the manifest says by subject.
UsageIsAggregable ==
    \A id \in counted : \E d \in manifest :
        /\ d.name = id.use.metric
        /\ d.name \notin ReservedNames
        /\ Cardinality(d.kinds) = 1
        /\ d.keyed => "Gauge" \in d.kinds /\ id.use.subject # ""

\* The type of every variable of this module.
MeteringTypeOK ==
    /\ phase \in {"setup", "serving", "panicked"}
    /\ env \in [url : URLs, secret : {"", "session"}]
    /\ \A d \in metrics \cup manifest :
           d \in [name : CustomNames \cup ReservedNames, kinds : SUBSET MetricKinds, keyed : BOOLEAN]
    /\ made \in 0..MaxCalls
    /\ \A h \in DOMAIN call : call[h] # Nil => call[h] \in posts
    /\ counted \subseteq {e.id : e \in posts}
    /\ ended \subseteq Procs \cup HTTPHandlers

=============================================================================
