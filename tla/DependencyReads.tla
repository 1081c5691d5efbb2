-------------------------- MODULE DependencyReads --------------------------
(***************************************************************************)
(* Reads of another module's tables (ms.DependencyDB): the structured      *)
(* query and its latched error, the choice between the platform's manifest *)
(* (deployed), the co-located producer and the read-exposed proxy          *)
(* (development), the authorization each of them carries, and the read     *)
(* itself on a pool of Pools, in a READ ONLY transaction.                  *)
(*                                                                         *)
(* External: PostgreSQL runs the composed SELECT in whatever row order it  *)
(* likes, and refuses it when the relation is absent or the grant was      *)
(* revoked; the proxy answers with the rows of the platform's database or  *)
(* with a status.  The directory's answer is DevDirectory's: an entry, no  *)
(* entry, or an error for an ambiguous ref; it may be stale either way.    *)
(***************************************************************************)
EXTENDS Pools, Sequences, FiniteSetsExt

CONSTANTS
    Readers,         \* bound: the callers that read dependencies
    Tables,          \* the producer's logical tables
    Declared,        \* those in the consumer's ms.DependsOn
    Exposed,         \* those in the producer's directory row
    Manifests,       \* what an envelope may carry: None or a set of granted tables
    Queries,         \* the builder calls a handler may make, as sequences
    Rows,            \* the rows of every relation: records of columns
    MaxColumns,      \* maxDependencyColumns
    DefaultLimit,    \* defaultDynamicSelectLimit
    MaxLimit         \* maxDynamicSelectLimit

\* Why a read has no rows.
Reasons == {"invalid", "devPlaneOnly", "refused", "unauthorized", "unavailable", "notFound", "failed"}

\* A builder call is one of three, and None is no answer.
ASSUME ReadsAssumption ==
    /\ Readers \subseteq Callers
    /\ Declared \cup Exposed \subseteq Tables
    /\ {MaxColumns, DefaultLimit, MaxLimit} \subseteq Nat \ {0}
    /\ DefaultLimit <= MaxLimit
    /\ IsFiniteSet(Rows)
    /\ \A calls \in Queries :
          /\ calls \in Seq({calls[i] : i \in DOMAIN calls})
          /\ \A i \in DOMAIN calls :
                \/ calls[i].op \in {"Columns", "Where"}
                \/ calls[i].op = "Limit" /\ calls[i].n \in Int
    /\ None \notin [rows : {None}, why : Reasons]

VARIABLES
    ask,      \* ask[c]: the read under way, None if none
    got       \* got[c]: its answer, None until there is one

vars == <<poolVars, ask, got>>

-----------------------------------------------------------------------------
(* The builder (DependencyDB ... Limit).  Every call validates eagerly and *)
(* the first error stays.                                                  *)

Unbuilt == [err |-> FALSE, cols |-> {}, ncols |-> 0, filters |-> {}, limit |-> 0]

Latched(q) == [q EXCEPT !.err = TRUE]

\* Mutant of AddFilter: a second predicate on a column replaces the first.
AddFilterAgain(q, col, values) ==
    [q EXCEPT !.filters = {f \in @ : f.col # col} \cup {[col |-> col, values |-> values]}]

\* addFilter: one predicate per column.
AddFilter(q, col, values) ==
    IF \E f \in q.filters : f.col = col
    THEN Latched(q)
    ELSE [q EXCEPT !.filters = @ \cup {[col |-> col, values |-> values]}]

\* One builder call.  names: the columns of the call are well-formed identifiers.
Build(q, call) ==
    IF q.err THEN q
    ELSE IF ~call.names THEN Latched(q)
    ELSE CASE call.op = "Columns" ->
                IF q.ncols + Cardinality(call.cols) > MaxColumns THEN Latched(q)
                ELSE [q EXCEPT !.cols = @ \cup call.cols,
                               !.ncols = @ + Cardinality(call.cols)]
           [] call.op = "Where"   -> IF call.values = {} THEN Latched(q)
                                     ELSE AddFilter(q, call.col, call.values)
           [] call.op = "Limit"   -> [q EXCEPT !.limit = call.n]

\* The builder after each of its calls, and after the last.
Stages(calls) ==
    LET q[n \in 0..Len(calls)] == IF n = 0 THEN Unbuilt ELSE Build(q[n - 1], calls[n])
    IN  q

Built(calls) == Stages(calls)[Len(calls)]

Matches(q, r) == \A f \in q.filters : r[f.col] \in f.values

\* clampDynamicSelectLimit.
Limit(q) == IF q.limit <= 0 THEN DefaultLimit
            ELSE IF q.limit > MaxLimit THEN MaxLimit ELSE q.limit

Matching(q) == {r \in Rows : Matches(q, r)}

\* LIMIT limit+1, in any order ...
Fetched(q) == kSubset(Min({Cardinality(Matching(q)), Limit(q) + 1}), Matching(q))

\* ... and the row too many only tells that the read was cut (queryDynamicSelect).
Cut(q, S) ==
    IF Cardinality(S) > Limit(q)
    THEN {[rows |-> R, truncated |-> TRUE] : R \in kSubset(Limit(q), S)}
    ELSE {[rows |-> S, truncated |-> FALSE]}

Answers(q) == UNION {Cut(q, S) : S \in Fetched(q)}

-----------------------------------------------------------------------------
Reply(c, a) == got' = [got EXCEPT ![c] = a]

Fail(c, why) == Reply(c, [rows |-> None, why |-> why])

Asked(c, table, calls, id, dir, route, granted) ==
    ask' = [ask EXCEPT ![c] = [table |-> table, calls |-> calls, id |-> id, dir |-> dir,
                               route |-> route, granted |-> granted]]

ReadsInit ==
    /\ PoolsInit
    /\ ask = [c \in Callers |-> None]
    /\ got = [c \in Callers |-> None]

\* A handler between two accesses.
AtHand(c) == pc[c] = "handler" /\ ask[c] = None /\ got[c] = None

(* auth.PayloadTrusted: the invocation came in a deployed envelope.        *)
Deployed(c) == ctx[c].src # "none"

(* The app of the request's identity: the invocation's, none, or the one   *)
(* the local-dev bypass mints when no platform secret is configured.       *)
Identities(c) == IF Deployed(c) THEN {ctx[c].app} ELSE {ctx[c].app, "local-dev-app", None}

\* The read cannot be built, or the request has no app: nothing is sent.
ReadRefused(c, table, calls, id) ==
    /\ AtHand(c)
    /\ id = None \/ Built(calls).err
    /\ Fail(c, "invalid")
    /\ Asked(c, table, calls, id, "unasked", None, {})
    /\ UNCHANGED poolVars

\* resultDeployed: the manifest names the table, or the read ends here.
ReadDeployed(c, table, calls, id, manifest) ==
    /\ AtHand(c) /\ Deployed(c)
    /\ id # None /\ ~Built(calls).err
    /\ ctx[c].src = "task" => manifest = None
    /\ LET granted == IF manifest = None THEN {} ELSE manifest
       IN  /\ Asked(c, table, calls, id, "unasked", "manifest", granted)
           /\ IF table \in granted THEN UNCHANGED got
              ELSE Fail(c, IF manifest = None THEN "devPlaneOnly" ELSE "refused")
    /\ UNCHANGED poolVars

\* resultLocal's lookup.  Outside the development lifecycle there is none.
LookUp(c, table, calls, id, answer) ==
    /\ AtHand(c) /\ ~Deployed(c)
    /\ id # None /\ ~Built(calls).err
    /\ plane # "dev" => answer = "miss"
    /\ Asked(c, table, calls, id, answer, IF answer = "entry" THEN "local" ELSE "proxy", {})
    /\ UNCHANGED <<poolVars, got>>

\* authorizeLocalRead: declared by this consumer and exposed by the producer.
Authorized(table) == table \in Declared /\ table \in Exposed

\* Mutant of SchemaIsPinned: the schema in the context is taken as it is.
SchemaIsPresent(c) == ctx[c].scoped

\* The schema bound to the request is the one its identity's app derives.
SchemaIsPinned(c) == ctx[c].scoped /\ ask[c].id = ctx[c].app

LocalAllowed(c) ==
    /\ Authorized(ask[c].table)
    /\ Built(ask[c].calls).cols # {}
    /\ SchemaIsPinned(c)

Pending(c, route) ==
    pc[c] = "handler" /\ got[c] = None /\ ask[c] # None /\ ask[c].route = route

\* A co-located producer owns the request: its refusal is the answer.
LocalRefuses(c) ==
    /\ Pending(c, "local")
    /\ ~LocalAllowed(c)
    /\ Fail(c, "refused")
    /\ UNCHANGED <<poolVars, ask>>

\* The read-exposed proxy: its rows are the platform's.
Proxy(c) ==
    /\ Pending(c, "proxy")
    /\ \/ \E a \in Answers(Built(ask[c].calls)) :
             Reply(c, [rows |-> a.rows, truncated |-> a.truncated, from |-> "platform"])
       \/ \E why \in {"unauthorized", "refused", "unavailable", "notFound", "failed"} :
             Fail(c, why)
    /\ UNCHANGED <<poolVars, ask>>

-----------------------------------------------------------------------------
(* readGrantedRows: resolvePool, then db.TxReadOnly around the SELECT.     *)

MayRead(c) ==
    /\ pc[c] = "handler" /\ ask[c] # None /\ got[c] = None
    /\ \/ ask[c].route = "manifest"
       \/ ask[c].route = "local" /\ LocalAllowed(c)

\* A task has no manifest, so no read uses its provider.
ReadReaches(c) ==
    /\ MayRead(c)
    /\ \/ GetHit(c, "app", "read") \/ GetMiss(c, "app", "read")
       \/ OpenDevDB(c, "app", "read") \/ UseDevDB(c, "app", "read")
    /\ UNCHANGED <<ask, got>>

\* The pool, or its connection, could not be had.
ReadUnreachable(c) ==
    /\ MayRead(c)
    /\ GetFails(c, "app") \/ DevDBFails(c, "app")
    /\ Fail(c, "failed")
    /\ UNCHANGED ask

Reading(c) == op[c] # None /\ op[c].mode = "read"

ReadLost(c) ==
    /\ Reading(c)
    /\ AcquireTimesOut(c) \/ DialFails(c) \/ BeginFails(c) \/ ScopeFails(c)
       \/ (ResetFails(c) /\ pc'[c] = "unpin")
    /\ Fail(c, "failed")
    /\ UNCHANGED ask

ReadProceeds(c) ==
    /\ Reading(c)
    /\ Refresh(c) \/ Borrow(c) \/ Dial(c) \/ BeginTx(c) \/ ApplyScope(c) \/ Unpin(c)
       \/ (ResetFails(c) /\ pc'[c] = "acquire")
    /\ UNCHANGED <<ask, got>>

\* The SELECT ran and the transaction committed.
ReadRows(c) ==
    /\ Reading(c) /\ Commit(c)
    /\ Built(ask[c].calls).cols # {} /\ ctx[c].scoped
    /\ \E a \in Answers(Built(ask[c].calls)) :
          Reply(c, [rows |-> a.rows, truncated |-> a.truncated, from |-> Effective(conn[has[c]])])
    /\ UNCHANGED ask

\* No column or no schema (buildDynamicSelect), an absent relation or a revoked
\* grant (mapDeployedReadError), any other error, a commit that failed.
ReadFails(c) ==
    /\ Reading(c) /\ Rollback(c)
    /\ IF Built(ask[c].calls).cols = {} \/ ~ctx[c].scoped
       THEN Fail(c, "invalid")
       ELSE \E why \in {"unavailable", "failed"} : Fail(c, why)
    /\ UNCHANGED ask

\* The handler has its answer.
TakeAnswer(c) ==
    /\ pc[c] = "handler" /\ got[c] # None
    /\ got' = [got EXCEPT ![c] = None]
    /\ ask' = [ask EXCEPT ![c] = None]
    /\ UNCHANGED poolVars

-----------------------------------------------------------------------------
Read(c) ==
    \/ AtHand(c) /\ \E t \in Tables, calls \in Queries, id \in Identities(c) :
          \/ ReadRefused(c, t, calls, id)
          \/ \E m \in Manifests : ReadDeployed(c, t, calls, id, m)
          \/ \E answer \in {"entry", "miss", "error"} : LookUp(c, t, calls, id, answer)
    \/ LocalRefuses(c) \/ Proxy(c)
    \/ ReadReaches(c) \/ ReadUnreachable(c) \/ ReadLost(c) \/ ReadProceeds(c)
    \/ ReadRows(c) \/ ReadFails(c) \/ TakeAnswer(c)

\* Everything else the handler does with its database.
Access(c) ==
    /\ ask[c] = None
    /\ \/ Invoke(c) \/ Return(c) \/ Unreachable(c)
       \/ \E access \in Accesses, mode \in Modes : Reach(c, access, mode)
       \/ Refresh(c) \/ Acquire(c) \/ Enter(c) \/ HandlerSets(c) \/ Leave(c) \/ Unpin(c) \/ ClosePrivate(c)
    /\ UNCHANGED <<ask, got>>

Next ==
    \/ (Tick \/ ConnExpires) /\ UNCHANGED <<ask, got>>
    \/ (\E c \in Callers : Access(c)) \/ (\E c \in Readers : Read(c))

Spec == ReadsInit /\ [][Next]_vars

-----------------------------------------------------------------------------
HasRows(c) == got[c] # None /\ got[c].rows # None

\* Rows from a local read come from a table the consumer declared and the
\* producer exposes, in the schema of the app the request's identity names; a
\* deployed read's table was in the invocation's own manifest.  There is no
\* second line of defence locally (dependency_local.go, KNOWN LIMITS 3 and 5).
RowsAreAuthorized ==
    \A c \in Callers : HasRows(c) =>
        /\ ask[c].route = "local" =>
              /\ ask[c].table \in Declared \cap Exposed
              /\ got[c].from = ask[c].id
        /\ ask[c].route = "manifest" =>
              /\ ask[c].table \in ask[c].granted
              /\ got[c].from = ctx[c].app

\* The rows every call of the builder admits.
AdmittedRows(calls) ==
    {r \in Rows : \A i \in DOMAIN calls :
        calls[i].op = "Where" => r[calls[i].col] \in calls[i].values}

\* The limit a handler asked for last, 0 if it asked for none.
LastLimit(calls) ==
    LET limits == {i \in DOMAIN calls : calls[i].op = "Limit"}
    IN  IF limits = {} THEN 0 ELSE calls[Max(limits)].n

\* As many rows as a handler may get: the default for no limit, at most the cap.
MostRows(l) == IF l <= 0 THEN DefaultLimit ELSE IF l > MaxLimit THEN MaxLimit ELSE l

\* An answer holds only rows every call of the builder admits, as many as there
\* are up to the limit asked for last, and says so if there are more; a failed
\* read has no rows at all, not an empty set of them.
AnswersAreExact ==
    \A c \in Callers : HasRows(c) =>
        LET admitted == Cardinality(AdmittedRows(ask[c].calls))
            most == MostRows(LastLimit(ask[c].calls))
            n == Cardinality(got[c].rows)
        IN  /\ got[c].rows \subseteq AdmittedRows(ask[c].calls)
            /\ n = IF admitted <= most THEN admitted ELSE most
            /\ got[c].truncated <=> n < admitted
=============================================================================
