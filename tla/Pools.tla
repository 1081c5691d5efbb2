------------------------------- MODULE Pools -------------------------------
(***************************************************************************)
(* How a handler reaches its database: the choice of a pool                *)
(* (internal/core/db.go), the pools and their credentials                  *)
(* (db/pool_cache.go), the scope put on a connection and taken off it      *)
(* (db/scope.go, prepareConnReset), transactions (db/tx.go).  A            *)
(* caller is a goroutine serving invocations, one after the other.         *)
(*                                                                         *)
(* External: PostgreSQL admits a connection whose token has not            *)
(* expired; pgxpool hands out an idle connection or dials a new one, runs  *)
(* PrepareConn before it hands a connection out, closes idle connections   *)
(* when it likes and destroys one that comes back inside a transaction.    *)
(* The cache of pools is the one RefCache models: what its lock and its    *)
(* singleflight make atomic is one step here.                              *)
(***************************************************************************)
EXTENDS Naturals, FiniteSets

CONSTANTS
    None,
    Stray,        \* a search_path the handler's own SQL sets
    Callers,
    Apps,         \* an app: its schema, and its database role in a deployment
    ModSchema,    \* moduleSchemaFor: the module's own schema
    Providers,    \* renewable credential providers a task may carry
    Keyed,        \* those with a CredentialProviderKey
    Arrivals,     \* [plane -> the invocations that may arrive there]
    MaxPools,     \* defaultMaxPools
    MaxConns,     \* defaultMaxConnsPerApp
    TTL,          \* how long a token lives
    MaxTime       \* bound: the last tick

(* What a call brings: a static credential in its envelope, a task's       *)
(* provider, or nothing.  A Lambda serves calls and tasks alike.           *)
Sources(p) ==
    CASE p = "lambda"  -> {"envelope", "task"}
      [] p = "oneshot" -> {"task", "none"}
      [] p = "dev"     -> {"none"}

ASSUME PoolsAssumption ==
    /\ DOMAIN Arrivals \subseteq {"lambda", "oneshot", "dev"}
    /\ \A p \in DOMAIN Arrivals : Arrivals[p] \subseteq
          [app : Apps, scoped : BOOLEAN, src : Sources(p), prov : Providers \cup {None}]
    /\ Keyed \subseteq Providers
    /\ {MaxPools, MaxConns, TTL} \subseteq Nat \ {0} /\ MaxTime \in Nat

VARIABLES
    plane,     \* where this process runs
    now,       \* time
    ctx,       \* ctx[c]: the invocation c serves, None if none
    pc,        \* pc[c]: where c is
    op,        \* op[c]: the access under way
    pool,      \* pool[p]: the token and the credential's owner of an open pool
    conn,      \* conn[x]: an open connection
    at,        \* at[c]: the pool c has pinned, None if none
    has,       \* has[c]: the connection c has borrowed, None if none
    raced,     \* raced[c]: c's pool got another invocation's token after c's
    devDB,     \* the sync.Once of the development database: "new", "open", "failed"
    refused    \* the dials refused for an expired token

poolVars == <<plane, now, ctx, pc, op, pool, conn, at, has, raced, devDB, refused>>

(* A pool is known by its cache key, or by the one caller or the process   *)
(* that owns it; a connection by its pool and a number.                    *)
CachedPools == Apps \X ({"static", None} \cup Keyed)
PrivatePools == {"private"} \X Callers
DevPool == <<"dev", None>>
Pools == CachedPools \cup PrivatePools \cup {DevPool}
ConnIds == Pools \X (1..MaxConns)

Accesses == {"app", "module"}
Modes == {"conn", "tx"}

Authorities == {"envelope", "dev"} \cup Keyed \cup Callers
Scopes == Apps \cup {ModSchema, Stray, None}

Invocations == [app : Apps, scoped : BOOLEAN, src : {"envelope", "task", "none"},
                prov : Providers \cup {None}, tok : Nat]
PoolStates == [tok : Nat, auth : Authorities]
ConnStates == [auth : Authorities, sess : Scopes, local : Scopes, tx : BOOLEAN]

\* The kinds of keys differ (cacheKey, the same with "|renewable|" and the
\* provider's own key, no key at all), and None is none of the values it stands in for.
ASSUME NamesAssumption ==
    /\ {"private", "dev"} \cap Apps = {}
    /\ {"static", None} \cap Keyed = {}
    /\ {"envelope", "dev"} \cap (Keyed \cup Callers) = {}
    /\ None \notin Apps \cup Callers
    /\ None \notin Pools /\ None \notin ConnIds
    /\ None \notin Invocations /\ None \notin PoolStates /\ None \notin ConnStates
    /\ None \notin [access : Accesses, mode : Modes \cup {"read"}]

Locations ==
    {"out", "handler", "refresh", "acquire", "begin", "scope", "use", "strayed", "unpin"}

PoolsInit ==
    /\ plane \in DOMAIN Arrivals
    /\ now = 0
    /\ ctx = [c \in Callers |-> None]
    /\ pc = [c \in Callers |-> "out"]
    /\ op = [c \in Callers |-> None]
    /\ pool = [p \in Pools |-> None]
    /\ conn = [x \in ConnIds |-> None]
    /\ at = [c \in Callers |-> None]
    /\ has = [c \in Callers |-> None]
    /\ raced = [c \in Callers |-> FALSE]
    /\ devDB = "new"
    /\ refused = {}

Alive(tok) == now < tok + TTL

Goto(c, l) == pc' = [pc EXCEPT ![c] = l]

-----------------------------------------------------------------------------
(* Invocations.  The platform mints a token for each; a task carries a     *)
(* provider instead.                                                       *)

Invoke(c) ==
    /\ pc[c] = "out"
    /\ \E i \in Arrivals[plane] :
          ctx' = [ctx EXCEPT ![c] =
                    [app |-> i.app, scoped |-> i.scoped, src |-> i.src, prov |-> i.prov,
                     tok |-> IF i.src = "envelope" THEN now ELSE 0]]
    /\ Goto(c, "handler")
    /\ UNCHANGED <<plane, now, op, pool, conn, at, has, raced, devDB, refused>>

Return(c) ==
    /\ pc[c] = "handler"
    /\ ctx' = [ctx EXCEPT ![c] = None]
    /\ Goto(c, "out")
    /\ UNCHANGED <<plane, now, op, pool, conn, at, has, raced, devDB, refused>>

Tick ==
    /\ now < MaxTime
    /\ now' = now + 1
    /\ UNCHANGED <<plane, ctx, pc, op, pool, conn, at, has, raced, devDB, refused>>

-----------------------------------------------------------------------------
(* Pools and connections.                                                  *)

Open(p) == pool[p] # None
OpenCached == {p \in CachedPools : Open(p)}
Conns(p) == {x \in ConnIds : x[1] = p /\ conn[x] # None}
Idle(p) == {x \in Conns(p) : \A c \in Callers : has[c] # x}

\* A connection just authenticated with the credential of auth.
Fresh(auth) == [auth |-> auth, sess |-> None, local |-> None, tx |-> FALSE]

(* Whose credential c brings.                                              *)
Authority(c) ==
    CASE ctx[c].src = "envelope" -> "envelope"
      [] ctx[c].src = "none"     -> "dev"
      [] OTHER                   -> IF ctx[c].prov \in Keyed THEN ctx[c].prov ELSE c

(* cacheKey: the connection scope without the token, and for a provider    *)
(* its CredentialProviderKey, empty if it has none.                        *)
CacheKey(c) ==
    <<ctx[c].app, IF ctx[c].src # "task" THEN "static"
                  ELSE IF ctx[c].prov \in Keyed THEN ctx[c].prov ELSE None>>

Unpinned == {q \in OpenCached : \A c \in Callers : at[c] # q}

(* refcache makes room: a pool nobody pins is closed with its connections. *)
Victims == IF Cardinality(OpenCached) < MaxPools THEN {None} ELSE Unpinned

NewPool(c, p, victim) ==
    /\ pool' = [q \in Pools |->
                  IF q = p THEN [tok |-> ctx[c].tok, auth |-> Authority(c)]
                  ELSE IF q = victim THEN None ELSE pool[q]]
    /\ conn' = [x \in ConnIds |->
                  IF x = <<p, 1>> THEN Fresh(Authority(c))
                  ELSE IF x[1] = victim THEN None ELSE conn[x]]
    /\ at' = [at EXCEPT ![c] = p]

(* The dial of connectPool's Ping, and of every later connection:          *)
(* BeforeConnect asks the pool's provider.  An envelope answers with the   *)
(* token last put into it, a task's broker with a current one or an error. *)
DialAdmits(tok, src) == src = "task" \/ Alive(tok)

Refusal(c) == [fresh |-> Alive(ctx[c].tok), raced |-> raced[c]]

-----------------------------------------------------------------------------
(* resolvePoolFor: provider, then credential, then the development         *)
(* database, opened once.  Only a task carries a module credential.        *)

HasProvider(c) == ctx[c].src = "task"
HasCredential(c, access) == ctx[c].src = "envelope" /\ access = "app"
UsesDevDB(c, access) ==
    /\ ~HasProvider(c) /\ ~HasCredential(c, access)
    /\ plane # "oneshot"

Start(c, access, mode) ==
    /\ pc[c] = "handler"
    /\ op' = [op EXCEPT ![c] = [access |-> access, mode |-> mode]]

\* A provider has no credential to give, or one-shot code has no provider:
\* nothing has changed when the handler gets the error.
ResolveFails(c, access) ==
    /\ pc[c] = "handler"
    /\ HasProvider(c) \/ (~HasCredential(c, access) /\ ~UsesDevDB(c, access))
    /\ UNCHANGED poolVars

\* Mutant of Cacheable: a provider without a key is cached under the empty key.
CacheableAlways(c, access) == HasCredential(c, access) \/ HasProvider(c)

\* PoolCache.Get and the keyed half of GetProvider, on a hit.
Cacheable(c, access) ==
    HasCredential(c, access) \/ (HasProvider(c) /\ ctx[c].prov \in Keyed)

AfterGet(c) == IF HasProvider(c) THEN "acquire" ELSE "refresh"

GetHit(c, access, mode) ==
    /\ Start(c, access, mode)
    /\ Cacheable(c, access)
    /\ Open(CacheKey(c))
    /\ at' = [at EXCEPT ![c] = CacheKey(c)]
    /\ Goto(c, AfterGet(c))
    /\ UNCHANGED <<plane, now, ctx, pool, conn, has, raced, devDB, refused>>

\* ... on a miss: room is made, the pool is built and pinged.
GetMiss(c, access, mode) ==
    /\ Start(c, access, mode)
    /\ Cacheable(c, access)
    /\ ~Open(CacheKey(c))
    /\ DialAdmits(ctx[c].tok, ctx[c].src)
    /\ \E v \in Victims : NewPool(c, CacheKey(c), v)
    /\ Goto(c, AfterGet(c))
    /\ UNCHANGED <<plane, now, ctx, has, raced, devDB, refused>>

\* The factory fails (the Ping was refused), or every pool is pinned.
GetFails(c, access) ==
    /\ pc[c] = "handler"
    /\ HasCredential(c, access)
    /\ ~Open(CacheKey(c))
    /\ ~Alive(ctx[c].tok) \/ Victims = {}
    /\ refused' = IF Alive(ctx[c].tok) THEN refused ELSE refused \cup {Refusal(c)}
    /\ UNCHANGED <<plane, now, ctx, pc, op, pool, conn, at, has, raced, devDB>>

\* GetProvider without a key: a pool of the caller's own.
GetPrivate(c, access, mode) ==
    /\ Start(c, access, mode)
    /\ HasProvider(c) /\ ~Cacheable(c, access)
    /\ NewPool(c, <<"private", c>>, None)
    /\ Goto(c, "acquire")
    /\ UNCHANGED <<plane, now, ctx, has, raced, devDB, refused>>

\* devDBOnce: the first caller opens the development database ...
OpenDevDB(c, access, mode) ==
    /\ Start(c, access, mode)
    /\ UsesDevDB(c, access)
    /\ plane = "dev" /\ devDB = "new"
    /\ devDB' = "open"
    /\ NewPool(c, DevPool, None)
    /\ Goto(c, "acquire")
    /\ UNCHANGED <<plane, now, ctx, has, raced, refused>>

\* ... or fails, for every caller after it too; under Lambda db.Open only fails.
DevDBFails(c, access) ==
    /\ pc[c] = "handler"
    /\ UsesDevDB(c, access)
    /\ devDB \in {"new", "failed"}
    /\ devDB' = "failed"
    /\ UNCHANGED <<plane, now, ctx, pc, op, pool, conn, at, has, raced, refused>>

UseDevDB(c, access, mode) ==
    /\ Start(c, access, mode)
    /\ UsesDevDB(c, access)
    /\ devDB = "open"
    /\ at' = [at EXCEPT ![c] = DevPool]
    /\ Goto(c, "acquire")
    /\ UNCHANGED <<plane, now, ctx, pool, conn, has, raced, devDB, refused>>

\* Mutant of Refresh: a hit leaves the envelope as the pool's builder filled it.
RefreshNothing(c) ==
    /\ pc[c] = "refresh"
    /\ Goto(c, "acquire")
    /\ UNCHANGED <<plane, now, ctx, op, pool, conn, at, has, raced, devDB, refused>>

\* envelope.set on every Get: whoever waits to dial on this pool will present
\* this caller's token.
Refresh(c) ==
    /\ pc[c] = "refresh"
    /\ pool' = [pool EXCEPT ![at[c]].tok = ctx[c].tok]
    /\ raced' = [d \in Callers |->
                   raced[d] \/ (d # c /\ pc[d] = "acquire" /\ at[d] = at[c])]
    /\ Goto(c, "acquire")
    /\ UNCHANGED <<plane, now, ctx, op, conn, at, has, devDB, refused>>

-----------------------------------------------------------------------------
(* pool.Acquire.  PrepareConn runs on an idle connection and on a new one  *)
(* alike.                                                                  *)

AfterAcquire(c) == IF op[c].mode = "conn" THEN "scope" ELSE "begin"

\* Mutant of Reset: the previous borrower's scope stays on the session.
ResetNothing(k) == k

\* prepareConnReset: RESET search_path and an empty ms.app_id, one round trip.
Reset(k) == [k EXCEPT !.sess = None]

Borrow(c) ==
    /\ pc[c] = "acquire"
    /\ \E x \in Idle(at[c]) :
          /\ has' = [has EXCEPT ![c] = x]
          /\ conn' = [conn EXCEPT ![x] = Reset(@)]
    /\ Goto(c, AfterAcquire(c))
    /\ UNCHANGED <<plane, now, ctx, op, pool, at, raced, devDB, refused>>

\* The reset fails: the connection is destroyed; Acquire looks for another one,
\* or ends with the caller's context.
ResetFails(c) ==
    /\ pc[c] = "acquire"
    /\ \E x \in Idle(at[c]) : conn' = [conn EXCEPT ![x] = None]
    /\ pc' \in {pc, [pc EXCEPT ![c] = "unpin"]}
    /\ UNCHANGED <<plane, now, ctx, op, pool, at, has, raced, devDB, refused>>

\* The connection a dial would make.
NewConn(c) == <<at[c], CHOOSE i \in 1..MaxConns : conn[<<at[c], i>>] = None>>

CanDial(c) == Idle(at[c]) = {} /\ Cardinality(Conns(at[c])) < MaxConns

Dial(c) ==
    /\ pc[c] = "acquire"
    /\ CanDial(c)
    /\ pool[at[c]].auth = "envelope" => Alive(pool[at[c]].tok)
    /\ conn' = [conn EXCEPT ![NewConn(c)] = Reset(Fresh(pool[at[c]].auth))]
    /\ has' = [has EXCEPT ![c] = NewConn(c)]
    /\ Goto(c, AfterAcquire(c))
    /\ UNCHANGED <<plane, now, ctx, op, pool, at, raced, devDB, refused>>

\* BeforeConnect fails (no current credential, or one for another connection
\* scope), the server refuses the token, or the caller's context ends.
DialFails(c) ==
    /\ pc[c] = "acquire"
    /\ CanDial(c)
    /\ refused' = IF pool[at[c]].auth = "envelope" /\ ~Alive(pool[at[c]].tok)
                  THEN refused \cup {Refusal(c)}
                  ELSE refused
    /\ Goto(c, "unpin")
    /\ UNCHANGED <<plane, now, ctx, op, pool, conn, at, has, raced, devDB>>

\* Every connection of the pool is borrowed and the context ends first.
AcquireTimesOut(c) ==
    /\ pc[c] = "acquire"
    /\ Idle(at[c]) = {} /\ ~CanDial(c)
    /\ Goto(c, "unpin")
    /\ UNCHANGED <<plane, now, ctx, op, pool, conn, at, has, raced, devDB, refused>>

-----------------------------------------------------------------------------
(* Scoping and transactions.                                               *)

\* The schema a call is bound to: ModuleDB and ModuleTx overlay the module's.
Schema(c) ==
    IF op[c].access = "module" THEN ModSchema
    ELSE IF ctx[c].scoped THEN ctx[c].app ELSE None

\* What the next statement of c's connection sees.
Effective(k) == IF k.tx /\ k.local # None THEN k.local ELSE k.sess

\* conn.Release: a connection still inside a transaction, or broken, is destroyed.
Release(c, broken) ==
    /\ conn' = [conn EXCEPT ![has[c]] = IF broken THEN None ELSE [@ EXCEPT !.tx = FALSE, !.local = None]]
    /\ has' = [has EXCEPT ![c] = None]

BeginTx(c) ==
    /\ pc[c] = "begin"
    /\ conn' = [conn EXCEPT ![has[c]].tx = TRUE]
    /\ Goto(c, "scope")
    /\ UNCHANGED <<plane, now, ctx, op, pool, at, has, raced, devDB, refused>>

BeginFails(c) ==
    /\ pc[c] = "begin"
    /\ \E broken \in BOOLEAN : Release(c, broken)
    /\ Goto(c, "unpin")
    /\ UNCHANGED <<plane, now, ctx, op, pool, at, raced, devDB, refused>>

\* applyScope sets search_path and ms.app_id in one batch: transaction-local
\* inside a transaction, on the session otherwise.  Without a schema nothing is set.
ApplyScope(c) ==
    /\ pc[c] = "scope"
    /\ conn' = IF Schema(c) = None THEN conn
               ELSE IF conn[has[c]].tx
               THEN [conn EXCEPT ![has[c]].local = Schema(c)]
               ELSE [conn EXCEPT ![has[c]].sess = Schema(c)]
    /\ Goto(c, "use")
    /\ UNCHANGED <<plane, now, ctx, op, pool, at, has, raced, devDB, refused>>

\* The batch fails: rolled back if there is a transaction, and released.
ScopeFails(c) ==
    /\ pc[c] = "scope"
    /\ Schema(c) # None
    /\ \E broken \in BOOLEAN : Release(c, broken)
    /\ Goto(c, "unpin")
    /\ UNCHANGED <<plane, now, ctx, op, pool, at, raced, devDB, refused>>

\* The handler's own SQL changes the session's search_path.
HandlerSets(c) ==
    /\ pc[c] = "use"
    /\ conn' = IF conn[has[c]].tx
               THEN [conn EXCEPT ![has[c]].local = Stray]
               ELSE [conn EXCEPT ![has[c]].sess = Stray]
    /\ Goto(c, "strayed")
    /\ UNCHANGED <<plane, now, ctx, op, pool, at, has, raced, devDB, refused>>

\* Mutant of CloseConn: the closure releases the pool first.
CloseConnPoolFirst(c) ==
    /\ pc[c] \in {"use", "strayed"}
    /\ op[c].mode = "conn"
    /\ at' = [at EXCEPT ![c] = None]
    /\ pool' = IF at[c] \in PrivatePools THEN [pool EXCEPT ![at[c]] = None] ELSE pool
    /\ Goto(c, "unpin")
    /\ UNCHANGED <<plane, now, ctx, op, conn, has, raced, devDB, refused>>

\* The release closure of DB and ModuleDB: the connection first, then the pool.
CloseConn(c) ==
    /\ pc[c] \in {"use", "strayed"}
    /\ op[c].mode = "conn"
    /\ \E broken \in BOOLEAN : Release(c, broken)
    /\ Goto(c, "unpin")
    /\ UNCHANGED <<plane, now, ctx, op, pool, at, raced, devDB, refused>>

\* A session-level SET of the handler survives a commit.
Committed(k, strayed) ==
    [k EXCEPT !.tx = FALSE, !.local = None, !.sess = IF strayed THEN Stray ELSE k.sess]

\* fn returned nil: tx.Commit under a background context.
Commit(c) ==
    /\ pc[c] \in {"use", "strayed"}
    /\ op[c].mode # "conn"
    /\ \/ /\ conn' = [conn EXCEPT ![has[c]] = Committed(@, pc[c] = "strayed")]
          /\ has' = [has EXCEPT ![c] = None]
       \/ Release(c, TRUE)
    /\ Goto(c, "unpin")
    /\ UNCHANGED <<plane, now, ctx, op, pool, at, raced, devDB, refused>>

\* fn failed or panicked: safeRollback, whose own failure leaves the
\* transaction open, so that Release destroys the connection.
Rollback(c) ==
    /\ pc[c] \in {"use", "strayed"}
    /\ op[c].mode # "conn"
    /\ \E broken \in BOOLEAN : Release(c, broken)
    /\ Goto(c, "unpin")
    /\ UNCHANGED <<plane, now, ctx, op, pool, at, raced, devDB, refused>>

\* releasePool: the handler runs on with neither connection nor pool.
Released(c) ==
    /\ at' = [at EXCEPT ![c] = None]
    /\ op' = [op EXCEPT ![c] = None]
    /\ raced' = [raced EXCEPT ![c] = FALSE]
    /\ Goto(c, "handler")

Unpin(c) ==
    /\ pc[c] = "unpin" /\ at[c] \notin PrivatePools
    /\ Released(c)
    /\ UNCHANGED <<plane, now, ctx, pool, conn, has, devDB, refused>>

\* pool.Close, the release of a private pool.
ClosePrivate(c) ==
    /\ pc[c] = "unpin" /\ at[c] \in PrivatePools
    /\ pool' = [pool EXCEPT ![at[c]] = None]
    /\ conn' = [x \in ConnIds |-> IF x \in Idle(at[c]) THEN None ELSE conn[x]]
    /\ Released(c)
    /\ UNCHANGED <<plane, now, ctx, has, devDB, refused>>

\* MaxConnIdleTime and MaxConnLifetime.
ConnExpires ==
    /\ \E p \in Pools : \E x \in Idle(p) : conn' = [conn EXCEPT ![x] = None]
    /\ UNCHANGED <<plane, now, ctx, pc, op, pool, at, has, raced, devDB, refused>>

-----------------------------------------------------------------------------
Unreachable(c) ==
    \E access \in Accesses : ResolveFails(c, access) \/ GetFails(c, access) \/ DevDBFails(c, access)

Reach(c, access, mode) ==
    \/ GetHit(c, access, mode) \/ GetMiss(c, access, mode) \/ GetPrivate(c, access, mode)
    \/ OpenDevDB(c, access, mode) \/ UseDevDB(c, access, mode)

Acquire(c) ==
    Borrow(c) \/ ResetFails(c) \/ Dial(c) \/ DialFails(c) \/ AcquireTimesOut(c)

Enter(c) == BeginTx(c) \/ BeginFails(c) \/ ApplyScope(c) \/ ScopeFails(c)

Leave(c) == CloseConn(c) \/ Commit(c) \/ Rollback(c)

PoolsNext ==
    \/ Tick \/ ConnExpires
    \/ \E c \in Callers :
          \/ Invoke(c) \/ Return(c)
          \/ Unreachable(c)
          \/ \E access \in Accesses, mode \in Modes : Reach(c, access, mode)
          \/ Refresh(c) \/ Acquire(c) \/ Enter(c)
          \/ HandlerSets(c) \/ Leave(c) \/ Unpin(c) \/ ClosePrivate(c)

PoolsSpec == PoolsInit /\ [][PoolsNext]_poolVars

-----------------------------------------------------------------------------
\* Every variable has its type.
PoolsTypeOK ==
    /\ plane \in DOMAIN Arrivals /\ now \in Nat
    /\ ctx \in [Callers -> Invocations \cup {None}]
    /\ \A c \in Callers : ctx[c] # None => ctx[c].src \in Sources(plane)
    /\ pc \in [Callers -> Locations]
    /\ op \in [Callers -> [access : Accesses, mode : Modes \cup {"read"}] \cup {None}]
    /\ pool \in [Pools -> PoolStates \cup {None}]
    /\ conn \in [ConnIds -> ConnStates \cup {None}]
    /\ at \in [Callers -> Pools \cup {None}]
    /\ has \in [Callers -> ConnIds \cup {None}]
    /\ raced \in [Callers -> BOOLEAN]
    /\ devDB \in {"new", "open", "failed"}
    /\ refused \subseteq [fresh : BOOLEAN, raced : BOOLEAN]

\* The handler's first statement on a connection sees the schema its call is
\* bound to, whatever the connections' earlier borrowers set, committed, rolled
\* back or failed to roll back; a call without a schema sees none
\* (prepareConnReset, applyScope).
ScopeNeverLeaks ==
    \A c \in Callers : pc[c] = "use" => Effective(conn[has[c]]) = Schema(c)

\* A borrowed connection belongs to the open pool its borrower has pinned, so
\* neither an eviction nor the end of another task closes it in use.
BorrowedPoolIsPinned ==
    \A c \in Callers : has[c] # None =>
        /\ conn[has[c]] # None
        /\ at[c] = has[c][1]
        /\ Open(at[c])

\* A caller's connection was authenticated with a credential of the caller's own
\* app and source: never with the renewal capability of another task's attempt
\* (GetProvider's comment on keys), nor with another app's role.
DialedWithItsOwnAuthority ==
    \A c \in Callers : (has[c] # None /\ plane # "dev") =>
        /\ conn[has[c]].auth = Authority(c)
        /\ at[c] \in CachedPools => at[c][1] = ctx[c].app

\* A caller with a live token is refused for an expired one only if another
\* invocation put its token into the pool's envelope between this caller's Get
\* and its dial: the pool does not go on dialling with the token that built it.
RefusedOnlyWhenRaced ==
    \A r \in refused : r.fresh => r.raced

\* Each Get of a cached pool and each release of one is a step of PinnedCache, the
\* cache that RefCache implements, and no other action changes what that cache holds.
Cache == INSTANCE PinnedCache WITH
            Keys <- CachedPools, MaxSize <- MaxPools,
            cached <- OpenCached,
            pins <- [c \in Callers |-> IF at[c] \in CachedPools THEN at[c] ELSE None]

ImplementsPinnedCache == Cache!Spec
=============================================================================
