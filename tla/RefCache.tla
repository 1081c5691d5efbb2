------------------------------ MODULE RefCache ------------------------------
(***************************************************************************)
(* internal/refcache: the refcount-pinned LRU cache behind db.PoolCache    *)
(* and cache.ClientCache.  A caller is a goroutine inside Get or between   *)
(* Get and its release.  Every region under Cache.mu is one action; the    *)
(* points where a goroutine may be descheduled (before singleflight,       *)
(* inside the factory, before a follower pins) are program locations.      *)
(***************************************************************************)
EXTENDS Integers, FiniteSets

CONSTANTS
    Callers,     \* goroutines that call Get
    Keys,        \* cache keys
    MaxSize,     \* Cache.maxSize
    MaxValues,   \* bound: how many resources the factories may create
    MaxCloses,   \* bound: how many times Close may be called
    None         \* no caller, no key

ASSUME CallersAssumption == IsFiniteSet(Callers) /\ None \notin Callers \cup Keys
ASSUME BoundsAssumption ==
    MaxSize \in Nat \ {0} /\ MaxValues \in Nat /\ MaxCloses \in Nat

VARIABLES
    items,    \* items[k]: the entry of key k, or NoEntry
    older,    \* <<j, k>>: cached key j was used before cached key k (lastUsed)
    flight,   \* flight[k]: the caller running singleflight's closure for k
    pc,       \* pc[c]: where caller c is
    key,      \* key[c]: the key c asked for
    val,      \* val[c]: the resource c created or received, 0 if none
    result,   \* result[c]: how c's last Get ended
    made,     \* resources created so far: 1..made
    closes,   \* closes[v]: how often the closer ran on resource v
    shut      \* how often Close ran

vars == <<items, older, flight, pc, key, val, result, made, closes, shut>>

Values == 1..MaxValues

Entry(v, n) == [value |-> v, refCount |-> n]
NoEntry == Entry(0, 0)

Locations ==
    {"idle", "miss", "wait", "recheck", "factory", "insert", "ok", "fail",
     "bump", "hold"}

Results == {"none", "ok", "factoryError", "limit", "vanished"}

Init ==
    /\ items = [k \in Keys |-> NoEntry]
    /\ older = {}
    /\ flight = [k \in Keys |-> None]
    /\ pc = [c \in Callers |-> "idle"]
    /\ key \in [Callers -> Keys]
    /\ val = [c \in Callers |-> 0]
    /\ result = [c \in Callers |-> "none"]
    /\ made = 0
    /\ closes = [v \in Values |-> 0]
    /\ shut = 0

Cached(k) == items[k].value # 0

CachedKeys == {k \in Keys : Cached(k)}

\* lastUsed = time.Now(): every other cached key is now older than k.
Touch(k) ==
    {p \in older : p[1] # k} \cup ((CachedKeys \ {k}) \X {k})

\* refCount++ on the entry of c's key, whose value c now uses.
Pin(c, k) ==
    /\ items' = [items EXCEPT ![k] = Entry(@.value, @.refCount + 1)]
    /\ older' = Touch(k)
    /\ val' = [val EXCEPT ![c] = items[k].value]

---------------------------------------------------------------------------
\* Get, fast path: a hit pins and returns, a miss goes on to singleflight.
GetHit(c, k) ==
    /\ pc[c] = "idle"
    /\ Cached(k)
    /\ Pin(c, k)
    /\ key' = [key EXCEPT ![c] = k]
    /\ pc' = [pc EXCEPT ![c] = "hold"]
    /\ result' = [result EXCEPT ![c] = "ok"]
    /\ UNCHANGED <<flight, made, closes, shut>>

GetMiss(c, k) ==
    /\ pc[c] = "idle"
    /\ ~Cached(k)
    /\ key' = [key EXCEPT ![c] = k]
    /\ pc' = [pc EXCEPT ![c] = "miss"]
    /\ result' = [result EXCEPT ![c] = "none"]
    /\ UNCHANGED <<items, older, flight, val, made, closes, shut>>

\* sf.Do: the first caller of a key runs the closure, the others wait for it.
EnterDo(c) ==
    /\ pc[c] = "miss"
    /\ \/ /\ flight[key[c]] = None
          /\ flight' = [flight EXCEPT ![key[c]] = c]
          /\ pc' = [pc EXCEPT ![c] = "recheck"]
       \/ /\ flight[key[c]] # None
          /\ pc' = [pc EXCEPT ![c] = "wait"]
          /\ UNCHANGED flight
    /\ UNCHANGED <<items, older, key, val, result, made, closes, shut>>

\* The closure looks again: an earlier flight may have filled the cache.
RecheckHit(c) ==
    /\ pc[c] = "recheck"
    /\ Cached(key[c])
    /\ Pin(c, key[c])
    /\ pc' = [pc EXCEPT ![c] = "ok"]
    /\ UNCHANGED <<flight, key, result, made, closes, shut>>

RecheckMiss(c) ==
    /\ pc[c] = "recheck"
    /\ ~Cached(key[c])
    /\ pc' = [pc EXCEPT ![c] = "factory"]
    /\ UNCHANGED <<items, older, flight, key, val, result, made, closes, shut>>

\* factory() runs without the lock and creates a resource or fails.
FactoryOk(c) ==
    /\ pc[c] = "factory"
    /\ made < MaxValues
    /\ made' = made + 1
    /\ val' = [val EXCEPT ![c] = made + 1]
    /\ pc' = [pc EXCEPT ![c] = "insert"]
    /\ UNCHANGED <<items, older, flight, key, result, closes, shut>>

FactoryError(c) ==
    /\ pc[c] = "factory"
    /\ pc' = [pc EXCEPT ![c] = "fail"]
    /\ result' = [result EXCEPT ![c] = "factoryError"]
    /\ UNCHANGED <<items, older, flight, key, val, made, closes, shut>>

---------------------------------------------------------------------------
Evictable == {k \in CachedKeys : items[k].refCount = 0}

\* evictOldestLocked's choice: the least recently used entry nobody pins.
Oldest == {k \in Evictable : \A j \in Evictable : <<j, k>> \notin older}

Full == Cardinality(CachedKeys) >= MaxSize

Filled(c) == Entry(val[c], 1)

\* Room is left: insert with refCount 1.
Insert(c) ==
    /\ pc[c] = "insert"
    /\ ~Full
    /\ items' = [items EXCEPT ![key[c]] = Filled(c)]
    /\ older' = Touch(key[c])
    /\ pc' = [pc EXCEPT ![c] = "ok"]
    /\ UNCHANGED <<flight, key, val, result, made, closes, shut>>

\* The cache is full: close and drop the oldest unpinned entry, then insert.
InsertEvicting(c) ==
    /\ pc[c] = "insert"
    /\ Full
    /\ \E old \in Oldest :
          /\ closes' = [closes EXCEPT ![items[old].value] = @ + 1]
          /\ items' = [items EXCEPT ![old] = NoEntry, ![key[c]] = Filled(c)]
          /\ older' = {p \in Touch(key[c]) : old \notin {p[1], p[2]}}
    /\ pc' = [pc EXCEPT ![c] = "ok"]
    /\ UNCHANGED <<flight, key, val, result, made, shut>>

\* Mutant of InsertRefused: the new resource is dropped without its closer.
InsertRefusedLeaking(c) ==
    /\ pc[c] = "insert"
    /\ Full
    /\ Evictable = {}
    /\ val' = [val EXCEPT ![c] = 0]
    /\ pc' = [pc EXCEPT ![c] = "fail"]
    /\ result' = [result EXCEPT ![c] = "limit"]
    /\ UNCHANGED <<items, older, flight, key, made, closes, shut>>

\* The cache is full of pinned entries: close the new resource and fail.
InsertRefused(c) ==
    /\ pc[c] = "insert"
    /\ Full
    /\ Evictable = {}
    /\ closes' = [closes EXCEPT ![val[c]] = @ + 1]
    /\ val' = [val EXCEPT ![c] = 0]
    /\ pc' = [pc EXCEPT ![c] = "fail"]
    /\ result' = [result EXCEPT ![c] = "limit"]
    /\ UNCHANGED <<items, older, flight, key, made, shut>>

---------------------------------------------------------------------------
\* Do returns to the leader and wakes the callers that waited for it.
Followers(k) == {f \in Callers : pc[f] = "wait" /\ key[f] = k}

FinishOk(c) ==
    /\ pc[c] = "ok"
    /\ flight' = [flight EXCEPT ![key[c]] = None]
    /\ pc' = [f \in Callers |->
                 IF f = c THEN "hold"
                 ELSE IF f \in Followers(key[c]) THEN "bump" ELSE pc[f]]
    /\ result' = [result EXCEPT ![c] = "ok"]
    /\ UNCHANGED <<items, older, key, val, made, closes, shut>>

\* Mutant of FinishError: an error wakes only the leader.
FinishErrorAlone(c) ==
    /\ pc[c] = "fail"
    /\ flight' = [flight EXCEPT ![key[c]] = None]
    /\ pc' = [pc EXCEPT ![c] = "idle"]
    /\ UNCHANGED <<items, older, key, val, result, made, closes, shut>>

FinishError(c) ==
    /\ pc[c] = "fail"
    /\ flight' = [flight EXCEPT ![key[c]] = None]
    /\ pc' = [f \in Callers |->
                 IF f = c \/ f \in Followers(key[c]) THEN "idle" ELSE pc[f]]
    /\ result' = [f \in Callers |->
                 IF f \in Followers(key[c]) THEN result[c] ELSE result[f]]
    /\ UNCHANGED <<items, older, key, val, made, closes, shut>>

\* Mutant of BumpHit: a follower shares the leader's pin.
BumpHitUnpinned(c) ==
    /\ pc[c] = "bump"
    /\ Cached(key[c])
    /\ val' = [val EXCEPT ![c] = items[key[c]].value]
    /\ pc' = [pc EXCEPT ![c] = "hold"]
    /\ result' = [result EXCEPT ![c] = "ok"]
    /\ UNCHANGED <<items, older, flight, key, made, closes, shut>>

\* A follower pins the entry its leader inserted, if it is still there.
BumpHit(c) ==
    /\ pc[c] = "bump"
    /\ Cached(key[c])
    /\ Pin(c, key[c])
    /\ pc' = [pc EXCEPT ![c] = "hold"]
    /\ result' = [result EXCEPT ![c] = "ok"]
    /\ UNCHANGED <<flight, key, made, closes, shut>>

BumpVanished(c) ==
    /\ pc[c] = "bump"
    /\ ~Cached(key[c])
    /\ pc' = [pc EXCEPT ![c] = "idle"]
    /\ result' = [result EXCEPT ![c] = "vanished"]
    /\ UNCHANGED <<items, older, flight, key, val, made, closes, shut>>

\* The release closure finds the entry by key, whichever entry that is now.
Unpinned(k) ==
    IF Cached(k) /\ items[k].refCount > 0
    THEN [items EXCEPT ![k] = Entry(@.value, @.refCount - 1)]
    ELSE items

Release(c) ==
    /\ pc[c] = "hold"
    /\ items' = Unpinned(key[c])
    /\ pc' = [pc EXCEPT ![c] = "idle"]
    /\ val' = [val EXCEPT ![c] = 0]
    /\ UNCHANGED <<older, flight, key, result, made, closes, shut>>

\* Close disposes of every cached value, pinned or not, and empties the map.
CachedValues == {items[k].value : k \in CachedKeys}

Close ==
    /\ shut < MaxCloses
    /\ shut' = shut + 1
    /\ closes' = [v \in Values |->
                     IF v \in CachedValues THEN closes[v] + 1 ELSE closes[v]]
    /\ items' = [k \in Keys |-> NoEntry]
    /\ older' = {}
    /\ UNCHANGED <<flight, pc, key, val, result, made>>

---------------------------------------------------------------------------
Step(c) ==
    \/ EnterDo(c)
    \/ RecheckHit(c) \/ RecheckMiss(c)
    \/ FactoryOk(c) \/ FactoryError(c)
    \/ Insert(c) \/ InsertEvicting(c) \/ InsertRefused(c)
    \/ FinishOk(c) \/ FinishError(c)
    \/ BumpHit(c) \/ BumpVanished(c)

Next ==
    \/ \E c \in Callers, k \in Keys : GetHit(c, k) \/ GetMiss(c, k)
    \/ \E c \in Callers : Step(c) \/ Release(c)
    \/ Close

Spec == Init /\ [][Next]_vars

\* The Go scheduler runs every goroutine that can run; factories return
\* (they dial under the caller's context).  Callers need not release.
FairSpec == Spec /\ \A c \in Callers : WF_vars(Step(c))

---------------------------------------------------------------------------
\* The type of every variable.
TypeOK ==
    /\ items \in [Keys -> [value : 0..MaxValues, refCount : Nat]]
    /\ older \subseteq Keys \X Keys
    /\ flight \in [Keys -> Callers \cup {None}]
    /\ pc \in [Callers -> Locations]
    /\ key \in [Callers -> Keys]
    /\ val \in [Callers -> 0..MaxValues]
    /\ result \in [Callers -> Results]
    /\ made \in 0..MaxValues
    /\ closes \in [Values -> Nat]
    /\ shut \in 0..MaxCloses

Pinned(c) == pc[c] \in {"hold", "ok"}

Pins(k) == {c \in Callers : Pinned(c) /\ key[c] = k}

\* The package comment: as long as Close was not called, no eviction closes a
\* resource between a caller's Get and its release.
NoUseAfterEvict ==
    shut = 0 => \A c \in Callers : pc[c] = "hold" => closes[val[c]] = 0

\* Until Close, an entry's refCount is the number of callers that hold it:
\* the leader's initial 1 and the followers' bumps are each undone once.
RefCountExact ==
    shut = 0 => \A k \in Keys : items[k].refCount = Cardinality(Pins(k))

\* Every resource a factory created is cached, about to be inserted, or was
\* closed exactly once: nothing leaks and nothing is closed twice, Close and
\* the limit error included.
NothingLeaks ==
    \A v \in 1..made :
        LET live == v \in CachedValues
                    \/ \E c \in Callers : pc[c] = "insert" /\ val[c] = v
        IN closes[v] = IF live THEN 0 ELSE 1

\* The map never grows past maxSize, although leaders of different keys
\* create their resources in parallel.
SizeBounded == Cardinality(CachedKeys) <= MaxSize

\* Singleflight: at most one caller per key is inside the factory.
OneFactoryPerKey ==
    \A c, d \in Callers :
        /\ {pc[c], pc[d]} \subseteq {"recheck", "factory", "insert", "ok", "fail"}
        /\ key[c] = key[d]
        => c = d

\* Every Get returns, also for the callers that wait for somebody else's
\* factory call.
GetReturns ==
    \A c \in Callers : pc[c] = "miss" ~> pc[c] \in {"idle", "hold"}

\* refcache.go on the follower path: an entry vanishes before a follower can
\* pin it "only ... if Close() ran concurrently".
VanishedOnlyAfterClose ==
    \A c \in Callers : result[c] = "vanished" => shut > 0

\* Each resource's life as Lifetimes describes it.
L == INSTANCE Lifetimes WITH
        stage <- [v \in Values |->
                     IF v > made THEN "none"
                     ELSE IF closes[v] = 0 THEN "open" ELSE "closed"],
        users <- [v \in Values |-> {c \in Callers : Pinned(c) /\ val[c] = v}]

\* Until Close, the cache implements Lifetimes.
ImplementsLifetimes == L!Init /\ [][shut' = 0 => [L!Next]_(L!lifeVars)]_vars

\* The entries by their keys, as PinnedCache describes them: a caller pins from
\* the critical section that hands it the entry to its release.
P == INSTANCE PinnedCache WITH
        cached <- CachedKeys,
        pins <- [c \in Callers |-> IF Pinned(c) THEN key[c] ELSE None]

\* Until Close, Get takes effect at one instant, for leaders and followers alike:
\* one entry per key, room made from the unpinned, what a caller pinned stays.
ImplementsPinnedCache == P!Init /\ [][shut' = 0 => [P!Next]_(P!cacheVars)]_vars

\* What db.PoolCache and cache.ClientCache build upon: both of it.
ImplementsCache == ImplementsLifetimes /\ ImplementsPinnedCache

=============================================================================
