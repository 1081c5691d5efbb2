----------------------- MODULE DependencyReadsProofs -----------------------
(***************************************************************************)
(* Proofs about Pools and DependencyReads.                                 *)
(***************************************************************************)
EXTENDS DependencyReads, FiniteSetTheorems, WellFoundedInduction, TLAPS

(* A read uses a pool as a transaction does: the steps of Pools, with the  *)
(* third mode among them.                                                  *)
AnyMode == Modes \cup {"read"}

CallerMoves(c) ==
    \/ Invoke(c) \/ Return(c) \/ Unreachable(c)
    \/ \E access \in Accesses, mode \in AnyMode : Reach(c, access, mode)
    \/ Refresh(c) \/ Acquire(c) \/ Enter(c) \/ HandlerSets(c) \/ Leave(c)
    \/ Unpin(c) \/ ClosePrivate(c)

PoolsMove == Tick \/ ConnExpires \/ \E c \in Callers : CallerMoves(c)

LEMMA PoolsNextMoves == PoolsNext => PoolsMove
BY DEF PoolsNext, PoolsMove, CallerMoves, AnyMode

LEMMA NextMoves == [Next]_vars => [PoolsMove]_poolVars
<1>1. ASSUME NEW c \in Readers, Read(c) PROVE PoolsMove \/ UNCHANGED poolVars
  <2>0. c \in Callers
    BY ReadsAssumption
  <2>1. CASE ReadReaches(c)
    BY <2>0, <2>1 DEF ReadReaches, PoolsMove, CallerMoves, AnyMode, Accesses, Reach
  <2>2. CASE ReadUnreachable(c)
    BY <2>0, <2>2 DEF ReadUnreachable, PoolsMove, CallerMoves, Accesses, Unreachable
  <2>3. CASE ReadLost(c) \/ ReadProceeds(c) \/ ReadRows(c) \/ ReadFails(c)
    BY <2>0, <2>3 DEF ReadLost, ReadProceeds, ReadRows, ReadFails, PoolsMove, CallerMoves,
       Acquire, Enter, Leave
  <2>4. CASE LocalRefuses(c) \/ Proxy(c) \/ TakeAnswer(c)
    BY <2>4 DEF LocalRefuses, Proxy, TakeAnswer
  <2>5. ASSUME NEW t \in Tables, NEW calls \in Queries, NEW id \in Identities(c),
               \/ ReadRefused(c, t, calls, id)
               \/ \E m \in Manifests : ReadDeployed(c, t, calls, id, m)
               \/ \E answer \in {"entry", "miss", "error"} : LookUp(c, t, calls, id, answer)
        PROVE  UNCHANGED poolVars
    BY <2>5 DEF ReadRefused, ReadDeployed, LookUp
  <2> QED BY <1>1, <2>1, <2>2, <2>3, <2>4, <2>5 DEF Read
<1>2. ASSUME NEW c \in Callers, Access(c) PROVE PoolsMove
  BY <1>2 DEF Access, PoolsMove, CallerMoves, AnyMode
<1>3. CASE UNCHANGED vars
  BY <1>3 DEF vars
<1> QED BY <1>1, <1>2, <1>3 DEF Next, PoolsMove

-----------------------------------------------------------------------------
(* Types.                                                                  *)

LEMMA SourceKnown ==
    ASSUME PoolsTypeOK
    PROVE  Sources(plane) \subseteq {"envelope", "task", "none"}
BY PoolsAssumption DEF PoolsTypeOK, Sources

LEMMA AuthorityKnown ==
    ASSUME PoolsTypeOK, NEW c \in Callers, ctx[c] # None
    PROVE  /\ ctx[c] \in Invocations
           /\ Authority(c) \in Authorities
           /\ CacheKey(c) \in CachedPools
           /\ CacheKey(c) \in Pools
<1>1. ctx[c] \in Invocations
  BY DEF PoolsTypeOK
<1>2. ctx[c].src \in {"envelope", "task", "none"} /\ ctx[c].app \in Apps
  BY <1>1 DEF Invocations
<1>3. Authority(c) \in Authorities
  BY <1>2 DEF Authority, Authorities
<1>4. CacheKey(c) \in CachedPools
  BY <1>2 DEF CacheKey, CachedPools
<1> QED BY <1>1, <1>3, <1>4 DEF Pools

LEMMA PoolsTypeInit == PoolsInit => PoolsTypeOK
BY PoolsAssumption DEF PoolsInit, PoolsTypeOK, Locations

(* What c has at each point of its access.                                 *)
Located(c) ==
    /\ pc[c] = "out" <=> ctx[c] = None
    /\ pc[c] \in {"out", "handler"} <=> at[c] = None
    /\ pc[c] \in {"out", "handler"} <=> op[c] = None
    /\ pc[c] \in {"begin", "scope", "use", "strayed"} <=> has[c] # None
    /\ pc[c] = "begin" => op[c].mode # "conn"

(* Whose credential a pool was made with.                                  *)
Owner(p) == IF p \in PrivatePools THEN p[2]
            ELSE IF p = DevPool THEN "dev"
            ELSE IF p[2] = "static" THEN "envelope" ELSE p[2]

(* The pool c has pinned is open, and one c's own credential opens.        *)
Rightful(c) ==
    at[c] # None =>
        /\ Open(at[c])
        /\ Owner(at[c]) = Authority(c)
        /\ at[c] \in PrivatePools => at[c] = <<"private", c>>
        /\ at[c] \in CachedPools => at[c][1] = ctx[c].app
        /\ pc[c] = "refresh" => at[c] \in CachedPools

Borrowing(c) == has[c] # None => conn[has[c]] # None /\ has[c][1] = at[c]

(* Nobody shares a connection.                                             *)
Exclusive == \A c, d \in Callers : has[c] # None /\ has[c] = has[d] => c = d

(* Pools and connections carry their owner's credential; a closed pool has *)
(* no connections.                                                         *)
PoolsOwned ==
    /\ \A p \in Pools : Open(p) => pool[p].auth = Owner(p)
    /\ \A x \in ConnIds : conn[x] # None => Open(x[1]) /\ conn[x].auth = Owner(x[1])

DevOpen == (devDB = "open" <=> Open(DevPool)) /\ (devDB = "open" => plane = "dev")

Holding ==
    /\ PoolsTypeOK
    /\ \A c \in Callers : Located(c)
    /\ \A c \in Callers : Rightful(c)
    /\ \A c \in Callers : Borrowing(c)
    /\ Exclusive
    /\ PoolsOwned
    /\ DevOpen

LEMMA Borrowed ==
    ASSUME Holding, NEW c \in Callers, has[c] # None
    PROVE  /\ has[c] \in ConnIds /\ has[c] \in Pools \X (1..MaxConns)
           /\ conn[has[c]] \in ConnStates /\ conn[has[c]] # None
           /\ at[c] \in Pools /\ at[c] # None /\ has[c][1] = at[c]
           /\ op[c] \in [access : Accesses, mode : AnyMode] /\ ctx[c] \in Invocations
<1>1. has[c] \in ConnIds /\ at[c] \in Pools \cup {None} /\ ctx[c] \in Invocations \cup {None}
      /\ op[c] \in [access : Accesses, mode : AnyMode] \cup {None} /\ conn[has[c]] \in ConnStates \cup {None}
  BY DEF Holding, PoolsTypeOK, AnyMode
<1>2. has[c] \in Pools \X (1..MaxConns)
  BY <1>1 DEF ConnIds
<1>3. Located(c) /\ Borrowing(c)
  BY DEF Holding
<1>4. at[c] # None /\ ctx[c] # None /\ op[c] # None
  BY <1>3 DEF Located
<1> QED BY <1>1, <1>2, <1>3, <1>4 DEF Borrowing

LEMMA ReleaseTypes ==
    ASSUME Holding, NEW c \in Callers, has[c] # None, NEW broken \in BOOLEAN,
           Release(c, broken)
    PROVE  /\ conn' \in [ConnIds -> ConnStates \cup {None}]
           /\ has' \in [Callers -> ConnIds \cup {None}]
<1>1. conn[has[c]] \in ConnStates /\ has[c] \in ConnIds
  BY Borrowed
<1>2. [conn[has[c]] EXCEPT !.tx = FALSE, !.local = None] \in ConnStates
  BY <1>1 DEF ConnStates, Scopes
<1> QED BY <1>1, <1>2 DEF Holding, PoolsTypeOK, Release

LEMMA NewPoolTypes ==
    ASSUME PoolsTypeOK, NEW c \in Callers, ctx[c] # None, NEW p \in Pools, NEW v,
           NewPool(c, p, v)
    PROVE  /\ pool' \in [Pools -> PoolStates \cup {None}]
           /\ conn' \in [ConnIds -> ConnStates \cup {None}]
           /\ at' \in [Callers -> Pools \cup {None}]
<1>1. Authority(c) \in Authorities /\ ctx[c].tok \in Nat
  BY AuthorityKnown DEF Invocations
<1>2. Fresh(Authority(c)) \in ConnStates
  BY <1>1 DEF Fresh, ConnStates, Scopes
<1>3. [tok |-> ctx[c].tok, auth |-> Authority(c)] \in PoolStates
  BY <1>1 DEF PoolStates
<1> QED BY <1>2, <1>3 DEF NewPool, PoolsTypeOK

(* Where the actions find c.                                               *)
LEMMA Standing ==
    ASSUME Holding, NEW c \in Callers
    PROVE  /\ pc[c] # "out" => ctx[c] \in Invocations /\ ctx[c] # None
           /\ pc[c] \notin {"out", "handler"} =>
                 /\ at[c] \in Pools /\ at[c] # None /\ Open(at[c])
                 /\ pool[at[c]] \in PoolStates
                 /\ op[c] \in [access : Accesses, mode : AnyMode] /\ op[c] # None
           /\ pc[c] \in {"begin", "scope", "use", "strayed"} =>
                 has[c] \in ConnIds /\ has[c] # None /\ conn[has[c]] \in ConnStates
           /\ pc[c] \notin {"begin", "scope", "use", "strayed"} => has[c] = None
           /\ pc \in [Callers -> Locations] /\ pc[c] \in Locations
<1>1. Located(c) /\ Rightful(c)
  BY DEF Holding
<1>2. ctx[c] \in Invocations \cup {None} /\ at[c] \in Pools \cup {None}
      /\ op[c] \in [access : Accesses, mode : AnyMode] \cup {None}
      /\ pc \in [Callers -> Locations] /\ pc[c] \in Locations
      /\ pool \in [Pools -> PoolStates \cup {None}]
  BY DEF Holding, PoolsTypeOK, AnyMode
<1>3. pc[c] \in {"begin", "scope", "use", "strayed"} => has[c] # None
  BY <1>1 DEF Located
<1> QED BY <1>1, <1>2, <1>3, Borrowed DEF Located, Rightful, Open

LEMMA GotoTypes ==
    ASSUME PoolsTypeOK, NEW c \in Callers, NEW l \in Locations, Goto(c, l)
    PROVE  pc' \in [Callers -> Locations]
BY DEF PoolsTypeOK, Goto

LEMMA RefusalTypes ==
    ASSUME PoolsTypeOK, NEW c \in Callers
    PROVE  Refusal(c) \in [fresh : BOOLEAN, raced : BOOLEAN]
<1>1. raced[c] \in BOOLEAN /\ Alive(ctx[c].tok) \in BOOLEAN
  BY DEF PoolsTypeOK, Alive
<1> QED BY <1>1, Zenon DEF Refusal

(* A pool with fewer connections than MaxConns has a number left.          *)
LEMMA RoomToDial ==
    ASSUME PoolsTypeOK, NEW c \in Callers, at[c] \in Pools, CanDial(c)
    PROVE  /\ NewConn(c) \in ConnIds
           /\ NewConn(c)[1] = at[c]
           /\ conn[NewConn(c)] = None
<1> DEFINE p == at[c]
           I == {i \in 1..MaxConns : conn[<<p, i>>] = None}
<1>1. MaxConns \in Nat /\ Cardinality(1..MaxConns) = MaxConns /\ IsFiniteSet(1..MaxConns)
  BY PoolsAssumption, FS_Interval
<1>2. ASSUME I = {} PROVE FALSE
  <2> DEFINE f == [i \in 1..MaxConns |-> <<p, i>>]
  <2>1. Conns(p) = {x \in ConnIds : x[1] = p}
    <3>1. \A x \in ConnIds : x[1] = p => x = <<p, x[2]>> /\ x[2] \in 1..MaxConns
      BY DEF ConnIds
    <3> QED BY <1>2, <3>1 DEF Conns
  <2>2. f \in Bijection(1..MaxConns, Conns(p))
    <3>1. \A i \in 1..MaxConns : <<p, i>> \in Conns(p)
      BY <2>1 DEF ConnIds
    <3>2. \A x \in Conns(p) : \E i \in 1..MaxConns : x = <<p, i>>
      BY <2>1 DEF ConnIds
    <3>3. f \in [1..MaxConns -> Conns(p)]
      BY <3>1
    <3>4. \A i, j \in 1..MaxConns : f[i] = f[j] => i = j
      OBVIOUS
    <3>5. \A x \in Conns(p) : \E i \in 1..MaxConns : f[i] = x
      BY <3>2
    <3> HIDE DEF f
    <3>6. f \in Injection(1..MaxConns, Conns(p))
      BY <3>3, <3>4 DEF Injection, IsInjective
    <3>7. f \in Surjection(1..MaxConns, Conns(p))
      BY <3>3, <3>5 DEF Surjection
    <3> QED BY <3>6, <3>7 DEF Bijection
  <2>3. Cardinality(Conns(p)) = MaxConns
    <3> HIDE DEF f
    <3> QED BY <1>1, <2>2, FS_Bijection DEF ExistsBijection
  <2> QED BY <2>3, <1>1 DEF CanDial
<1>3. PICK i \in 1..MaxConns : conn[<<p, i>>] = None
  BY <1>2
<1>4. \E n \in 1..MaxConns : NewConn(c) = <<p, n>> /\ conn[<<p, n>>] = None
  BY <1>3 DEF NewConn
<1> QED BY <1>4 DEF ConnIds

LEMMA TypesKept == Holding /\ PoolsMove => PoolsTypeOK'
<1> USE DEF Locations
<1> SUFFICES ASSUME Holding, PoolsMove PROVE PoolsTypeOK'
  OBVIOUS
<1>1. PoolsTypeOK
  BY DEF Holding
<1>2. CASE Tick
  BY <1>1, <1>2 DEF Tick, PoolsTypeOK
<1>3. CASE ConnExpires
  BY <1>1, <1>3 DEF ConnExpires, Idle, Conns, PoolsTypeOK
<1>4. ASSUME NEW c \in Callers, CallerMoves(c) PROVE PoolsTypeOK'
  <2>1. CASE Invoke(c)
    <3>1. PICK i \in Arrivals[plane] :
             ctx' = [ctx EXCEPT ![c] =
                       [app |-> i.app, scoped |-> i.scoped, src |-> i.src, prov |-> i.prov,
                        tok |-> IF i.src = "envelope" THEN now ELSE 0]]
      BY <2>1 DEF Invoke
    <3>2. i \in [app : Apps, scoped : BOOLEAN, src : Sources(plane), prov : Providers \cup {None}]
      BY <1>1, PoolsAssumption DEF PoolsTypeOK
    <3>3. i.src \in {"envelope", "task", "none"}
      BY <1>1, <3>2, SourceKnown
    <3>4. ctx'[c] \in Invocations /\ ctx'[c].src \in Sources(plane)
      BY <1>1, <3>1, <3>2, <3>3 DEF Invocations, PoolsTypeOK
    <3> QED BY <1>1, <2>1, <3>1, <3>4, GotoTypes DEF Invoke, PoolsTypeOK
  <2>2. CASE Return(c)
    BY <1>1, <2>2, GotoTypes DEF Return, PoolsTypeOK
  <2>3. CASE Unreachable(c)
    BY <1>1, <2>3, RefusalTypes DEF Unreachable, ResolveFails, GetFails, DevDBFails, poolVars,
       PoolsTypeOK
  <2>4. ASSUME NEW access \in Accesses, NEW mode \in AnyMode, Reach(c, access, mode)
        PROVE  PoolsTypeOK'
    <3>1. pc[c] = "handler" /\ op' = [op EXCEPT ![c] = [access |-> access, mode |-> mode]]
      BY <2>4 DEF Reach, GetHit, GetMiss, GetPrivate, OpenDevDB, UseDevDB, Start
    <3>2. op' \in [Callers -> [access : Accesses, mode : Modes \cup {"read"}] \cup {None}]
      BY <1>1, <3>1 DEF PoolsTypeOK, AnyMode
    <3>3. ctx[c] # None
      BY <3>1, Standing
    <3>4. CacheKey(c) \in Pools /\ <<"private", c>> \in Pools /\ DevPool \in Pools
      BY <1>1, <3>3, AuthorityKnown DEF Pools, PrivatePools
    <3>5. CASE GetHit(c, access, mode)
      BY <1>1, <3>2, <3>4, <3>5, GotoTypes DEF GetHit, AfterGet, PoolsTypeOK
    <3>6. CASE GetMiss(c, access, mode)
      BY <1>1, <3>2, <3>3, <3>4, <3>6, GotoTypes, NewPoolTypes DEF GetMiss, AfterGet, PoolsTypeOK
    <3>7. CASE GetPrivate(c, access, mode)
      BY <1>1, <3>2, <3>3, <3>4, <3>7, GotoTypes, NewPoolTypes DEF GetPrivate, PoolsTypeOK
    <3>8. CASE OpenDevDB(c, access, mode)
      BY <1>1, <3>2, <3>3, <3>4, <3>8, GotoTypes, NewPoolTypes DEF OpenDevDB, PoolsTypeOK
    <3>9. CASE UseDevDB(c, access, mode)
      BY <1>1, <3>2, <3>4, <3>9, GotoTypes DEF UseDevDB, PoolsTypeOK
    <3> QED BY <2>4, <3>5, <3>6, <3>7, <3>8, <3>9 DEF Reach
  <2>5. CASE Refresh(c)
    <3>1. at[c] \in Pools /\ pool[at[c]] \in PoolStates /\ ctx[c] \in Invocations
      BY <2>5, Standing DEF Refresh
    <3>2. [pool[at[c]] EXCEPT !.tok = ctx[c].tok] \in PoolStates
      BY <3>1 DEF PoolStates, Invocations
    <3>3. pool' \in [Pools -> PoolStates \cup {None}] /\ raced' \in [Callers -> BOOLEAN]
      BY <1>1, <2>5, <3>1, <3>2 DEF Refresh, PoolsTypeOK
    <3> QED BY <1>1, <2>5, <3>3, GotoTypes DEF Refresh, PoolsTypeOK
  <2>6. CASE Acquire(c)
    <3>0. at[c] \in Pools /\ pool[at[c]] \in PoolStates
      BY <2>6, Standing DEF Acquire, Borrow, ResetFails, Dial, DialFails, AcquireTimesOut
    <3>1. CASE Borrow(c)
      <4>1. PICK x \in Idle(at[c]) : has' = [has EXCEPT ![c] = x]
                                      /\ conn' = [conn EXCEPT ![x] = Reset(conn[x])]
        BY <3>1 DEF Borrow
      <4>2. x \in ConnIds /\ conn[x] \in ConnStates
        BY <1>1 DEF Idle, Conns, PoolsTypeOK
      <4>3. Reset(conn[x]) \in ConnStates
        BY <4>2 DEF Reset, ConnStates, Scopes
      <4> QED BY <1>1, <3>1, <4>1, <4>2, <4>3, GotoTypes DEF Borrow, AfterAcquire, PoolsTypeOK
    <3>2. CASE ResetFails(c)
      BY <1>1, <3>2 DEF ResetFails, Idle, Conns, PoolsTypeOK
    <3>3. CASE Dial(c)
      <4>1. Reset(Fresh(pool[at[c]].auth)) \in ConnStates
        BY <3>0 DEF Reset, Fresh, ConnStates, Scopes, PoolStates
      <4>2. NewConn(c) \in ConnIds
        BY <1>1, <3>0, <3>3, RoomToDial DEF Dial
      <4> QED BY <1>1, <3>3, <4>1, <4>2, GotoTypes DEF Dial, AfterAcquire, PoolsTypeOK
    <3>4. CASE DialFails(c)
      BY <1>1, <3>4, GotoTypes, RefusalTypes DEF DialFails, PoolsTypeOK
    <3>5. CASE AcquireTimesOut(c)
      BY <1>1, <3>5, GotoTypes DEF AcquireTimesOut, PoolsTypeOK
    <3> QED BY <2>6, <3>1, <3>2, <3>3, <3>4, <3>5 DEF Acquire
  <2>7. CASE Enter(c)
    <3>0. has[c] \in ConnIds /\ conn[has[c]] \in ConnStates /\ has[c] # None
          /\ op[c] \in [access : Accesses, mode : AnyMode] /\ ctx[c] \in Invocations
      BY <2>7, Standing DEF Enter, BeginTx, BeginFails, ApplyScope, ScopeFails
    <3>1. CASE BeginTx(c)
      <4>1. [conn[has[c]] EXCEPT !.tx = TRUE] \in ConnStates
        BY <3>0 DEF ConnStates
      <4> QED BY <1>1, <3>0, <3>1, <4>1, GotoTypes DEF BeginTx, PoolsTypeOK
    <3>2. CASE ApplyScope(c)
      <4>1. Schema(c) \in Scopes
        BY <3>0 DEF Schema, Scopes, Invocations
      <4>2. /\ [conn[has[c]] EXCEPT !.local = Schema(c)] \in ConnStates
            /\ [conn[has[c]] EXCEPT !.sess = Schema(c)] \in ConnStates
        BY <3>0, <4>1 DEF ConnStates
      <4> QED BY <1>1, <3>0, <3>2, <4>2, GotoTypes DEF ApplyScope, PoolsTypeOK
    <3>3. CASE BeginFails(c)
      BY <1>1, <3>0, <3>3, ReleaseTypes, GotoTypes DEF BeginFails, PoolsTypeOK
    <3>4. CASE ScopeFails(c)
      BY <1>1, <3>0, <3>4, ReleaseTypes, GotoTypes DEF ScopeFails, PoolsTypeOK
    <3> QED BY <2>7, <3>1, <3>2, <3>3, <3>4 DEF Enter
  <2>8. CASE HandlerSets(c)
    <3>0. has[c] \in ConnIds /\ conn[has[c]] \in ConnStates
      BY <2>8, Standing DEF HandlerSets
    <3>1. /\ [conn[has[c]] EXCEPT !.local = Stray] \in ConnStates
          /\ [conn[has[c]] EXCEPT !.sess = Stray] \in ConnStates
      BY <3>0 DEF ConnStates, Scopes
    <3> QED BY <1>1, <2>8, <3>0, <3>1, GotoTypes DEF HandlerSets, PoolsTypeOK
  <2>9. CASE Leave(c)
    <3>0. has[c] \in ConnIds /\ conn[has[c]] \in ConnStates /\ has[c] # None
      BY <2>9, Standing DEF Leave, CloseConn, Commit, Rollback
    <3>1. CASE Commit(c)
      <4>1. Committed(conn[has[c]], pc[c] = "strayed") \in ConnStates
        BY <3>0 DEF Committed, ConnStates, Scopes
      <4>2. conn' \in [ConnIds -> ConnStates \cup {None}] /\ has' \in [Callers -> ConnIds \cup {None}]
        <5>1. CASE Release(c, TRUE)
          BY <3>0, <5>1, ReleaseTypes
        <5>2. CASE ~Release(c, TRUE)
          <6> DEFINE k == Committed(conn[has[c]], pc[c] = "strayed")
          <6>1. conn' = [conn EXCEPT ![has[c]] = k] /\ has' = [has EXCEPT ![c] = None]
            BY <3>1, <5>2 DEF Commit
          <6>2. k \in ConnStates
            BY <4>1
          <6> HIDE DEF k
          <6> QED BY <1>1, <3>0, <6>1, <6>2 DEF PoolsTypeOK
        <5> QED BY <5>1, <5>2
      <4> QED BY <1>1, <3>1, <4>2, GotoTypes DEF Commit, PoolsTypeOK
    <3>2. CASE CloseConn(c)
      BY <1>1, <3>0, <3>2, ReleaseTypes, GotoTypes DEF CloseConn, PoolsTypeOK
    <3>3. CASE Rollback(c)
      BY <1>1, <3>0, <3>3, ReleaseTypes, GotoTypes DEF Rollback, PoolsTypeOK
    <3> QED BY <2>9, <3>1, <3>2, <3>3 DEF Leave
  <2>10. CASE Unpin(c)
    BY <1>1, <2>10, GotoTypes DEF Unpin, Released, PoolsTypeOK
  <2>11. CASE ClosePrivate(c)
    BY <1>1, <2>11, GotoTypes DEF ClosePrivate, Released, PoolsTypeOK
  <2> QED BY <1>4, <2>1, <2>2, <2>3, <2>4, <2>5, <2>6, <2>7, <2>8, <2>9, <2>10, <2>11
          DEF CallerMoves
<1> QED BY <1>2, <1>3, <1>4 DEF PoolsMove

-----------------------------------------------------------------------------
(* What the steps of an access do, told once for every invariant below.    *)

LEMMA Owners ==
    ASSUME Holding, NEW c \in Callers, ctx[c] # None
    PROVE  /\ \A access \in Accesses :
                 Cacheable(c, access) => Owner(CacheKey(c)) = Authority(c)
           /\ CacheKey(c) \in CachedPools /\ CacheKey(c)[1] = ctx[c].app
           /\ CacheKey(c) \notin PrivatePools
           /\ <<"private", c>> \in PrivatePools /\ <<"private", c>> \notin CachedPools
           /\ <<"private", c>> # DevPool
           /\ HasProvider(c) /\ ctx[c].prov \notin Keyed =>
                 Owner(<<"private", c>>) = Authority(c)
           /\ DevPool \notin PrivatePools /\ DevPool \notin CachedPools
           /\ plane = "dev" => Owner(DevPool) = Authority(c)
<1>1. ctx[c] \in Invocations /\ CacheKey(c) \in CachedPools
  BY AuthorityKnown DEF Holding
<1>2. ctx[c].src \in {"envelope", "task", "none"} /\ ctx[c].app \in Apps
  BY <1>1 DEF Invocations
<1>3. DevPool \notin PrivatePools /\ DevPool \notin CachedPools
  BY NamesAssumption DEF DevPool, PrivatePools, CachedPools
<1>4. \A p \in CachedPools : p \notin PrivatePools /\ p # DevPool
  BY NamesAssumption DEF DevPool, PrivatePools, CachedPools
<1>5. <<"private", c>> \in PrivatePools /\ <<"private", c>> \notin CachedPools
      /\ <<"private", c>> # DevPool
  BY NamesAssumption DEF DevPool, PrivatePools, CachedPools
<1>6. ASSUME NEW access \in Accesses, Cacheable(c, access)
      PROVE  Owner(CacheKey(c)) = Authority(c)
  <2>1. CASE ctx[c].src = "envelope"
    <3>1. CacheKey(c)[2] = "static"
      BY <2>1 DEF CacheKey
    <3> QED BY <1>1, <1>4, <2>1, <3>1 DEF Owner, Authority
  <2>2. CASE ctx[c].src = "task" /\ ctx[c].prov \in Keyed
    <3>1. CacheKey(c)[2] = ctx[c].prov /\ ctx[c].prov # "static"
      BY <2>2, NamesAssumption DEF CacheKey
    <3> QED BY <1>1, <1>4, <2>2, <3>1 DEF Owner, Authority
  <2> QED BY <1>6, <2>1, <2>2 DEF Cacheable, HasCredential, HasProvider
<1>7. ASSUME HasProvider(c), ctx[c].prov \notin Keyed
      PROVE  Owner(<<"private", c>>) = Authority(c)
  BY <1>5, <1>7 DEF Owner, Authority, HasProvider
<1>8. ASSUME plane = "dev" PROVE Owner(DevPool) = Authority(c)
  <2>1. ctx[c].src = "none"
    BY <1>8 DEF Holding, PoolsTypeOK, Sources
  <2> QED BY <1>3, <2>1 DEF Owner, Authority
<1>9. CacheKey(c)[1] = ctx[c].app
  BY DEF CacheKey
<1> QED BY <1>1, <1>3, <1>4, <1>5, <1>6, <1>7, <1>8, <1>9

(* A pool found or built: c pins p, a pool of c's own authority.  Only an   *)
(* unpinned pool may have been closed for it, and no borrowed connection    *)
(* has changed.                                                             *)
PoolHeld(c, p) ==
    /\ at' = [at EXCEPT ![c] = p]
    /\ pool'[p] # None /\ pool'[p].auth = Authority(c)
    /\ \A q \in Pools : q # p =>
          pool'[q] = pool[q] \/ (pool'[q] = None /\ \A d \in Callers : at[d] # q)
    /\ \A d \in Callers : at[d] # None => pool'[at[d]] = pool[at[d]]
    /\ \A d \in Callers : has[d] # None => conn'[has[d]] = conn[has[d]]
    /\ \A x \in ConnIds : conn'[x] # None =>
          \/ conn'[x] = Fresh(Authority(c)) /\ x[1] = p
          \/ conn[x] # None /\ conn'[x] = conn[x] /\ pool'[x[1]] # None

Reached(c, p, mode) ==
    /\ pc[c] = "handler" /\ p \in Pools
    /\ \E access \in Accesses : op' = [op EXCEPT ![c] = [access |-> access, mode |-> mode]]
    /\ \/ pc' = [pc EXCEPT ![c] = "acquire"] /\ ctx[c].src # "envelope"
       \/ pc' = [pc EXCEPT ![c] = "refresh"] /\ p \in CachedPools
    /\ UNCHANGED <<plane, now, ctx, has, raced, refused>>
    /\ Owner(p) = Authority(c)
    /\ p \in PrivatePools => p = <<"private", c>>
    /\ p \in CachedPools => p[1] = ctx[c].app
    /\ PoolHeld(c, p)

LEMMA NewPoolHeld ==
    ASSUME Holding, NEW c \in Callers, pc[c] = "handler", NEW p \in Pools,
           NEW v, v = None \/ v \in Unpinned, ~Open(p) \/ p = <<"private", c>>,
           NewPool(c, p, v)
    PROVE  PoolHeld(c, p)
<1>1. ctx[c] # None /\ ctx[c] \in Invocations /\ Authority(c) \in Authorities
  BY Standing, AuthorityKnown DEF Holding
<1>2. [tok |-> ctx[c].tok, auth |-> Authority(c)] \in PoolStates
  BY <1>1 DEF PoolStates, Invocations
<1>3. [tok |-> ctx[c].tok, auth |-> Authority(c)] # None
  BY <1>2, NamesAssumption
<1>4. pool'[p] = [tok |-> ctx[c].tok, auth |-> Authority(c)]
  BY DEF NewPool
<1>5. ASSUME NEW q \in Pools, q # p
      PROVE  pool'[q] = pool[q] \/ (pool'[q] = None /\ \A d \in Callers : at[d] # q)
  <2>1. q # None
    BY NamesAssumption
  <2>2. v \in Unpinned => \A d \in Callers : at[d] # v
    BY DEF Unpinned
  <2>3. pool'[q] = IF q = v THEN None ELSE pool[q]
    BY <1>5 DEF NewPool
  <2> QED BY <2>1, <2>2, <2>3
<1>6. ASSUME NEW d \in Callers, at[d] # None
      PROVE  at[d] # p /\ at[d] # v /\ at[d] \in Pools
  <2>1. at[d] \in Pools
    BY <1>6 DEF Holding, PoolsTypeOK
  <2>2. Open(at[d]) /\ (at[d] \in PrivatePools => at[d] = <<"private", d>>)
    BY <1>6 DEF Holding, Rightful
  <2>3. at[d] # p
    <3>1. CASE p = <<"private", c>>
      <4>1. at[c] = None
        BY DEF Holding, Located
      <4>2. d # c
        BY <1>6, <4>1
      <4> QED BY <2>2, <3>1, <4>2 DEF PrivatePools
    <3> QED BY <2>2, <3>1
  <2>4. at[d] # v
    BY <1>6 DEF Unpinned
  <2> QED BY <2>1, <2>3, <2>4
<1>10. ASSUME NEW d \in Callers, has[d] # None
       PROVE  conn'[has[d]] = conn[has[d]]
  <2>1. has[d] \in ConnIds /\ at[d] # None /\ has[d][1] = at[d]
    BY <1>10, Borrowed
  <2> QED BY <1>6, <2>1 DEF NewPool
<1>11. ASSUME NEW d \in Callers, at[d] # None
       PROVE  pool'[at[d]] = pool[at[d]]
  BY <1>6, <1>11 DEF NewPool
<1>7. ASSUME NEW x \in ConnIds, conn'[x] # None
      PROVE  \/ conn'[x] = Fresh(Authority(c)) /\ x[1] = p
             \/ conn[x] # None /\ conn'[x] = conn[x] /\ pool'[x[1]] # None
  <2>1. CASE x = <<p, 1>>
    BY <2>1 DEF NewPool
  <2>2. CASE x # <<p, 1>>
    <3>1. x[1] # v /\ conn'[x] = conn[x]
      BY <1>7, <2>2 DEF NewPool
    <3>2. x[1] \in Pools /\ pool[x[1]] # None
      BY <1>7, <3>1 DEF Holding, PoolsOwned, Open, ConnIds
    <3>3. pool'[x[1]] # None
      BY <1>3, <3>1, <3>2 DEF NewPool
    <3> QED BY <1>7, <3>1, <3>3
  <2> QED BY <2>1, <2>2
<1>8. pool'[p].auth = Authority(c)
  BY <1>4
<1>9. at' = [at EXCEPT ![c] = p]
  BY DEF NewPool
<1> QED BY <1>3, <1>4, <1>5, <1>7, <1>8, <1>9, <1>10, <1>11 DEF PoolHeld

LEMMA ReachIsReached ==
    ASSUME Holding, NEW c \in Callers, NEW access \in Accesses, NEW mode \in AnyMode,
           Reach(c, access, mode)
    PROVE  \E p \in Pools : Reached(c, p, mode)
<1>1. pc[c] = "handler" /\ op' = [op EXCEPT ![c] = [access |-> access, mode |-> mode]]
      /\ UNCHANGED <<plane, now, ctx, has, raced, refused>>
  BY DEF Reach, GetHit, GetMiss, GetPrivate, OpenDevDB, UseDevDB, Start
<1>2. ctx[c] # None /\ ctx[c] \in Invocations /\ Authority(c) \in Authorities
      /\ CacheKey(c) \in Pools /\ <<"private", c>> \in Pools /\ DevPool \in Pools
  BY <1>1, Standing, AuthorityKnown DEF Holding, Pools, PrivatePools
<1>3. pc \in [Callers -> Locations]
  BY DEF Holding, PoolsTypeOK
<1>4. CASE GetHit(c, access, mode)
  <2>1. Cacheable(c, access) /\ Open(CacheKey(c)) /\ at' = [at EXCEPT ![c] = CacheKey(c)]
        /\ pool' = pool /\ conn' = conn
    BY <1>4 DEF GetHit
  <2>2. Owner(CacheKey(c)) = Authority(c) /\ CacheKey(c) \in CachedPools
        /\ CacheKey(c)[1] = ctx[c].app /\ CacheKey(c) \notin PrivatePools
    BY <1>2, <2>1, Owners
  <2>3. pool[CacheKey(c)].auth = Authority(c)
    BY <1>2, <2>1, <2>2 DEF Holding, PoolsOwned
  <2>4. \A x \in ConnIds : conn[x] # None => pool[x[1]] # None
    BY DEF Holding, PoolsOwned, Open
  <2>5. \/ pc' = [pc EXCEPT ![c] = "acquire"] /\ ctx[c].src # "envelope"
        \/ pc' = [pc EXCEPT ![c] = "refresh"]
    BY <1>4 DEF GetHit, Goto, AfterGet, HasProvider
  <2>6. PoolHeld(c, CacheKey(c))
    BY <1>2, <2>1, <2>3, <2>4 DEF PoolHeld, Open
  <2>9. Reached(c, CacheKey(c), mode)
    BY <1>1, <1>2, <2>2, <2>5, <2>6 DEF Reached
  <2> QED BY <1>2, <2>9
<1>5. CASE GetMiss(c, access, mode)
  <2>1. Cacheable(c, access) /\ ~Open(CacheKey(c))
    BY <1>5 DEF GetMiss
  <2>2. Owner(CacheKey(c)) = Authority(c) /\ CacheKey(c) \in CachedPools
        /\ CacheKey(c)[1] = ctx[c].app /\ CacheKey(c) \notin PrivatePools
    BY <1>2, <2>1, Owners
  <2>3. PICK v \in Victims : NewPool(c, CacheKey(c), v)
    BY <1>5 DEF GetMiss
  <2>4. v = None \/ v \in Unpinned
    BY <2>3 DEF Victims
  <2>5. \/ pc' = [pc EXCEPT ![c] = "acquire"] /\ ctx[c].src # "envelope"
        \/ pc' = [pc EXCEPT ![c] = "refresh"]
    BY <1>5 DEF GetMiss, Goto, AfterGet, HasProvider
  <2>6. PoolHeld(c, CacheKey(c))
    BY <1>1, <1>2, <2>1, <2>3, <2>4, NewPoolHeld
  <2>9. Reached(c, CacheKey(c), mode)
    BY <1>1, <1>2, <2>2, <2>5, <2>6 DEF Reached
  <2> QED BY <1>2, <2>9
<1>6. CASE GetPrivate(c, access, mode)
  <2>1. HasProvider(c) /\ ctx[c].prov \notin Keyed /\ NewPool(c, <<"private", c>>, None)
        /\ pc' = [pc EXCEPT ![c] = "acquire"]
    BY <1>6 DEF GetPrivate, Cacheable, Goto
  <2>2. Owner(<<"private", c>>) = Authority(c) /\ <<"private", c>> \notin CachedPools
    BY <1>2, <2>1, Owners
  <2>3. ctx[c].src # "envelope"
    BY <2>1 DEF HasProvider
  <2>4. PoolHeld(c, <<"private", c>>)
    BY <1>1, <1>2, <2>1, NewPoolHeld
  <2>9. Reached(c, <<"private", c>>, mode)
    BY <1>1, <1>2, <2>1, <2>2, <2>3, <2>4 DEF Reached
  <2> QED BY <1>2, <2>9
<1>7. CASE OpenDevDB(c, access, mode)
  <2>1. plane = "dev" /\ devDB = "new" /\ NewPool(c, DevPool, None)
        /\ pc' = [pc EXCEPT ![c] = "acquire"]
    BY <1>7 DEF OpenDevDB, Goto
  <2>2. ~Open(DevPool)
    BY <2>1 DEF Holding, DevOpen
  <2>3. Owner(DevPool) = Authority(c) /\ DevPool \notin CachedPools /\ DevPool \notin PrivatePools
    BY <1>2, <2>1, Owners
  <2>4. ctx[c].src # "envelope"
    BY <1>2, <2>1 DEF Holding, PoolsTypeOK, Sources
  <2>5. PoolHeld(c, DevPool)
    BY <1>1, <1>2, <2>1, <2>2, NewPoolHeld
  <2>9. Reached(c, DevPool, mode)
    BY <1>1, <1>2, <2>1, <2>3, <2>4, <2>5 DEF Reached
  <2> QED BY <1>2, <2>9
<1>8. CASE UseDevDB(c, access, mode)
  <2>1. devDB = "open" /\ at' = [at EXCEPT ![c] = DevPool] /\ pool' = pool /\ conn' = conn
        /\ pc' = [pc EXCEPT ![c] = "acquire"]
    BY <1>8 DEF UseDevDB, Goto
  <2>2. plane = "dev" /\ Open(DevPool)
    BY <2>1 DEF Holding, DevOpen
  <2>3. Owner(DevPool) = Authority(c) /\ DevPool \notin CachedPools /\ DevPool \notin PrivatePools
    BY <1>2, <2>2, Owners
  <2>4. ctx[c].src # "envelope"
    BY <1>2, <2>2 DEF Holding, PoolsTypeOK, Sources
  <2>5. pool[DevPool].auth = Authority(c)
    BY <1>2, <2>2, <2>3 DEF Holding, PoolsOwned
  <2>6. \A x \in ConnIds : conn[x] # None => pool[x[1]] # None
    BY DEF Holding, PoolsOwned, Open
  <2>7. PoolHeld(c, DevPool)
    BY <1>2, <2>1, <2>2, <2>5, <2>6 DEF PoolHeld, Open
  <2>9. Reached(c, DevPool, mode)
    BY <1>1, <1>2, <2>1, <2>3, <2>4, <2>7 DEF Reached
  <2> QED BY <1>2, <2>9
<1> QED BY <1>4, <1>5, <1>6, <1>7, <1>8 DEF Reach

(* A connection nobody held is c's: it carries the pool's credential, and   *)
(* PrepareConn has reset it.                                                *)
Lent(c, x, k) ==
    /\ pc[c] = "acquire" /\ x \in ConnIds /\ x[1] = at[c] /\ k \in ConnStates
    /\ \A d \in Callers : has[d] # x
    /\ k.auth = Owner(at[c]) /\ k.sess = None
    /\ \/ k.local = None /\ ~k.tx
       \/ conn[x] # None /\ k.local = conn[x].local /\ k.tx = conn[x].tx
    /\ has' = [has EXCEPT ![c] = x] /\ conn' = [conn EXCEPT ![x] = k]
    /\ pc' = [pc EXCEPT ![c] = AfterAcquire(c)]
    /\ UNCHANGED <<plane, now, ctx, op, pool, at, raced, devDB, refused>>

LEMMA AcquireIsLent ==
    ASSUME Holding, NEW c \in Callers, Borrow(c) \/ Dial(c)
    PROVE  \E x \in ConnIds, k \in ConnStates : Lent(c, x, k)
<1>1. pc[c] = "acquire" /\ pc' = [pc EXCEPT ![c] = AfterAcquire(c)]
      /\ UNCHANGED <<plane, now, ctx, op, pool, at, raced, devDB, refused>>
  BY DEF Borrow, Dial, Goto
<1>2. at[c] \in Pools /\ pool[at[c]] \in PoolStates /\ Open(at[c])
  BY <1>1, Standing
<1>3. pool[at[c]].auth = Owner(at[c])
  BY <1>2 DEF Holding, PoolsOwned
<1>4. CASE Borrow(c)
  <2>1. PICK x \in Idle(at[c]) : has' = [has EXCEPT ![c] = x]
                                  /\ conn' = [conn EXCEPT ![x] = Reset(conn[x])]
    BY <1>4 DEF Borrow
  <2>2. x \in ConnIds /\ x[1] = at[c] /\ conn[x] # None /\ \A d \in Callers : has[d] # x
    BY DEF Idle, Conns
  <2>3. conn[x] \in ConnStates
    BY <2>2 DEF Holding, PoolsTypeOK
  <2>4. conn[x].auth = Owner(at[c])
    BY <2>2 DEF Holding, PoolsOwned
  <2> DEFINE k == Reset(conn[x])
  <2>5. k \in ConnStates /\ k.auth = Owner(at[c]) /\ k.sess = None
        /\ k.local = conn[x].local /\ k.tx = conn[x].tx
    BY <2>3, <2>4 DEF Reset, ConnStates, Scopes
  <2>6. conn' = [conn EXCEPT ![x] = k]
    BY <2>1
  <2> HIDE DEF k
  <2>7. Lent(c, x, k)
    BY <1>1, <2>1, <2>2, <2>5, <2>6 DEF Lent
  <2> QED BY <2>2, <2>5, <2>7
<1>5. CASE Dial(c)
  <2> DEFINE k == Reset(Fresh(pool[at[c]].auth))
             x == NewConn(c)
  <2>1. x \in ConnIds /\ x[1] = at[c] /\ conn[x] = None
    BY <1>2, <1>5, RoomToDial DEF Dial, Holding
  <2>2. \A d \in Callers : has[d] # x
    <3> HIDE DEF x
    <3>1. x # None
      BY <2>1, NamesAssumption
    <3> QED BY <2>1, <3>1 DEF Holding, Borrowing
  <2>3. k \in ConnStates /\ k.auth = Owner(at[c]) /\ k.sess = None /\ k.local = None /\ ~k.tx
    BY <1>2, <1>3 DEF Reset, Fresh, ConnStates, Scopes, PoolStates
  <2>4. has' = [has EXCEPT ![c] = x] /\ conn' = [conn EXCEPT ![x] = k]
    BY <1>5 DEF Dial
  <2> HIDE DEF k, x
  <2>5. Lent(c, x, k)
    BY <1>1, <2>1, <2>2, <2>3, <2>4 DEF Lent
  <2> QED BY <2>1, <2>3, <2>5
<1> QED BY <1>4, <1>5

(* c gives its connection back, out of its transaction, or it is destroyed. *)
Returned(c, k) ==
    /\ has[c] # None /\ pc[c] \in {"begin", "scope", "use", "strayed"}
    /\ \/ k = None
       \/ k \in ConnStates /\ k.auth = conn[has[c]].auth /\ ~k.tx /\ k.local = None
    /\ has' = [has EXCEPT ![c] = None] /\ conn' = [conn EXCEPT ![has[c]] = k]
    /\ pc' = [pc EXCEPT ![c] = "unpin"]
    /\ UNCHANGED <<plane, now, ctx, op, pool, at, raced, devDB, refused>>

LEMMA LeaveIsReturned ==
    ASSUME Holding, NEW c \in Callers, BeginFails(c) \/ ScopeFails(c) \/ Leave(c)
    PROVE  \E k : Returned(c, k)
<1>1. pc[c] \in {"begin", "scope", "use", "strayed"} /\ pc' = [pc EXCEPT ![c] = "unpin"]
      /\ UNCHANGED <<plane, now, ctx, op, pool, at, raced, devDB, refused>>
  BY DEF BeginFails, ScopeFails, Leave, CloseConn, Commit, Rollback, Goto
<1>2. has[c] # None /\ conn[has[c]] \in ConnStates
  BY <1>1, Standing
<1>3. ASSUME NEW broken \in BOOLEAN, Release(c, broken)
      PROVE  \E k : Returned(c, k)
  <2> DEFINE k == IF broken THEN None ELSE [conn[has[c]] EXCEPT !.tx = FALSE, !.local = None]
  <2>1. k = None \/ (k \in ConnStates /\ k.auth = conn[has[c]].auth /\ ~k.tx /\ k.local = None)
    BY <1>2 DEF ConnStates, Scopes
  <2>2. has' = [has EXCEPT ![c] = None] /\ conn' = [conn EXCEPT ![has[c]] = k]
    BY <1>3 DEF Release
  <2> HIDE DEF k
  <2>3. Returned(c, k)
    BY <1>1, <1>2, <2>1, <2>2 DEF Returned
  <2> QED BY <2>3
<1>4. CASE Commit(c) /\ ~Release(c, TRUE)
  <2> DEFINE k == Committed(conn[has[c]], pc[c] = "strayed")
  <2>1. k \in ConnStates /\ k.auth = conn[has[c]].auth /\ ~k.tx /\ k.local = None
    BY <1>2 DEF Committed, ConnStates, Scopes
  <2>2. has' = [has EXCEPT ![c] = None] /\ conn' = [conn EXCEPT ![has[c]] = k]
    BY <1>4 DEF Commit
  <2> HIDE DEF k
  <2>3. Returned(c, k)
    BY <1>1, <1>2, <2>1, <2>2 DEF Returned
  <2> QED BY <2>3
<1> QED BY <1>3, <1>4 DEF BeginFails, ScopeFails, Leave, CloseConn, Commit, Rollback

(* c works on the connection it holds.                                     *)
Worked(c, k, l) ==
    /\ has[c] # None /\ k \in ConnStates /\ k.auth = conn[has[c]].auth
    /\ conn' = [conn EXCEPT ![has[c]] = k]
    /\ pc' = [pc EXCEPT ![c] = l]
    /\ UNCHANGED <<plane, now, ctx, op, pool, at, has, raced, devDB, refused>>

LEMMA WorkIsWorked ==
    ASSUME Holding, NEW c \in Callers
    PROVE  /\ BeginTx(c) =>
                 /\ pc[c] = "begin"
                 /\ Worked(c, [conn[has[c]] EXCEPT !.tx = TRUE], "scope")
           /\ ApplyScope(c) =>
                 /\ pc[c] = "scope"
                 /\ \E k : /\ Worked(c, k, "use") /\ k.tx = conn[has[c]].tx
                           /\ IF Schema(c) = None THEN k = conn[has[c]]
                              ELSE IF k.tx THEN k.local = Schema(c) ELSE k.sess = Schema(c)
           /\ HandlerSets(c) =>
                 /\ pc[c] = "use"
                 /\ \E k : Worked(c, k, "strayed") /\ k.tx = conn[has[c]].tx
<1>1. ASSUME pc[c] \in {"begin", "scope", "use"}
      PROVE  /\ has[c] # None /\ has[c] \in ConnIds /\ conn[has[c]] \in ConnStates
             /\ Schema(c) \in Scopes /\ conn \in [ConnIds -> ConnStates \cup {None}]
  <2>1. /\ has[c] # None /\ has[c] \in ConnIds /\ conn[has[c]] \in ConnStates
        /\ op[c] \in [access : Accesses, mode : AnyMode] /\ ctx[c] \in Invocations
    BY <1>1, Standing
  <2> QED BY <2>1 DEF Schema, Scopes, Invocations, Holding, PoolsTypeOK
<1>2. ASSUME BeginTx(c)
      PROVE  pc[c] = "begin" /\ Worked(c, [conn[has[c]] EXCEPT !.tx = TRUE], "scope")
  <2> DEFINE k == [conn[has[c]] EXCEPT !.tx = TRUE]
  <2>1. pc[c] = "begin"
    BY <1>2 DEF BeginTx
  <2>2. k \in ConnStates /\ k.auth = conn[has[c]].auth
    BY <1>1, <2>1 DEF ConnStates
  <2>3. conn' = [conn EXCEPT ![has[c]] = k]
    BY <1>2 DEF BeginTx
  <2> HIDE DEF k
  <2>4. Worked(c, k, "scope")
    BY <1>1, <1>2, <2>1, <2>2, <2>3 DEF BeginTx, Worked, Goto
  <2> QED BY <2>1, <2>4 DEF k
<1>3. ASSUME ApplyScope(c)
      PROVE  /\ pc[c] = "scope"
             /\ \E k : /\ Worked(c, k, "use") /\ k.tx = conn[has[c]].tx
                       /\ IF Schema(c) = None THEN k = conn[has[c]]
                          ELSE IF k.tx THEN k.local = Schema(c) ELSE k.sess = Schema(c)
  <2> DEFINE k == IF Schema(c) = None THEN conn[has[c]]
                  ELSE IF conn[has[c]].tx THEN [conn[has[c]] EXCEPT !.local = Schema(c)]
                  ELSE [conn[has[c]] EXCEPT !.sess = Schema(c)]
  <2>1. pc[c] = "scope"
    BY <1>3 DEF ApplyScope
  <2>2. k \in ConnStates /\ k.auth = conn[has[c]].auth /\ k.tx = conn[has[c]].tx
        /\ IF Schema(c) = None THEN k = conn[has[c]]
           ELSE IF k.tx THEN k.local = Schema(c) ELSE k.sess = Schema(c)
    BY <1>1, <2>1 DEF ConnStates
  <2>3. conn' = [conn EXCEPT ![has[c]] = k]
    BY <1>1, <1>3, <2>1 DEF ApplyScope
  <2> HIDE DEF k
  <2>4. Worked(c, k, "use")
    BY <1>1, <1>3, <2>1, <2>2, <2>3 DEF ApplyScope, Worked, Goto
  <2> QED BY <2>1, <2>2, <2>4
<1>4. ASSUME HandlerSets(c)
      PROVE  pc[c] = "use" /\ \E k : Worked(c, k, "strayed") /\ k.tx = conn[has[c]].tx
  <2> DEFINE k == IF conn[has[c]].tx THEN [conn[has[c]] EXCEPT !.local = Stray]
                  ELSE [conn[has[c]] EXCEPT !.sess = Stray]
  <2>1. pc[c] = "use"
    BY <1>4 DEF HandlerSets
  <2>2. k \in ConnStates /\ k.auth = conn[has[c]].auth /\ k.tx = conn[has[c]].tx
    BY <1>1, <2>1 DEF ConnStates, Scopes
  <2>3. conn' = [conn EXCEPT ![has[c]] = k]
    BY <1>1, <1>4, <2>1 DEF HandlerSets
  <2> HIDE DEF k
  <2>4. Worked(c, k, "strayed")
    BY <1>1, <1>4, <2>1, <2>2, <2>3 DEF HandlerSets, Worked, Goto
  <2> QED BY <2>1, <2>2, <2>4
<1> QED BY <1>2, <1>3, <1>4

(* A connection nobody holds is closed.                                    *)
Lapsed(p, x) ==
    /\ x \in ConnIds /\ x[1] = p /\ conn[x] # None /\ \A d \in Callers : has[d] # x
    /\ conn' = [conn EXCEPT ![x] = None]

LEMMA ExpiryIsLapsed ==
    /\ ConnExpires => \E p \in Pools : \E x : Lapsed(p, x)
    /\ \A c \in Callers : ResetFails(c) => \E x : Lapsed(at[c], x)
BY DEF ConnExpires, ResetFails, Lapsed, Idle, Conns

-----------------------------------------------------------------------------
(* Who holds what, kept by every step.                                     *)

LEMMA Shapes ==
    ASSUME Holding
    PROVE  /\ pc \in [Callers -> Locations]
           /\ ctx \in [Callers -> Invocations \cup {None}]
           /\ op \in [Callers -> [access : Accesses, mode : AnyMode] \cup {None}]
           /\ at \in [Callers -> Pools \cup {None}]
           /\ has \in [Callers -> ConnIds \cup {None}]
           /\ conn \in [ConnIds -> ConnStates \cup {None}]
           /\ pool \in [Pools -> PoolStates \cup {None}]
           /\ raced \in [Callers -> BOOLEAN]
           /\ \A c \in Callers : Located(c) /\ Rightful(c) /\ Borrowing(c)
           /\ \A x \in ConnIds : x[1] \in Pools
           /\ None \notin Pools /\ None \notin ConnIds /\ None \notin ConnStates
BY NamesAssumption DEF Holding, PoolsTypeOK, AnyMode, ConnIds

LEMMA ReachedHolds ==
    ASSUME Holding, NEW c \in Callers, NEW p \in Pools, NEW mode \in AnyMode,
           Reached(c, p, mode)
    PROVE  /\ \A d \in Callers : Located(d)' /\ Rightful(d)' /\ Borrowing(d)'
           /\ Exclusive' /\ PoolsOwned'
<1>1. PICK access \in Accesses : op' = [op EXCEPT ![c] = [access |-> access, mode |-> mode]]
  BY DEF Reached
<1>2. [access |-> access, mode |-> mode] # None
  BY NamesAssumption DEF AnyMode
<1>3. p # None /\ at[c] = None /\ has[c] = None /\ ctx[c] # None /\ pc[c] = "handler"
  BY Shapes DEF Reached, Located
<1>4. at' = [at EXCEPT ![c] = p] /\ has' = has /\ ctx' = ctx
  BY DEF Reached, PoolHeld
<1>5. \A d \in Callers : Authority(d)' = Authority(d)
  BY <1>4 DEF Authority
<1>6. ASSUME NEW d \in Callers PROVE Located(d)'
  BY <1>1, <1>2, <1>3, <1>4, Shapes DEF Reached, Located
<1>7. ASSUME NEW d \in Callers PROVE Rightful(d)'
  <2>1. CASE d = c
    BY <1>3, <1>4, <1>5, <2>1, Shapes DEF Reached, PoolHeld, Rightful, Open
  <2>2. CASE d # c
    <3>1. at'[d] = at[d] /\ pc'[d] = pc[d] /\ Rightful(d) /\ ctx'[d] = ctx[d]
      BY <1>4, <2>2, Shapes DEF Reached
    <3>2. at[d] # None => Open(at[d])'
      <4>1. CASE at[d] = p
        BY <4>1, <1>4, <3>1 DEF Reached, PoolHeld, Open
      <4>2. CASE at[d] # p /\ at[d] # None
        BY <4>2, <3>1, Shapes DEF PoolHeld, Reached, Open, Rightful
      <4> QED BY <4>1, <4>2
    <3> QED BY <3>1, <3>2, <1>5 DEF Rightful, Open
  <2> QED BY <2>1, <2>2
<1>8. ASSUME NEW d \in Callers PROVE Borrowing(d)'
  BY <1>3, <1>4, Shapes DEF Reached, PoolHeld, Borrowing
<1>9. Exclusive'
  BY <1>4 DEF Exclusive, Holding
<1>10. PoolsOwned'
  <2>1. Owner(p) = Authority(c) /\ pool'[p].auth = Authority(c) /\ pool'[p] # None
    BY DEF Reached, PoolHeld
  <2>2. ASSUME NEW q \in Pools, Open(q)' PROVE pool'[q].auth = Owner(q)
    BY <2>1, <2>2 DEF Reached, PoolHeld, Holding, PoolsOwned, Open
  <2>3. ASSUME NEW x \in ConnIds, conn'[x] # None
        PROVE  Open(x[1])' /\ conn'[x].auth = Owner(x[1])
    BY <2>1, <2>3 DEF Reached, PoolHeld, Holding, PoolsOwned, Open, Fresh
  <2> QED BY <2>2, <2>3 DEF PoolsOwned
<1> QED BY <1>6, <1>7, <1>8, <1>9, <1>10

LEMMA LentHolds ==
    ASSUME Holding, NEW c \in Callers, NEW x \in ConnIds, NEW k \in ConnStates, Lent(c, x, k)
    PROVE  /\ \A d \in Callers : Located(d)' /\ Rightful(d)' /\ Borrowing(d)'
           /\ Exclusive' /\ PoolsOwned'
<1>1. has[c] = None /\ at[c] \in Pools /\ at[c] # None /\ Open(at[c]) /\ x # None /\ k # None
      /\ op[c] # None /\ ctx[c] # None
  BY Standing, Shapes DEF Lent
<1>2. at' = at /\ ctx' = ctx /\ op' = op /\ pool' = pool /\ has' = [has EXCEPT ![c] = x]
      /\ conn' = [conn EXCEPT ![x] = k] /\ pc' = [pc EXCEPT ![c] = AfterAcquire(c)]
      /\ pc[c] = "acquire" /\ x[1] = at[c] /\ k.auth = Owner(at[c])
      /\ \A d \in Callers : has[d] # x
  BY DEF Lent
<1>3. \A d \in Callers : Authority(d)' = Authority(d)
  BY <1>2 DEF Authority
<1>4. ASSUME NEW d \in Callers PROVE Located(d)'
  BY <1>1, <1>2, Shapes DEF Located, AfterAcquire
<1>5. ASSUME NEW d \in Callers PROVE Rightful(d)'
  BY <1>1, <1>2, <1>3, Shapes DEF Rightful, AfterAcquire, Open
<1>6. ASSUME NEW d \in Callers PROVE Borrowing(d)'
  BY <1>1, <1>2, Shapes DEF Borrowing
<1>7. Exclusive'
  BY <1>1, <1>2, Shapes DEF Exclusive, Holding
<1>8. PoolsOwned'
  BY <1>1, <1>2, Shapes DEF PoolsOwned, Holding, Open
<1> QED BY <1>4, <1>5, <1>6, <1>7, <1>8

LEMMA ReturnedHolds ==
    ASSUME Holding, NEW c \in Callers, NEW k, Returned(c, k)
    PROVE  /\ \A d \in Callers : Located(d)' /\ Rightful(d)' /\ Borrowing(d)'
           /\ Exclusive' /\ PoolsOwned'
<1>1. has[c] \in ConnIds /\ has[c] # None /\ conn[has[c]] # None
      /\ at[c] \in Pools /\ at[c] # None /\ op[c] # None /\ ctx[c] # None
  BY Standing, Shapes DEF Returned, Borrowing
<1>2. at' = at /\ ctx' = ctx /\ op' = op /\ pool' = pool /\ has' = [has EXCEPT ![c] = None]
      /\ conn' = [conn EXCEPT ![has[c]] = k] /\ pc' = [pc EXCEPT ![c] = "unpin"]
      /\ (k # None => k.auth = conn[has[c]].auth)
  BY DEF Returned
<1>3. \A d \in Callers : Authority(d)' = Authority(d)
  BY <1>2 DEF Authority
<1>4. ASSUME NEW d \in Callers PROVE Located(d)'
  BY <1>1, <1>2, Shapes DEF Located
<1>5. ASSUME NEW d \in Callers PROVE Rightful(d)'
  BY <1>1, <1>2, <1>3, Shapes DEF Rightful, Open
<1>6. ASSUME NEW d \in Callers PROVE Borrowing(d)'
  <2>1. d # c /\ has[d] # None => has[d] # has[c]
    BY <1>1 DEF Holding, Exclusive
  <2> QED BY <1>1, <1>2, <2>1, Shapes DEF Borrowing
<1>7. Exclusive'
  BY <1>1, <1>2, Shapes DEF Exclusive, Holding
<1>8. PoolsOwned'
  BY <1>1, <1>2, Shapes DEF PoolsOwned, Holding, Open
<1> QED BY <1>4, <1>5, <1>6, <1>7, <1>8

LEMMA WorkedHolds ==
    ASSUME Holding, NEW c \in Callers, NEW k, NEW l \in {"scope", "use", "strayed"},
           Worked(c, k, l)
    PROVE  /\ \A d \in Callers : Located(d)' /\ Rightful(d)' /\ Borrowing(d)'
           /\ Exclusive' /\ PoolsOwned'
<1>1. has[c] \in ConnIds /\ has[c] # None /\ conn[has[c]] # None /\ k # None
      /\ at[c] \in Pools /\ at[c] # None /\ op[c] # None /\ ctx[c] # None
  BY Borrowed, Shapes DEF Worked, Located
<1>2. at' = at /\ ctx' = ctx /\ op' = op /\ pool' = pool /\ has' = has
      /\ conn' = [conn EXCEPT ![has[c]] = k] /\ pc' = [pc EXCEPT ![c] = l]
      /\ k.auth = conn[has[c]].auth
  BY DEF Worked
<1>3. \A d \in Callers : Authority(d)' = Authority(d)
  BY <1>2 DEF Authority
<1>4. ASSUME NEW d \in Callers PROVE Located(d)'
  BY <1>1, <1>2, Shapes DEF Located
<1>5. ASSUME NEW d \in Callers PROVE Rightful(d)'
  BY <1>1, <1>2, <1>3, Shapes DEF Rightful, Open
<1>6. ASSUME NEW d \in Callers PROVE Borrowing(d)'
  BY <1>1, <1>2, Shapes DEF Borrowing
<1>7. Exclusive'
  BY <1>2 DEF Exclusive, Holding
<1>8. PoolsOwned'
  BY <1>1, <1>2, Shapes DEF PoolsOwned, Holding, Open
<1> QED BY <1>4, <1>5, <1>6, <1>7, <1>8

LEMMA LapsedHolds ==
    ASSUME Holding, NEW p, NEW x, Lapsed(p, x),
           UNCHANGED <<ctx, op, pool, at, has>>,
           \/ UNCHANGED pc
           \/ \E c \in Callers : pc[c] = "acquire" /\ pc' = [pc EXCEPT ![c] = "unpin"]
    PROVE  /\ \A d \in Callers : Located(d)' /\ Rightful(d)' /\ Borrowing(d)'
           /\ Exclusive' /\ PoolsOwned'
<1>1. x \in ConnIds /\ conn' = [conn EXCEPT ![x] = None] /\ \A d \in Callers : has[d] # x
  BY DEF Lapsed
<1>2. \A d \in Callers : Authority(d)' = Authority(d)
  BY DEF Authority
<1>3. ASSUME NEW d \in Callers PROVE Located(d)'
  <2>1. ctx' = ctx /\ op' = op /\ at' = at /\ has' = has
    OBVIOUS
  <2>2. CASE pc' = pc
    BY <2>1, <2>2, Shapes DEF Located
  <2>3. ASSUME NEW c \in Callers, pc[c] = "acquire", pc' = [pc EXCEPT ![c] = "unpin"]
        PROVE  Located(d)'
    BY <2>1, <2>3, Shapes DEF Located
  <2> QED BY <2>2, <2>3
<1>4. ASSUME NEW d \in Callers PROVE Rightful(d)'
  BY <1>2, Shapes DEF Rightful, Open
<1>5. ASSUME NEW d \in Callers PROVE Borrowing(d)'
  BY <1>1, Shapes DEF Borrowing
<1>6. Exclusive'
  BY DEF Exclusive, Holding
<1>7. PoolsOwned'
  BY <1>1, Shapes DEF PoolsOwned, Holding, Open
<1> QED BY <1>3, <1>4, <1>5, <1>6, <1>7

LEMMA DevOpenKept == Holding /\ PoolsMove => DevOpen'
<1> SUFFICES ASSUME Holding, PoolsMove PROVE DevOpen'
  OBVIOUS
<1>1. DevOpen /\ DevPool \in Pools /\ DevPool \notin CachedPools /\ DevPool \notin PrivatePools
  BY NamesAssumption DEF Holding, Pools, DevPool, CachedPools, PrivatePools
<1> DEFINE Same == devDB' = devDB /\ pool'[DevPool] = pool[DevPool] /\ plane' = plane
<1>2. Same => DevOpen'
  BY <1>1 DEF DevOpen, Open
<1>3. ASSUME NEW c \in Callers, CallerMoves(c) PROVE DevOpen'
  <2>1. CASE Unreachable(c)
    BY <1>1, <2>1 DEF Unreachable, ResolveFails, GetFails, DevDBFails, poolVars, DevOpen, Open
  <2>2. ASSUME NEW access \in Accesses, NEW mode \in AnyMode, Reach(c, access, mode)
        PROVE  DevOpen'
    <3>1. pc[c] = "handler"
      BY <2>2 DEF Reach, GetHit, GetMiss, GetPrivate, OpenDevDB, UseDevDB, Start
    <3>2. ctx[c] # None /\ ctx[c] \in Invocations
      BY <3>1, Standing
    <3>3. CacheKey(c) # DevPool /\ <<"private", c>> # DevPool
      BY <1>1, <3>2, Owners
    <3>4. ASSUME NEW v, NEW p, p # DevPool, v # DevPool, NewPool(c, p, v)
          PROVE  pool'[DevPool] = pool[DevPool]
      BY <1>1, <3>4 DEF NewPool
    <3>5. None # DevPool
      BY <1>1, NamesAssumption
    <3>6. CASE GetHit(c, access, mode) \/ UseDevDB(c, access, mode)
      BY <1>2, <3>6 DEF GetHit, UseDevDB
    <3>7. CASE GetMiss(c, access, mode)
      <4>1. PICK v \in Victims : NewPool(c, CacheKey(c), v)
        BY <3>7 DEF GetMiss
      <4>2. v # DevPool
        BY <1>1, <3>5 DEF Victims, Unpinned, OpenCached
      <4> QED BY <1>2, <3>3, <3>4, <3>7, <4>1, <4>2 DEF GetMiss
    <3>8. CASE GetPrivate(c, access, mode)
      BY <1>2, <3>3, <3>4, <3>5, <3>8 DEF GetPrivate
    <3>9. CASE OpenDevDB(c, access, mode)
      <4>1. [tok |-> ctx[c].tok, auth |-> Authority(c)] # None
        <5>1. [tok |-> ctx[c].tok, auth |-> Authority(c)] \in PoolStates
          BY <3>2, AuthorityKnown, NamesAssumption DEF Holding, PoolStates, Invocations
        <5> QED BY <5>1, NamesAssumption
      <4> QED BY <1>1, <3>9, <4>1 DEF OpenDevDB, NewPool, DevOpen, Open
    <3> QED BY <2>2, <3>6, <3>7, <3>8, <3>9 DEF Reach
  <2>3. CASE Refresh(c)
    <3>1. pc[c] = "refresh" /\ at[c] # None /\ at[c] \in CachedPools
      BY <2>3, Standing, Shapes DEF Refresh, Rightful
    <3> QED BY <1>1, <1>2, <2>3, <3>1 DEF Refresh
  <2>4. CASE ClosePrivate(c)
    BY <1>1, <1>2, <2>4 DEF ClosePrivate
  <2>5. CASE Invoke(c) \/ Return(c) \/ Acquire(c) \/ Enter(c) \/ HandlerSets(c) \/ Leave(c) \/ Unpin(c)
    BY <1>2, <2>5 DEF Invoke, Return, Acquire, Borrow, ResetFails, Dial, DialFails, AcquireTimesOut,
       Enter, BeginTx, BeginFails, ApplyScope, ScopeFails, HandlerSets, Leave, CloseConn, Commit,
       Rollback, Unpin
  <2> QED BY <1>3, <2>1, <2>2, <2>3, <2>4, <2>5 DEF CallerMoves
<1>4. CASE Tick \/ ConnExpires
  BY <1>2, <1>4 DEF Tick, ConnExpires
<1> QED BY <1>3, <1>4 DEF PoolsMove

(* The steps of a caller that are none of those above.                     *)
LEMMA OthersHold ==
    ASSUME Holding, NEW c \in Callers,
           \/ Invoke(c) \/ Return(c) \/ Unreachable(c) \/ Refresh(c)
           \/ DialFails(c) \/ AcquireTimesOut(c) \/ Unpin(c) \/ ClosePrivate(c)
    PROVE  /\ \A d \in Callers : Located(d)' /\ Rightful(d)' /\ Borrowing(d)'
           /\ Exclusive' /\ PoolsOwned'
<1> DEFINE Held == /\ \A d \in Callers : Located(d)' /\ Rightful(d)' /\ Borrowing(d)'
                   /\ Exclusive' /\ PoolsOwned'
<1>1. CASE Invoke(c)
  <2>1. PICK i \in Arrivals[plane] :
           ctx' = [ctx EXCEPT ![c] =
                     [app |-> i.app, scoped |-> i.scoped, src |-> i.src, prov |-> i.prov,
                      tok |-> IF i.src = "envelope" THEN now ELSE 0]]
    BY <1>1 DEF Invoke
  <2>2. ctx'[c] # None
    <3>1. i \in [app : Apps, scoped : BOOLEAN, src : Sources(plane), prov : Providers \cup {None}]
      BY PoolsAssumption DEF Holding, PoolsTypeOK
    <3>2. i.src \in {"envelope", "task", "none"}
      BY <3>1, SourceKnown DEF Holding
    <3>3. ctx'[c] \in Invocations
      BY <2>1, <3>1, <3>2, Shapes DEF Invocations, Holding, PoolsTypeOK
    <3> QED BY <3>3, NamesAssumption
  <2>3. pc[c] = "out" /\ pc' = [pc EXCEPT ![c] = "handler"] /\ at[c] = None
        /\ op' = op /\ pool' = pool /\ conn' = conn /\ at' = at /\ has' = has
    BY <1>1, Shapes DEF Invoke, Goto, Located
  <2>4. \A d \in Callers : d # c => ctx'[d] = ctx[d]
    BY <2>1, Shapes
  <2>5. \A d \in Callers : at[d] # None => Authority(d)' = Authority(d) /\ ctx'[d] = ctx[d]
    BY <2>3, <2>4 DEF Authority
  <2>6. ASSUME NEW d \in Callers PROVE Located(d)' /\ Borrowing(d)'
    BY <2>2, <2>3, <2>4, Shapes DEF Located, Borrowing
  <2>7. ASSUME NEW d \in Callers PROVE Rightful(d)'
    BY <2>3, <2>5, Shapes DEF Rightful, Open
  <2> QED BY <2>3, <2>6, <2>7 DEF Exclusive, PoolsOwned, Open, Holding
<1>2. CASE Return(c)
  <2>1. pc[c] = "handler" /\ pc' = [pc EXCEPT ![c] = "out"] /\ at[c] = None
        /\ op' = op /\ pool' = pool /\ conn' = conn /\ at' = at /\ has' = has
        /\ ctx' = [ctx EXCEPT ![c] = None]
    BY <1>2, Shapes DEF Return, Goto, Located
  <2>2. \A d \in Callers : at[d] # None => Authority(d)' = Authority(d) /\ ctx'[d] = ctx[d]
    BY <2>1, Shapes DEF Authority
  <2>3. ASSUME NEW d \in Callers PROVE Located(d)' /\ Borrowing(d)'
    BY <2>1, Shapes DEF Located, Borrowing
  <2>4. ASSUME NEW d \in Callers PROVE Rightful(d)'
    BY <2>1, <2>2, Shapes DEF Rightful, Open
  <2> QED BY <2>1, <2>3, <2>4 DEF Exclusive, PoolsOwned, Open, Holding
<1>3. CASE Unreachable(c)
  <2>1. UNCHANGED <<ctx, pc, op, pool, conn, at, has>>
    BY <1>3 DEF Unreachable, ResolveFails, GetFails, DevDBFails, poolVars
  <2>2. \A d \in Callers : Located(d)' /\ Rightful(d)' /\ Borrowing(d)'
    BY <2>1, Shapes DEF Located, Rightful, Borrowing, Authority, Open
  <2> QED BY <2>1, <2>2 DEF Exclusive, PoolsOwned, Open, Holding
<1>4. CASE Refresh(c)
  <2>1. pc[c] = "refresh" /\ pc' = [pc EXCEPT ![c] = "acquire"]
        /\ pool' = [pool EXCEPT ![at[c]].tok = ctx[c].tok]
        /\ ctx' = ctx /\ op' = op /\ conn' = conn /\ at' = at /\ has' = has
    BY <1>4 DEF Refresh, Goto
  <2>2. at[c] \in Pools /\ pool[at[c]] \in PoolStates /\ ctx[c] \in Invocations
    BY <2>1, Standing
  <2> DEFINE p == [pool[at[c]] EXCEPT !.tok = ctx[c].tok]
  <2>3. p \in PoolStates /\ p.auth = pool[at[c]].auth
    BY <2>2 DEF PoolStates, Invocations
  <2>4. pool' = [pool EXCEPT ![at[c]] = p]
    BY <2>1
  <2>5. p # None
    BY <2>3, NamesAssumption
  <2> HIDE DEF p
  <2>6. \A q \in Pools : pool'[q] # None <=> pool[q] # None
    BY <2>2, <2>4, <2>5, Shapes, NamesAssumption
  <2>7. ASSUME NEW d \in Callers PROVE Located(d)' /\ Rightful(d)' /\ Borrowing(d)'
    <3>1. Located(d)' /\ Borrowing(d)'
      BY <2>1, Shapes DEF Located, Borrowing
    <3>2. Authority(d)' = Authority(d)
      BY <2>1 DEF Authority
    <3> QED BY <2>1, <2>6, <3>1, <3>2, Shapes DEF Rightful, Open
  <2>8. PoolsOwned'
    <3>1. \A q \in Pools : pool'[q] # None => pool'[q].auth = Owner(q)
      BY <2>2, <2>3, <2>4, <2>5, <2>6, Shapes DEF Holding, PoolsOwned, Open
    <3> QED BY <2>1, <2>6, <3>1, Shapes DEF Holding, PoolsOwned, Open
  <2> QED BY <2>1, <2>7, <2>8 DEF Exclusive, Holding
<1>5. CASE DialFails(c) \/ AcquireTimesOut(c)
  <2>1. pc[c] = "acquire" /\ pc' = [pc EXCEPT ![c] = "unpin"]
        /\ UNCHANGED <<ctx, op, pool, conn, at, has>>
    BY <1>5 DEF DialFails, AcquireTimesOut, Goto
  <2>2. ASSUME NEW d \in Callers PROVE Located(d)' /\ Borrowing(d)'
    BY <2>1, Shapes DEF Located, Borrowing
  <2>3. ASSUME NEW d \in Callers PROVE Rightful(d)'
    BY <2>1, Shapes DEF Rightful, Open, Authority
  <2> QED BY <2>1, <2>2, <2>3 DEF Exclusive, PoolsOwned, Open, Holding
<1>6. CASE Unpin(c) \/ ClosePrivate(c)
  <2>1. /\ pc[c] = "unpin" /\ pc' = [pc EXCEPT ![c] = "handler"]
        /\ at' = [at EXCEPT ![c] = None] /\ op' = [op EXCEPT ![c] = None]
        /\ ctx' = ctx /\ has' = has
    BY <1>6 DEF Unpin, ClosePrivate, Released, Goto
  <2>2. has[c] = None /\ at[c] \in Pools /\ at[c] # None /\ ctx[c] # None
    BY <2>1, Standing
  <2>3. ASSUME NEW d \in Callers PROVE Located(d)'
    BY <2>1, <2>2, Shapes DEF Located
  <2>4. \A d \in Callers : Authority(d)' = Authority(d)
    BY <2>1 DEF Authority
  <2>5. CASE Unpin(c)
    <3>1. pool' = pool /\ conn' = conn
      BY <2>5 DEF Unpin
    <3>2. ASSUME NEW d \in Callers PROVE Rightful(d)' /\ Borrowing(d)'
      BY <2>1, <2>2, <2>4, <3>1, Shapes DEF Rightful, Open, Borrowing
    <3> QED BY <2>1, <2>3, <3>1, <3>2 DEF Exclusive, PoolsOwned, Open, Holding
  <2>6. CASE ClosePrivate(c)
    <3>1. /\ at[c] \in PrivatePools /\ pool' = [pool EXCEPT ![at[c]] = None]
          /\ conn' = [x \in ConnIds |-> IF x \in Idle(at[c]) THEN None ELSE conn[x]]
      BY <2>6 DEF ClosePrivate
    <3>2. \A d \in Callers : d # c => at[d] # at[c]
      <4>1. at[c] = <<"private", c>>
        BY <2>2, <3>1, Shapes DEF Rightful
      <4>2. ASSUME NEW d \in Callers, at[d] = at[c] PROVE d = c
        <5>1. at[d] = <<"private", d>>
          BY <2>2, <3>1, <4>2, Shapes DEF Rightful
        <5> QED BY <4>1, <4>2, <5>1
      <4> QED BY <4>2
    <3>3. ASSUME NEW d \in Callers PROVE Rightful(d)'
      BY <2>1, <2>2, <2>4, <3>1, <3>2, Shapes DEF Rightful, Open
    <3>4. ASSUME NEW d \in Callers PROVE Borrowing(d)'
      <4>1. has[d] # None => conn'[has[d]] = conn[has[d]] /\ d # c
        BY <2>2, <3>1, Shapes DEF Idle
      <4> QED BY <2>1, <4>1, Shapes DEF Borrowing
    <3>5. PoolsOwned'
      <4>1. ASSUME NEW x \in ConnIds, conn'[x] # None
            PROVE  conn'[x] = conn[x] /\ conn[x] # None /\ x[1] # at[c]
        <5>1. x \notin Idle(at[c]) /\ conn'[x] = conn[x] /\ conn[x] # None
          BY <3>1, <4>1
        <5>2. ASSUME x[1] = at[c] PROVE FALSE
          <6>1. PICK d \in Callers : has[d] = x
            BY <5>1, <5>2 DEF Idle, Conns
          <6>2. at[d] = at[c] /\ d # c
            BY <2>2, <5>2, <6>1, Shapes DEF Borrowing
          <6> QED BY <3>2, <6>2
        <5> QED BY <5>1, <5>2
      <4> QED BY <2>2, <3>1, <4>1, Shapes DEF PoolsOwned, Open, Holding
    <3> QED BY <2>1, <2>3, <3>3, <3>4, <3>5 DEF Exclusive, Holding
  <2> QED BY <1>6, <2>5, <2>6
<1> QED BY <1>1, <1>2, <1>3, <1>4, <1>5, <1>6

LEMMA HoldingKept == Holding /\ [PoolsMove]_poolVars => Holding'
<1> SUFFICES ASSUME Holding, [PoolsMove]_poolVars PROVE Holding'
  OBVIOUS
<1> DEFINE Held == /\ \A d \in Callers : Located(d)' /\ Rightful(d)' /\ Borrowing(d)'
                   /\ Exclusive' /\ PoolsOwned'
<1>1. CASE PoolsMove
  <2>1. PoolsTypeOK' /\ DevOpen'
    BY <1>1, TypesKept, DevOpenKept
  <2>2. CASE ConnExpires
    <3>1. UNCHANGED <<ctx, pc, op, pool, at, has>>
      BY <2>2 DEF ConnExpires
    <3>2. PICK p \in Pools : \E x : Lapsed(p, x)
      BY <2>2, ExpiryIsLapsed
    <3> QED BY <2>1, <3>1, <3>2, LapsedHolds DEF Holding
  <2>3. CASE Tick
    <3>1. UNCHANGED <<ctx, pc, op, pool, conn, at, has>>
      BY <2>3 DEF Tick
    <3>2. \A d \in Callers : Located(d)' /\ Rightful(d)' /\ Borrowing(d)'
      BY <3>1, Shapes DEF Located, Rightful, Borrowing, Authority, Open
    <3> QED BY <2>1, <3>1, <3>2 DEF Exclusive, PoolsOwned, Open, Holding
  <2>4. ASSUME NEW c \in Callers, CallerMoves(c) PROVE Held
    <3>1. ASSUME NEW access \in Accesses, NEW mode \in AnyMode, Reach(c, access, mode)
          PROVE  Held
      BY <3>1, ReachIsReached, ReachedHolds
    <3>2. CASE Borrow(c) \/ Dial(c)
      BY <3>2, AcquireIsLent, LentHolds
    <3>3. CASE BeginFails(c) \/ ScopeFails(c) \/ Leave(c)
      BY <3>3, LeaveIsReturned, ReturnedHolds
    <3>4. CASE BeginTx(c) \/ ApplyScope(c) \/ HandlerSets(c)
      BY <3>4, WorkIsWorked, WorkedHolds
    <3>5. CASE ResetFails(c)
      <4>1. PICK x : Lapsed(at[c], x)
        BY <3>5, ExpiryIsLapsed
      <4>2. /\ UNCHANGED <<ctx, op, pool, at, has>>
            /\ \/ UNCHANGED pc
               \/ \E e \in Callers : pc[e] = "acquire" /\ pc' = [pc EXCEPT ![e] = "unpin"]
        BY <3>5 DEF ResetFails
      <4> QED BY <4>1, <4>2, LapsedHolds
    <3>6. CASE \/ Invoke(c) \/ Return(c) \/ Unreachable(c) \/ Refresh(c)
               \/ DialFails(c) \/ AcquireTimesOut(c) \/ Unpin(c) \/ ClosePrivate(c)
      BY <3>6, OthersHold
    <3> QED BY <2>4, <3>1, <3>2, <3>3, <3>4, <3>5, <3>6 DEF CallerMoves, Acquire, Enter
  <2>5. ASSUME NEW c \in Callers, CallerMoves(c) PROVE Holding'
    BY <2>1, <2>4, <2>5 DEF Holding
  <2> QED BY <1>1, <2>2, <2>3, <2>5 DEF PoolsMove
<1>2. CASE UNCHANGED poolVars
  <2>1. \A d \in Callers : Located(d)' /\ Rightful(d)' /\ Borrowing(d)'
    BY <1>2, Shapes DEF poolVars, Located, Rightful, Borrowing, Authority, Open
  <2>2. PoolsTypeOK'
    BY <1>2 DEF poolVars, Holding, PoolsTypeOK
  <2> QED BY <1>2, <2>1, <2>2 DEF poolVars, Holding, Exclusive, PoolsOwned, DevOpen, Open
<1> QED BY <1>1, <1>2

LEMMA HoldingInit == PoolsInit => Holding
<1> SUFFICES ASSUME PoolsInit PROVE Holding
  OBVIOUS
<1>1. PoolsTypeOK
  BY PoolsTypeInit
<1>2. \A c \in Callers : Located(c) /\ Rightful(c) /\ Borrowing(c)
  BY DEF PoolsInit, Located, Rightful, Borrowing
<1>3. Exclusive /\ PoolsOwned
  BY DEF PoolsInit, Exclusive, PoolsOwned, Open
<1>4. DevOpen
  BY DEF PoolsInit, DevOpen, Open, Pools
<1> QED BY <1>1, <1>2, <1>3, <1>4 DEF Holding

-----------------------------------------------------------------------------
(* What a connection's session is set to.                                  *)

(* A connection nobody holds is in no transaction.                         *)
Clean ==
    \A x \in ConnIds : conn[x] # None /\ (\A c \in Callers : has[c] # x) =>
        ~conn[x].tx /\ conn[x].local = None

(* PrepareConn's reset lasts until the scope is applied, and the scope      *)
(* until the handler's own SQL changes it.                                  *)
Scoped(c) ==
    /\ pc[c] \in {"begin", "scope"} => conn[has[c]].sess = None /\ conn[has[c]].local = None
    /\ pc[c] = "use" => Effective(conn[has[c]]) = Schema(c)

Scoping == Clean /\ \A c \in Callers : Scoped(c)

(* A step that leaves the held connections alone.                          *)
LEMMA ScopingUntouched ==
    ASSUME Scoping,
           UNCHANGED has,
           \A d \in Callers : has[d] # None => conn'[has[d]] = conn[has[d]],
           \A d \in Callers : pc'[d] \in {"begin", "scope", "use"} =>
               pc'[d] = pc[d] /\ has[d] # None /\ Schema(d)' = Schema(d),
           \A x \in ConnIds : conn'[x] # None =>
               \/ ~conn'[x].tx /\ conn'[x].local = None
               \/ conn[x] # None /\ conn'[x] = conn[x]
    PROVE  Scoping'
<1>1. Clean'
  BY DEF Scoping, Clean
<1>2. ASSUME NEW d \in Callers PROVE Scoped(d)'
  BY DEF Scoping, Scoped, Effective
<1> QED BY <1>1, <1>2 DEF Scoping

LEMMA ScopingKept == Holding /\ Scoping /\ [PoolsMove]_poolVars => Scoping'
<1> SUFFICES ASSUME Holding, Scoping, [PoolsMove]_poolVars PROVE Scoping'
  OBVIOUS
<1>0. \A d \in Callers : pc[d] \in {"begin", "scope", "use"} => has[d] # None
  BY Shapes DEF Located
<1>1. ASSUME NEW c \in Callers, NEW access \in Accesses, NEW mode \in AnyMode, Reach(c, access, mode)
      PROVE  Scoping'
  <2>1. PICK p \in Pools : Reached(c, p, mode)
    BY <1>1, ReachIsReached
  <2>2. has' = has /\ ctx' = ctx
        /\ (pc' = [pc EXCEPT ![c] = "acquire"] \/ pc' = [pc EXCEPT ![c] = "refresh"])
        /\ \E a \in Accesses : op' = [op EXCEPT ![c] = [access |-> a, mode |-> mode]]
    BY <2>1 DEF Reached
  <2>3. \A d \in Callers : has[d] # None => conn'[has[d]] = conn[has[d]]
    BY <2>1 DEF Reached, PoolHeld
  <2>4. \A d \in Callers : d # c => pc'[d] = pc[d] /\ op'[d] = op[d] /\ ctx'[d] = ctx[d]
    BY <2>2, Shapes
  <2>5. pc'[c] \notin {"begin", "scope", "use"}
    BY <2>2, Shapes
  <2>6. \A x \in ConnIds : conn'[x] # None =>
           \/ ~conn'[x].tx /\ conn'[x].local = None
           \/ conn[x] # None /\ conn'[x] = conn[x]
    BY <2>1 DEF Reached, PoolHeld, Fresh
  <2> QED BY <1>0, <2>2, <2>3, <2>4, <2>5, <2>6, ScopingUntouched DEF Schema
<1>2. ASSUME NEW c \in Callers, Borrow(c) \/ Dial(c) PROVE Scoping'
  <2>1. PICK x \in ConnIds, k \in ConnStates : Lent(c, x, k)
    BY <1>2, AcquireIsLent
  <2>2. has' = [has EXCEPT ![c] = x] /\ conn' = [conn EXCEPT ![x] = k] /\ ctx' = ctx /\ op' = op
        /\ pc' = [pc EXCEPT ![c] = AfterAcquire(c)] /\ k.sess = None
        /\ \A d \in Callers : has[d] # x
    BY <2>1 DEF Lent
  <2>3. k.local = None /\ has[c] = None
    BY <2>1, Standing DEF Lent, Scoping, Clean
  <2>4. Clean'
    BY <2>2, <2>3, Shapes DEF Scoping, Clean
  <2>5. ASSUME NEW d \in Callers PROVE Scoped(d)'
    <3>1. CASE d = c
      BY <2>2, <2>3, <3>1, Shapes DEF Scoped, AfterAcquire
    <3>2. CASE d # c
      <4>1. pc'[d] = pc[d] /\ has'[d] = has[d] /\ Schema(d)' = Schema(d) /\ Scoped(d)
        BY <2>2, <3>2, Shapes DEF Schema, Scoping
      <4>2. has[d] # None => conn'[has[d]] = conn[has[d]]
        BY <2>2, Shapes
      <4> QED BY <1>0, <4>1, <4>2 DEF Scoped, Effective
    <3> QED BY <3>1, <3>2
  <2> QED BY <2>4, <2>5 DEF Scoping
<1>3. ASSUME NEW c \in Callers, BeginFails(c) \/ ScopeFails(c) \/ Leave(c) PROVE Scoping'
  <2>1. PICK k : Returned(c, k)
    BY <1>3, LeaveIsReturned
  <2>2. has' = [has EXCEPT ![c] = None] /\ conn' = [conn EXCEPT ![has[c]] = k] /\ ctx' = ctx
        /\ op' = op /\ pc' = [pc EXCEPT ![c] = "unpin"] /\ has[c] # None /\ has[c] \in ConnIds
        /\ (k # None => ~k.tx /\ k.local = None)
    BY <2>1, Borrowed DEF Returned
  <2>3. Clean'
    <3> SUFFICES ASSUME NEW x \in ConnIds, conn'[x] # None, \A d \in Callers : has'[d] # x
                 PROVE  ~conn'[x].tx /\ conn'[x].local = None
      BY DEF Clean
    <3>1. CASE x = has[c]
      BY <2>2, <3>1, Shapes
    <3>2. CASE x # has[c]
      <4>1. conn'[x] = conn[x] /\ \A d \in Callers : has[d] # x
        BY <2>2, <3>2, Shapes
      <4> QED BY <4>1 DEF Scoping, Clean
    <3> QED BY <3>1, <3>2
  <2>4. ASSUME NEW d \in Callers PROVE Scoped(d)'
    <3>1. CASE d = c
      BY <2>2, <3>1, Shapes DEF Scoped
    <3>2. CASE d # c
      <4>1. pc'[d] = pc[d] /\ has'[d] = has[d] /\ Schema(d)' = Schema(d) /\ Scoped(d)
        BY <2>2, <3>2, Shapes DEF Schema, Scoping
      <4>2. has[d] # None => conn'[has[d]] = conn[has[d]]
        <5>1. has[d] # None => has[d] # has[c]
          BY <2>2, <3>2 DEF Holding, Exclusive
        <5> QED BY <2>2, <5>1, Shapes
      <4> QED BY <1>0, <4>1, <4>2 DEF Scoped, Effective
    <3> QED BY <3>1, <3>2
  <2> QED BY <2>3, <2>4 DEF Scoping
<1>4. ASSUME NEW c \in Callers, BeginTx(c) \/ ApplyScope(c) \/ HandlerSets(c) PROVE Scoping'
  <2>1. PICK k, l :
           /\ l \in {"scope", "use", "strayed"} /\ Worked(c, k, l)
           /\ l = "scope" => k.sess = None /\ k.local = None
           /\ l = "use" => Effective(k) = Schema(c)
    <3>1. CASE BeginTx(c)
      <4> DEFINE k == [conn[has[c]] EXCEPT !.tx = TRUE]
      <4>1. pc[c] = "begin" /\ Worked(c, k, "scope") /\ conn[has[c]] \in ConnStates
        BY <3>1, WorkIsWorked, Standing
      <4>2. k.sess = None /\ k.local = None
        BY <4>1 DEF ConnStates, Scoping, Scoped
      <4> HIDE DEF k
      <4> QED BY <4>1, <4>2
    <3>2. CASE ApplyScope(c)
      <4>1. pc[c] = "scope" /\ conn[has[c]] \in ConnStates
        BY <3>2, WorkIsWorked, Standing
      <4>2. PICK k : /\ Worked(c, k, "use") /\ k.tx = conn[has[c]].tx
                     /\ IF Schema(c) = None THEN k = conn[has[c]]
                        ELSE IF k.tx THEN k.local = Schema(c) ELSE k.sess = Schema(c)
        BY <3>2, WorkIsWorked
      <4>3. Effective(k) = Schema(c)
        BY <4>1, <4>2 DEF Effective, Scoping, Scoped
      <4> QED BY <4>2, <4>3
    <3>3. CASE HandlerSets(c)
      <4>1. PICK k : Worked(c, k, "strayed")
        BY <3>3, WorkIsWorked
      <4> QED BY <4>1
    <3> QED BY <1>4, <3>1, <3>2, <3>3
  <2>2. has' = has /\ conn' = [conn EXCEPT ![has[c]] = k] /\ ctx' = ctx /\ op' = op
        /\ pc' = [pc EXCEPT ![c] = l] /\ has[c] # None /\ has[c] \in ConnIds
    BY <2>1, Borrowed DEF Worked
  <2>3. Clean'
    BY <2>2, Shapes DEF Scoping, Clean
  <2>4. ASSUME NEW d \in Callers PROVE Scoped(d)'
    <3>1. Schema(d)' = Schema(d)
      BY <2>2 DEF Schema
    <3>2. CASE d = c
      BY <2>1, <2>2, <3>1, <3>2, Shapes DEF Scoped, Effective
    <3>3. CASE d # c
      <4>1. pc'[d] = pc[d] /\ has'[d] = has[d] /\ Scoped(d)
        BY <2>2, <3>3, Shapes DEF Scoping
      <4>2. has[d] # None => conn'[has[d]] = conn[has[d]]
        <5>1. has[d] # None => has[d] # has[c]
          BY <2>2, <3>3 DEF Holding, Exclusive
        <5> QED BY <2>2, <5>1, Shapes
      <4> QED BY <1>0, <3>1, <4>1, <4>2 DEF Scoped, Effective
    <3> QED BY <3>2, <3>3
  <2> QED BY <2>3, <2>4 DEF Scoping
<1>5. ASSUME NEW c \in Callers,
             \/ Invoke(c) \/ Return(c) \/ Unreachable(c) \/ Refresh(c)
             \/ DialFails(c) \/ AcquireTimesOut(c) \/ Unpin(c)
      PROVE  Scoping'
  <2>1. has' = has /\ conn' = conn
    BY <1>5 DEF Invoke, Return, Unreachable, ResolveFails, GetFails, DevDBFails, Refresh,
       DialFails, AcquireTimesOut, Unpin, Released, poolVars
  <2>2. pc' = pc \/ \E l \in {"handler", "out", "acquire", "unpin"} : pc' = [pc EXCEPT ![c] = l]
    BY <1>5 DEF Invoke, Return, Unreachable, ResolveFails, GetFails, DevDBFails, Refresh,
       DialFails, AcquireTimesOut, Unpin, Released, Goto, poolVars
  <2>3. \A d \in Callers : pc'[d] \in {"begin", "scope", "use"} => pc'[d] = pc[d]
    BY <2>2, Shapes
  <2>4. pc[c] \notin {"begin", "scope", "use"} \/ (ctx' = ctx /\ op' = op)
    BY <1>5 DEF Invoke, Return, Unreachable, ResolveFails, GetFails, DevDBFails, Refresh,
       DialFails, AcquireTimesOut, Unpin, Released, poolVars
  <2>5. \A d \in Callers : d # c => ctx'[d] = ctx[d] /\ op'[d] = op[d]
    BY <1>5, Shapes DEF Invoke, Return, Unreachable, ResolveFails, GetFails, DevDBFails, Refresh,
       DialFails, AcquireTimesOut, Unpin, Released, poolVars
  <2> QED BY <1>0, <2>1, <2>3, <2>4, <2>5, ScopingUntouched DEF Schema
<1>6. ASSUME NEW p, NEW x, Lapsed(p, x), UNCHANGED <<ctx, op, has>>,
             \A d \in Callers : pc'[d] \in {"begin", "scope", "use"} => pc'[d] = pc[d]
      PROVE  Scoping'
  <2>1. conn' = [conn EXCEPT ![x] = None] /\ \A d \in Callers : has[d] # x
    BY <1>6 DEF Lapsed
  <2>2. has' = has /\ \A d \in Callers : Schema(d)' = Schema(d)
    BY <1>6 DEF Schema
  <2>3. \A d \in Callers : has[d] # None => conn'[has[d]] = conn[has[d]]
    BY <2>1, Shapes
  <2>4. \A y \in ConnIds : conn'[y] # None => conn[y] # None /\ conn'[y] = conn[y]
    BY <2>1, Shapes
  <2> QED BY <1>0, <1>6, <2>2, <2>3, <2>4, ScopingUntouched
<1>7. ASSUME NEW c \in Callers, ResetFails(c) PROVE Scoping'
  <2>1. UNCHANGED <<ctx, op, has>> /\ pc' \in {pc, [pc EXCEPT ![c] = "unpin"]}
    BY <1>7 DEF ResetFails
  <2>2. \A d \in Callers : pc'[d] \in {"begin", "scope", "use"} => pc'[d] = pc[d]
    BY <2>1, Shapes
  <2> QED BY <1>6, <1>7, <2>1, <2>2, ExpiryIsLapsed
<1>8. CASE ConnExpires
  <2>1. UNCHANGED <<ctx, op, has, pc>>
    BY <1>8 DEF ConnExpires
  <2> QED BY <1>6, <1>8, <2>1, ExpiryIsLapsed
<1>9. ASSUME NEW c \in Callers, ClosePrivate(c) PROVE Scoping'
  <2>1. /\ pc[c] = "unpin" /\ pc' = [pc EXCEPT ![c] = "handler"]
        /\ op' = [op EXCEPT ![c] = None] /\ ctx' = ctx /\ has' = has
        /\ conn' = [x \in ConnIds |-> IF x \in Idle(at[c]) THEN None ELSE conn[x]]
    BY <1>9 DEF ClosePrivate, Released, Goto
  <2>2. \A d \in Callers : has[d] # None => conn'[has[d]] = conn[has[d]]
    BY <2>1, Shapes DEF Idle
  <2>3. \A d \in Callers : pc'[d] \in {"begin", "scope", "use"} =>
           pc'[d] = pc[d] /\ Schema(d)' = Schema(d)
    BY <2>1, Shapes DEF Schema
  <2>4. \A x \in ConnIds : conn'[x] # None => conn[x] # None /\ conn'[x] = conn[x]
    BY <2>1
  <2> QED BY <1>0, <2>1, <2>2, <2>3, <2>4, ScopingUntouched
<1>10. CASE Tick \/ UNCHANGED poolVars
  BY <1>10, Shapes DEF Tick, poolVars, Scoping, Clean, Scoped, Effective, Schema
<1> QED BY <1>1, <1>2, <1>3, <1>4, <1>5, <1>7, <1>8, <1>9, <1>10
        DEF PoolsMove, CallerMoves, Acquire, Enter

-----------------------------------------------------------------------------
(* Whose token a pool dials with.                                          *)

(* Between a caller's Get and its dial the pool's envelope holds its token, *)
(* unless another invocation's has replaced it.                             *)
Current ==
    \A c \in Callers :
        (pc[c] = "acquire" /\ ctx[c].src = "envelope" /\ ~raced[c]) =>
            pool[at[c]].tok = ctx[c].tok

Refusing == Current /\ RefusedOnlyWhenRaced

LEMMA CurrentUntouched ==
    ASSUME Current, UNCHANGED <<ctx, raced, at>>,
           \A d \in Callers : at[d] # None => pool'[at[d]] = pool[at[d]],
           \A d \in Callers : pc'[d] = "acquire" => pc[d] = "acquire" /\ at[d] # None
    PROVE  Current'
BY DEF Current

LEMMA RefusingKept == Holding /\ Refusing /\ [PoolsMove]_poolVars => Refusing'
<1> SUFFICES ASSUME Holding, Refusing, [PoolsMove]_poolVars PROVE Refusing'
  OBVIOUS
<1>0. \A d \in Callers : pc[d] = "acquire" => at[d] # None
  BY Shapes DEF Located
<1>1. ASSUME NEW c \in Callers, NEW access \in Accesses, NEW mode \in AnyMode, Reach(c, access, mode)
      PROVE  Refusing'
  <2>1. PICK p \in Pools : Reached(c, p, mode)
    BY <1>1, ReachIsReached
  <2>2. ctx' = ctx /\ raced' = raced /\ refused' = refused /\ at' = [at EXCEPT ![c] = p]
        /\ \A d \in Callers : at[d] # None => pool'[at[d]] = pool[at[d]]
    BY <2>1 DEF Reached, PoolHeld
  <2>3. pc'[c] = "acquire" => ctx[c].src # "envelope"
    BY <2>1, Shapes DEF Reached
  <2>4. \A d \in Callers : d # c => pc'[d] = pc[d] /\ at'[d] = at[d]
    BY <2>1, <2>2, Shapes DEF Reached
  <2>5. Current'
    BY <1>0, <2>2, <2>3, <2>4 DEF Refusing, Current
  <2> QED BY <2>2, <2>5 DEF Refusing, RefusedOnlyWhenRaced
<1>2. ASSUME NEW c \in Callers,
             \/ Borrow(c) \/ Dial(c) \/ Enter(c) \/ HandlerSets(c) \/ Leave(c)
             \/ ResetFails(c) \/ AcquireTimesOut(c)
      PROVE  Refusing'
  <2>1. UNCHANGED <<ctx, raced, at, pool, refused>>
    BY <1>2 DEF Borrow, Dial, Enter, BeginTx, BeginFails, ApplyScope, ScopeFails, HandlerSets,
       Leave, CloseConn, Commit, Rollback, ResetFails, AcquireTimesOut
  <2>2. \/ pc' = pc
        \/ \E l \in {"begin", "scope", "use", "strayed", "unpin"} : pc' = [pc EXCEPT ![c] = l]
    BY <1>2 DEF Borrow, Dial, Enter, BeginTx, BeginFails, ApplyScope, ScopeFails, HandlerSets,
       Leave, CloseConn, Commit, Rollback, ResetFails, AcquireTimesOut, AfterAcquire, Goto
  <2>3. \A d \in Callers : pc'[d] = "acquire" => pc[d] = "acquire"
    BY <2>2, Shapes
  <2> QED BY <1>0, <2>1, <2>3, CurrentUntouched DEF Refusing, RefusedOnlyWhenRaced
<1>3. ASSUME NEW c \in Callers, Invoke(c) \/ Return(c) PROVE Refusing'
  <2>1. UNCHANGED <<raced, at, pool, refused>> /\ pc[c] \in {"out", "handler"}
        /\ (\E l \in {"out", "handler"} : pc' = [pc EXCEPT ![c] = l])
        /\ \A d \in Callers : d # c => ctx'[d] = ctx[d]
    BY <1>3, Shapes DEF Invoke, Return, Goto
  <2>2. \A d \in Callers : pc'[d] = "acquire" => pc[d] = "acquire" /\ d # c
    BY <2>1, Shapes
  <2> QED BY <2>1, <2>2 DEF Refusing, Current, RefusedOnlyWhenRaced
<1>4. ASSUME NEW c \in Callers, Unreachable(c) PROVE Refusing'
  <2>1. UNCHANGED <<ctx, raced, at, pool, pc>>
    BY <1>4 DEF Unreachable, ResolveFails, GetFails, DevDBFails, poolVars
  <2>2. refused' = refused \/ (~Alive(ctx[c].tok) /\ refused' = refused \cup {Refusal(c)})
    BY <1>4 DEF Unreachable, ResolveFails, GetFails, DevDBFails, poolVars
  <2>3. ~Alive(ctx[c].tok) => ~Refusal(c).fresh
    BY DEF Refusal
  <2> QED BY <1>0, <2>1, <2>2, <2>3, CurrentUntouched DEF Refusing, RefusedOnlyWhenRaced
<1>5. ASSUME NEW c \in Callers, Refresh(c) PROVE Refusing'
  <2>1. /\ pc[c] = "refresh" /\ pc' = [pc EXCEPT ![c] = "acquire"]
        /\ pool' = [pool EXCEPT ![at[c]].tok = ctx[c].tok]
        /\ raced' = [d \in Callers |->
                       raced[d] \/ (d # c /\ pc[d] = "acquire" /\ at[d] = at[c])]
        /\ ctx' = ctx /\ at' = at /\ refused' = refused
    BY <1>5 DEF Refresh, Goto
  <2>2. at[c] \in Pools /\ pool[at[c]] \in PoolStates
    BY <2>1, Standing
  <2>3. pool'[at[c]].tok = ctx[c].tok
    BY <2>1, <2>2, Shapes DEF PoolStates
  <2>4. ASSUME NEW d \in Callers, pc'[d] = "acquire", ctx[d].src = "envelope", ~raced'[d]
        PROVE  pool'[at[d]].tok = ctx[d].tok
    <3>1. CASE d = c
      BY <2>3, <3>1
    <3>2. CASE d # c
      <4>1. pc[d] = "acquire"
        BY <2>1, <2>4, <3>2, Shapes
      <4>2. ~raced[d] /\ at[d] # at[c]
        BY <2>1, <2>4, <3>2, <4>1
      <4>3. pool'[at[d]] = pool[at[d]]
        BY <2>1, <4>2, <1>0, <4>1, Shapes
      <4> QED BY <2>4, <4>1, <4>2, <4>3 DEF Refusing, Current
    <3> QED BY <3>1, <3>2
  <2> QED BY <2>1, <2>4 DEF Refusing, Current, RefusedOnlyWhenRaced
<1>6. ASSUME NEW c \in Callers, DialFails(c) PROVE Refusing'
  <2>1. /\ pc[c] = "acquire" /\ pc' = [pc EXCEPT ![c] = "unpin"]
        /\ UNCHANGED <<ctx, raced, at, pool>>
        /\ \/ refused' = refused
           \/ /\ pool[at[c]].auth = "envelope" /\ ~Alive(pool[at[c]].tok)
              /\ refused' = refused \cup {Refusal(c)}
    BY <1>6 DEF DialFails, Goto
  <2>2. \A d \in Callers : pc'[d] = "acquire" => pc[d] = "acquire"
    BY <2>1, Shapes
  <2>3. Current'
    BY <1>0, <2>1, <2>2, CurrentUntouched DEF Refusing
  <2>4. at[c] \in Pools /\ Open(at[c]) /\ at[c] # None /\ ctx[c] \in Invocations
    BY <2>1, Standing
  <2>5. pool[at[c]].auth = Authority(c)
    BY <2>4, Shapes DEF Rightful, Holding, PoolsOwned
  <2>6. Authority(c) = "envelope" => ctx[c].src = "envelope"
    BY <2>4, NamesAssumption DEF Authority
  <2>7. pool[at[c]].auth = "envelope" /\ ~Alive(pool[at[c]].tok) /\ Refusal(c).fresh
           => Refusal(c).raced
    <3>1. Refusal(c).fresh = Alive(ctx[c].tok) /\ Refusal(c).raced = raced[c]
      BY Zenon DEF Refusal
    <3> QED BY <2>1, <2>5, <2>6, <3>1 DEF Refusing, Current
  <2> QED BY <2>1, <2>3, <2>7 DEF Refusing, RefusedOnlyWhenRaced
<1>7. ASSUME NEW c \in Callers, Unpin(c) \/ ClosePrivate(c) PROVE Refusing'
  <2>1. /\ pc[c] = "unpin" /\ pc' = [pc EXCEPT ![c] = "handler"]
        /\ at' = [at EXCEPT ![c] = None] /\ raced' = [raced EXCEPT ![c] = FALSE]
        /\ ctx' = ctx /\ refused' = refused
    BY <1>7 DEF Unpin, ClosePrivate, Released, Goto
  <2>2. \A d \in Callers : d # c => pc'[d] = pc[d] /\ at'[d] = at[d] /\ raced'[d] = raced[d]
    BY <2>1, Shapes
  <2>3. \A d \in Callers : d # c /\ at[d] # None => pool'[at[d]] = pool[at[d]]
    <3>1. CASE Unpin(c)
      BY <3>1 DEF Unpin
    <3>2. CASE ClosePrivate(c)
      <4>1. at[c] \in PrivatePools /\ pool' = [pool EXCEPT ![at[c]] = None] /\ at[c] # None
        BY <3>2, Standing DEF ClosePrivate
      <4>2. ASSUME NEW d \in Callers, d # c, at[d] # None PROVE at[d] # at[c]
        BY <4>1, <4>2, Shapes DEF Rightful
      <4> QED BY <4>1, <4>2, Shapes
    <3> QED BY <1>7, <3>1, <3>2
  <2>4. pc'[c] # "acquire"
    BY <2>1, Shapes
  <2> QED BY <1>0, <2>1, <2>2, <2>3, <2>4 DEF Refusing, Current, RefusedOnlyWhenRaced
<1>8. CASE Tick \/ ConnExpires \/ UNCHANGED poolVars
  <2>1. UNCHANGED <<ctx, raced, at, pool, refused, pc>>
    BY <1>8 DEF Tick, ConnExpires, poolVars
  <2> QED BY <1>0, <2>1, CurrentUntouched DEF Refusing, RefusedOnlyWhenRaced
<1> QED BY <1>1, <1>2, <1>3, <1>4, <1>5, <1>6, <1>7, <1>8 DEF PoolsMove, CallerMoves, Acquire

-----------------------------------------------------------------------------
(* The inductive invariant of Pools, of PoolsSpec and of DependencyReads.   *)

PoolsInv == Holding /\ Scoping /\ Refusing

LEMMA PoolsInvInit == PoolsInit => PoolsInv
<1> SUFFICES ASSUME PoolsInit PROVE PoolsInv
  OBVIOUS
<1>1. Scoping
  BY DEF PoolsInit, Scoping, Clean, Scoped
<1>2. Refusing
  BY DEF PoolsInit, Refusing, Current, RefusedOnlyWhenRaced
<1> QED BY <1>1, <1>2, HoldingInit DEF PoolsInv

LEMMA PoolsInvKept == PoolsInv /\ [PoolsMove]_poolVars => PoolsInv'
BY HoldingKept, ScopingKept, RefusingKept DEF PoolsInv

LEMMA PoolsInvHolds == Spec => []PoolsInv
<1>1. ReadsInit => PoolsInv
  BY PoolsInvInit DEF ReadsInit
<1>2. PoolsInv /\ [Next]_vars => PoolsInv'
  BY PoolsInvKept, NextMoves
<1> QED BY <1>1, <1>2, PTL DEF Spec

LEMMA PoolsInvHoldsAlone == PoolsSpec => []PoolsInv
<1>1. PoolsInv /\ [PoolsNext]_poolVars => PoolsInv'
  BY PoolsInvKept, PoolsNextMoves
<1> QED BY <1>1, PoolsInvInit, PTL DEF PoolsSpec

(* The variables keep their types: DB, Tx, ModuleDB and ModuleTx, and the   *)
(* reads of a producer's tables, never use a pool or a connection that is   *)
(* not there.                                                               *)
THEOREM PoolsTypeCorrect == Spec => []PoolsTypeOK
<1>1. PoolsInv => PoolsTypeOK
  BY DEF PoolsInv, Holding
<1> QED BY <1>1, PoolsInvHolds, PTL

(* The first statement of a handler on any connection sees the schema of    *)
(* its own call, whoever had the connection before (prepareConnReset,       *)
(* applyScope).                                                             *)
THEOREM ScopeIsolation == Spec => []ScopeNeverLeaks
<1>1. PoolsInv => ScopeNeverLeaks
  BY DEF PoolsInv, Scoping, Scoped, ScopeNeverLeaks
<1> QED BY <1>1, PoolsInvHolds, PTL

(* No eviction, and no other caller's release, closes a borrowed            *)
(* connection's pool (refcache's pins around PoolCache.Get).                *)
THEOREM PinnedWhileBorrowed == Spec => []BorrowedPoolIsPinned
<1>1. PoolsInv => BorrowedPoolIsPinned
  BY DEF PoolsInv, Holding, Located, Borrowing, Rightful, Open, BorrowedPoolIsPinned
<1> QED BY <1>1, PoolsInvHolds, PTL

(* No two callers are ever on one connection.                              *)
THEOREM NoSharedConnection == Spec => []Exclusive
<1>1. PoolsInv => Exclusive
  BY DEF PoolsInv, Holding
<1> QED BY <1>1, PoolsInvHolds, PTL

(* A connection was dialled with its borrower's own credential, and a       *)
(* cached pool is its borrower's app's (cacheKey, GetProvider).             *)
THEOREM OwnAuthority == Spec => []DialedWithItsOwnAuthority
<1>1. PoolsInv => DialedWithItsOwnAuthority
  <2> SUFFICES ASSUME PoolsInv, NEW c \in Callers, has[c] # None
               PROVE  /\ conn[has[c]].auth = Authority(c)
                      /\ at[c] \in CachedPools => at[c][1] = ctx[c].app
    BY DEF DialedWithItsOwnAuthority
  <2>1. has[c] \in ConnIds /\ conn[has[c]] # None /\ at[c] # None /\ has[c][1] = at[c]
    BY Borrowed DEF PoolsInv
  <2>2. conn[has[c]].auth = Owner(at[c])
    BY <2>1 DEF PoolsInv, Holding, PoolsOwned
  <2> QED BY <2>1, <2>2 DEF PoolsInv, Holding, Rightful
<1> QED BY <1>1, PoolsInvHolds, PTL

(* An idle connection is in no transaction and keeps no transaction's       *)
(* setting (safeRollback, conn.Release).                                    *)
THEOREM IdleIsClean == Spec => []Clean
<1>1. PoolsInv => Clean
  BY DEF PoolsInv, Scoping
<1> QED BY <1>1, PoolsInvHolds, PTL

(* A live token is refused as expired only when another invocation's token  *)
(* came between the caller's Get and its dial (envelope.set).               *)
THEOREM RefusalNeedsRace == Spec => []RefusedOnlyWhenRaced
<1>1. PoolsInv => RefusedOnlyWhenRaced
  BY DEF PoolsInv, Refusing
<1> QED BY <1>1, PoolsInvHolds, PTL

-----------------------------------------------------------------------------
(* The cached pools are PinnedCache's entries.                              *)

PoolPins == [c \in Callers |-> IF at[c] \in CachedPools THEN at[c] ELSE None]

LEMMA CachedNames ==
    /\ CachedPools \subseteq Pools /\ None \notin CachedPools
    /\ DevPool \notin CachedPools
    /\ \A p \in PrivatePools : p \notin CachedPools
BY NamesAssumption DEF Pools, CachedPools, PrivatePools, DevPool

LEMMA PoolPinned ==
    ASSUME Holding, NEW c \in Callers, pc[c] = "handler", NEW p \in CachedPools,
           at' = [at EXCEPT ![c] = p]
    PROVE  Cache!Pin(c, p)
<1>1. at[c] = None /\ at \in [Callers -> Pools \cup {None}]
  BY Shapes DEF Holding, Located
<1>2. PoolPins[c] = None
  BY <1>1 DEF PoolPins
<1>3. PoolPins' = [PoolPins EXCEPT ![c] = p]
  <2>1. \A d \in Callers : PoolPins'[d] = IF d = c THEN p ELSE PoolPins[d]
    BY <1>1 DEF PoolPins
  <2>2. PoolPins = [d \in Callers |-> PoolPins[d]] /\ PoolPins' = [d \in Callers |-> PoolPins'[d]]
    BY DEF PoolPins
  <2> QED BY <2>1, <2>2
<1> QED BY <1>2, <1>3 DEF Cache!Pin, PoolPins

(* A pool of the caller's own, or the development database, is none of the  *)
(* cache's.                                                                 *)
LEMMA UncachedReached ==
    ASSUME Holding, NEW c \in Callers, pc[c] = "handler", NEW p \in Pools, p \notin CachedPools,
           at' = [at EXCEPT ![c] = p], \A q \in Pools : q # p => pool'[q] = pool[q]
    PROVE  UNCHANGED <<OpenCached, PoolPins>>
<1>1. at[c] = None /\ at \in [Callers -> Pools \cup {None}]
  BY Shapes DEF Holding, Located
<1>2. PoolPins' = PoolPins
  BY <1>1, CachedNames DEF PoolPins
<1>3. \A q \in CachedPools : pool'[q] = pool[q]
  BY CachedNames
<1>4. OpenCached' = OpenCached
  BY <1>3 DEF OpenCached, Open
<1> QED BY <1>2, <1>4

LEMMA ReachIsCached ==
    ASSUME Holding, NEW c \in Callers, NEW access \in Accesses, NEW mode \in AnyMode,
           Reach(c, access, mode)
    PROVE  Cache!Next \/ UNCHANGED <<OpenCached, PoolPins>>
<1>1. pc[c] = "handler"
  BY DEF Reach, GetHit, GetMiss, GetPrivate, OpenDevDB, UseDevDB, Start
<1>2. ctx[c] # None /\ ctx[c] \in Invocations /\ Authority(c) \in Authorities
  BY <1>1, Standing, AuthorityKnown DEF Holding
<1>3. PICK p \in CachedPools : p = CacheKey(c)
  BY <1>2, AuthorityKnown DEF Holding
<1>4. CASE GetHit(c, access, mode)
  <2>1. Open(p) /\ at' = [at EXCEPT ![c] = p] /\ pool' = pool
    BY <1>3, <1>4 DEF GetHit
  <2>2. p \in OpenCached /\ OpenCached' = OpenCached
    BY <2>1 DEF OpenCached, Open
  <2>3. Cache!Pin(c, p)
    BY <1>1, <2>1, PoolPinned
  <2>4. Cache!Hit(c, p)
    BY <2>2, <2>3 DEF Cache!Hit
  <2> QED BY <2>4 DEF Cache!Next
<1>5. CASE GetMiss(c, access, mode)
  <2>1. ~Open(p)
    BY <1>3, <1>5 DEF GetMiss
  <2>2. PICK v \in Victims : NewPool(c, p, v)
    BY <1>3, <1>5 DEF GetMiss
  <2>3. p \notin OpenCached
    BY <2>1 DEF OpenCached
  <2>4. Cache!Pin(c, p)
    BY <1>1, <2>2, PoolPinned DEF NewPool
  <2>5. [tok |-> ctx[c].tok, auth |-> Authority(c)] # None
    <3>1. [tok |-> ctx[c].tok, auth |-> Authority(c)] \in PoolStates
      BY <1>2 DEF PoolStates, Invocations
    <3> QED BY <3>1, NamesAssumption
  <2>6. \A q \in CachedPools : pool'[q] # None <=> q = p \/ (q # v /\ pool[q] # None)
    BY <2>2, <2>5, CachedNames DEF NewPool
  <2>7. OpenCached' = (OpenCached \ {v}) \cup {p}
    BY <2>6 DEF OpenCached, Open
  <2>8. PICK out \in {{}, {v}} : out \in Cache!Outgoing /\ OpenCached' = (OpenCached \ out) \cup {p}
    <3>1. CASE Cardinality(OpenCached) < MaxPools
      <4>1. v = None /\ {} \in Cache!Outgoing
        BY <2>2, <3>1 DEF Victims, Cache!Outgoing, Cache!Cardinality, Cardinality
      <4>2. v \notin OpenCached
        BY <4>1, CachedNames DEF OpenCached
      <4> QED BY <2>7, <4>1, <4>2
    <3>2. CASE ~(Cardinality(OpenCached) < MaxPools)
      <4>1. v \in OpenCached /\ \A d \in Callers : at[d] # v
        BY <2>2, <3>2 DEF Victims, Unpinned
      <4>2. \A d \in Callers : PoolPins[d] # v
        BY <4>1, CachedNames DEF PoolPins, OpenCached
      <4>3. v \in Cache!Unpinned
        BY <4>1, <4>2 DEF Cache!Unpinned, PoolPins
      <4>4. {v} \in Cache!Outgoing
        BY <3>2, <4>3 DEF Cache!Outgoing, Cache!Cardinality, Cardinality
      <4> QED BY <2>7, <4>4
    <3> QED BY <3>1, <3>2
  <2>9. Cache!Fill(c, p, out)
    BY <2>3, <2>4, <2>8 DEF Cache!Fill
  <2> QED BY <2>8, <2>9 DEF Cache!Next
<1>6. CASE GetPrivate(c, access, mode) \/ OpenDevDB(c, access, mode)
  <2>1. PICK q \in Pools : q \notin CachedPools /\ NewPool(c, q, None)
    <3>1. <<"private", c>> \in Pools /\ <<"private", c>> \notin CachedPools
      BY CachedNames DEF Pools, PrivatePools
    <3>2. DevPool \in Pools /\ DevPool \notin CachedPools
      BY CachedNames DEF Pools
    <3> QED BY <1>6, <3>1, <3>2 DEF GetPrivate, OpenDevDB
  <2>2. None \notin Pools
    BY NamesAssumption
  <2>3. at' = [at EXCEPT ![c] = q] /\ \A r \in Pools : r # q => pool'[r] = pool[r]
    BY <2>1, <2>2 DEF NewPool
  <2> QED BY <1>1, <2>1, <2>3, UncachedReached
<1>7. CASE UseDevDB(c, access, mode)
  <2>1. at' = [at EXCEPT ![c] = DevPool] /\ pool' = pool /\ DevPool \in Pools /\ DevPool \notin CachedPools
    BY <1>7, CachedNames DEF UseDevDB, Pools
  <2> QED BY <1>1, <2>1, UncachedReached
<1> QED BY <1>4, <1>5, <1>6, <1>7 DEF Reach

LEMMA LeftIsUnpinned ==
    ASSUME Holding, NEW c \in Callers, Unpin(c) \/ ClosePrivate(c)
    PROVE  Cache!Next \/ UNCHANGED <<OpenCached, PoolPins>>
<1>1. at' = [at EXCEPT ![c] = None] /\ at[c] \in Pools
      /\ at \in [Callers -> Pools \cup {None}]
  BY Standing, Shapes DEF Unpin, ClosePrivate, Released
<1>2. OpenCached' = OpenCached
  <2>1. CASE Unpin(c)
    BY <2>1 DEF Unpin, OpenCached, Open
  <2>2. CASE ClosePrivate(c)
    <3>1. \A q \in CachedPools : pool'[q] = pool[q]
      BY <2>2, Shapes, CachedNames DEF ClosePrivate
    <3> QED BY <3>1 DEF OpenCached, Open
  <2> QED BY <2>1, <2>2
<1>3. PoolPins' = [PoolPins EXCEPT ![c] = None]
  <2>1. \A d \in Callers : PoolPins'[d] = IF d = c THEN None ELSE PoolPins[d]
    BY <1>1, CachedNames DEF PoolPins
  <2>2. PoolPins = [d \in Callers |-> PoolPins[d]] /\ PoolPins' = [d \in Callers |-> PoolPins'[d]]
    BY DEF PoolPins
  <2> QED BY <2>1, <2>2
<1>4. CASE at[c] \in CachedPools
  <2>1. PoolPins[c] # None
    BY <1>4, CachedNames DEF PoolPins
  <2>2. Cache!Unpin(c)
    BY <1>2, <1>3, <2>1 DEF Cache!Unpin, PoolPins
  <2> QED BY <2>2 DEF Cache!Next
<1>5. CASE at[c] \notin CachedPools
  <2>1. \A d \in Callers : PoolPins'[d] = PoolPins[d]
    BY <1>1, <1>5, CachedNames DEF PoolPins
  <2>2. PoolPins' = PoolPins
    BY <2>1 DEF PoolPins
  <2> QED BY <1>2, <2>2
<1> QED BY <1>4, <1>5

LEMMA MoveIsCached ==
    Holding /\ [PoolsMove]_poolVars => [Cache!Next]_(Cache!cacheVars)
<1> SUFFICES ASSUME Holding, [PoolsMove]_poolVars
             PROVE  Cache!Next \/ UNCHANGED <<OpenCached, PoolPins>>
  BY DEF Cache!cacheVars, PoolPins
<1>1. ASSUME UNCHANGED at, \A p \in CachedPools : Open(p)' <=> Open(p)
      PROVE  UNCHANGED <<OpenCached, PoolPins>>
  BY <1>1 DEF OpenCached, PoolPins
<1>2. CASE UNCHANGED <<at, pool>>
  BY <1>1, <1>2 DEF Open
<1>3. ASSUME NEW c \in Callers, Refresh(c) PROVE UNCHANGED <<OpenCached, PoolPins>>
  <2>1. at[c] \in Pools /\ pool[at[c]] \in PoolStates /\ ctx[c] \in Invocations
        /\ pool' = [pool EXCEPT ![at[c]].tok = ctx[c].tok] /\ at' = at
    BY <1>3, Standing DEF Refresh
  <2>2. [pool[at[c]] EXCEPT !.tok = ctx[c].tok] \in PoolStates
    BY <2>1 DEF PoolStates, Invocations
  <2>3. \A p \in Pools : pool'[p] # None <=> pool[p] # None
    BY <2>1, <2>2, Shapes, NamesAssumption
  <2> QED BY <1>1, <2>1, <2>3, CachedNames DEF Open
<1>4. ASSUME NEW c \in Callers,
             \/ Invoke(c) \/ Return(c) \/ Unreachable(c)
             \/ Acquire(c) \/ Enter(c) \/ HandlerSets(c) \/ Leave(c)
      PROVE  UNCHANGED <<at, pool>>
  BY <1>4 DEF Invoke, Return, Unreachable, ResolveFails, GetFails, DevDBFails, Acquire, Borrow,
     ResetFails, Dial, DialFails, AcquireTimesOut, Enter, BeginTx, BeginFails, ApplyScope,
     ScopeFails, HandlerSets, Leave, CloseConn, Commit, Rollback, poolVars
<1>5. CASE Tick \/ ConnExpires \/ UNCHANGED poolVars
  BY <1>2, <1>5 DEF Tick, ConnExpires, poolVars
<1> QED BY <1>2, <1>3, <1>4, <1>5, ReachIsCached, LeftIsUnpinned DEF PoolsMove, CallerMoves

(* What Pools takes for one step is one step of the cache that RefCache is  *)
(* proved to implement until it is closed (CacheImplementsPinnedCache).     *)
THEOREM PoolsImplementPinnedCache == Spec => ImplementsPinnedCache
<1>1. ReadsInit => Cache!Init
  <2> SUFFICES ASSUME ReadsInit PROVE Cache!Init
    OBVIOUS
  <2>1. OpenCached = {} /\ PoolPins = [c \in Callers |-> None]
    BY CachedNames DEF ReadsInit, PoolsInit, OpenCached, Open, PoolPins
  <2> QED BY <2>1 DEF Cache!Init, PoolPins
<1>2. PoolsInv /\ [Next]_vars => [Cache!Next]_(Cache!cacheVars)
  BY NextMoves, MoveIsCached DEF PoolsInv
<1> QED BY <1>1, <1>2, PoolsInvHolds, PTL DEF Spec, ImplementsPinnedCache, Cache!Spec

-----------------------------------------------------------------------------
(* The builder and the SELECT.  Induction over the calls takes the least    *)
(* number of them that refutes a claim.                                     *)

LEMMA Least ==
    ASSUME NEW S \in SUBSET Nat, S # {}
    PROVE  \E m \in S : \A k \in S : m <= k
<1> DEFINE R == StrictSubsetOrdering(Nat)
           T == {0..k : k \in S}
<1>1. IsWellFoundedOn(R, FiniteSubsetsOf(Nat))
  BY FS_StrictSubsetOrderingWellFounded
<1>2. T \subseteq FiniteSubsetsOf(Nat)
  <2> SUFFICES ASSUME NEW k \in S PROVE 0..k \in FiniteSubsetsOf(Nat)
    OBVIOUS
  <2>1. k \in Int /\ 0 \in Int /\ 0..k \subseteq Nat
    OBVIOUS
  <2>2. IsFiniteSet(0..k)
    BY <2>1, FS_Interval
  <2> QED BY <2>1, <2>2 DEF FiniteSubsetsOf
<1>3. T # {}
  OBVIOUS
<1> HIDE DEF R
<1>4. PICK x \in T : \A y \in T : ~ (<<y, x>> \in R)
  <2> HIDE DEF T
  <2> QED BY <1>1, <1>2, <1>3, WFMin
<1>5. PICK m \in S : x = 0..m
  OBVIOUS
<1>6. ASSUME NEW k \in S, k < m PROVE FALSE
  <2>1. 0..k \in T /\ 0..k \subseteq 0..m /\ m \notin 0..k /\ m \in 0..m
    BY <1>6
  <2>2. 0..k \in SUBSET Nat /\ 0..m \in SUBSET Nat /\ 0..k # 0..m
    BY <2>1
  <2>3. <<0..k, 0..m>> \in R
    BY <2>1, <2>2 DEF R, StrictSubsetOrdering
  <2> QED BY <2>1, <2>3, <1>4, <1>5
<1> QED BY <1>6

(* What holds of 0 and passes from each number to the next holds of all.    *)
LEMMA Stepwise ==
    ASSUME NEW N \in Nat, NEW S \in SUBSET (0..N), 0 \in S,
           \A n \in 1..N : n - 1 \in S => n \in S
    PROVE  \A n \in 0..N : n \in S
<1> SUFFICES ASSUME NEW n \in 0..N, n \notin S PROVE FALSE
  OBVIOUS
<1>1. (0..N) \ S \in SUBSET Nat /\ (0..N) \ S # {}
  OBVIOUS
<1>2. PICK m \in (0..N) \ S : \A k \in (0..N) \ S : m <= k
  BY <1>1, Least
<1>3. m \in 1..N /\ m - 1 \in 0..N /\ m - 1 \in S
  BY <1>2
<1> QED BY <1>2, <1>3

(* The stages of the builder are its calls, one after another.              *)
LEMMA StagesStep ==
    ASSUME NEW calls, Len(calls) \in Nat
    PROVE  /\ Stages(calls)[0] = Unbuilt
           /\ \A n \in 1..Len(calls) : Stages(calls)[n] = Build(Stages(calls)[n - 1], calls[n])
<1> DEFINE N == Len(calls)
           After(f, n) == IF n = 0 THEN Unbuilt ELSE Build(f[n - 1], calls[n])
           S == {m \in 0..N : \E f : f = [n \in 0..m |-> After(f, n)]}
<1>1. 0 \in S
  <2> DEFINE f == [n \in 0..0 |-> Unbuilt]
  <2>1. \A n \in 0..0 : n = 0
    OBVIOUS
  <2>2. \A n \in 0..0 : Unbuilt = After(f, n)
    BY <2>1
  <2> HIDE DEF After
  <2>3. f = [n \in 0..0 |-> After(f, n)]
    BY <2>2
  <2> QED BY <2>3
<1>2. ASSUME NEW m \in 1..N, m - 1 \in S PROVE m \in S
  <2>1. PICK f : f = [n \in 0..(m - 1) |-> After(f, n)]
    BY <1>2
  <2> DEFINE g == [n \in 0..m |-> IF n = m THEN Build(f[m - 1], calls[m]) ELSE f[n]]
  <2>2. ASSUME NEW n \in 0..m PROVE g[n] = After(g, n)
    <3>1. CASE n = m
      BY <3>1
    <3>2. CASE n = 0
      <4>1. g[0] = f[0] /\ f[0] = Unbuilt
        BY <2>1
      <4> QED BY <3>2, <4>1
    <3>3. CASE n # m /\ n # 0
      <4>1. n \in 0..(m - 1) /\ n - 1 \in 0..(m - 1) /\ n - 1 # m /\ n - 1 \in 0..m
        BY <3>3
      <4>2. f[n] = After(f, n)
        BY <2>1, <4>1
      <4> QED BY <3>3, <4>1, <4>2
    <3> QED BY <3>1, <3>2, <3>3
  <2>3. g = [n \in 0..m |-> After(g, n)]
    <3> HIDE DEF After
    <3>1. \E h : g = [n \in 0..m |-> h[n]]
      <4> DEFINE h == [n \in 0..m |-> IF n = m THEN Build(f[m - 1], calls[m]) ELSE f[n]]
      <4>1. g = [n \in 0..m |-> h[n]]
        OBVIOUS
      <4> QED BY <4>1
    <3> HIDE DEF g
    <3> QED BY <2>2, <3>1
  <2> HIDE DEF g, After
  <2> QED BY <2>3
<1>3. N \in S
  <2>1. S \in SUBSET (0..N)
    OBVIOUS
  <2> HIDE DEF S
  <2>2. \A n \in 1..N : n - 1 \in S => n \in S
    BY <1>2
  <2>3. \A n \in 0..N : n \in S
    BY <1>1, <2>1, <2>2, Stepwise
  <2> QED BY <2>3
<1>4. Stages(calls) = CHOOSE f : f = [n \in 0..N |-> After(f, n)]
  BY DEF Stages
<1>5. Stages(calls) = [n \in 0..N |-> After(Stages(calls), n)]
  <2> HIDE DEF After
  <2> QED BY <1>3, <1>4
<1> QED BY <1>5

IsBuilder(q) ==
    q \in [err : BOOLEAN, cols : {q.cols}, ncols : {q.ncols}, filters : {q.filters}, limit : Int]

Admits(call, r) == call.op = "Where" => r[call.col] \in call.values

(* A call of the builder that leaves no error adds its own condition to     *)
(* those before it, and nothing else (addFilter, Columns, Limit).           *)
LEMMA BuildStep ==
    ASSUME NEW q, IsBuilder(q), NEW call,
           call.op \in {"Columns", "Where"} \/ (call.op = "Limit" /\ call.n \in Int)
    PROVE  /\ IsBuilder(Build(q, call))
           /\ ~Build(q, call).err =>
                 /\ ~q.err
                 /\ \A r : Matches(Build(q, call), r) <=> Matches(q, r) /\ Admits(call, r)
                 /\ Build(q, call).limit = IF call.op = "Limit" THEN call.n ELSE q.limit
<1> DEFINE b == Build(q, call)
<1>1. IsBuilder(Latched(q)) /\ Latched(q).err
  BY DEF IsBuilder, Latched
<1>2. CASE q.err
  BY <1>2 DEF Build
<1>3. CASE ~q.err /\ ~call.names
  BY <1>1, <1>3 DEF Build
<1>4. CASE ~q.err /\ call.names /\ call.op = "Columns"
  <2> DEFINE k == [q EXCEPT !.cols = @ \cup call.cols, !.ncols = @ + Cardinality(call.cols)]
  <2>1. b = IF q.ncols + Cardinality(call.cols) > MaxColumns THEN Latched(q) ELSE k
    BY <1>4 DEF Build
  <2>2. IsBuilder(k) /\ k.filters = q.filters /\ k.limit = q.limit
    BY DEF IsBuilder
  <2>3. \A r : Matches(k, r) <=> Matches(q, r) /\ Admits(call, r)
    BY <1>4, <2>2 DEF Matches, Admits
  <2> HIDE DEF k, b
  <2> QED BY <1>1, <1>4, <2>1, <2>2, <2>3 DEF b
<1>5. CASE ~q.err /\ call.names /\ call.op = "Where"
  <2> DEFINE f == [col |-> call.col, values |-> call.values]
             k == [q EXCEPT !.filters = @ \cup {f}]
  <2>1. b = Latched(q) \/ b = k
    BY <1>5 DEF Build, AddFilter
  <2>2. IsBuilder(k) /\ k.filters = q.filters \cup {f} /\ k.limit = q.limit
    BY DEF IsBuilder
  <2>3. \A r : Matches(k, r) <=> Matches(q, r) /\ Admits(call, r)
    <3>1. f.col = call.col /\ f.values = call.values
      OBVIOUS
    <3> HIDE DEF k, f
    <3> SUFFICES ASSUME NEW r PROVE Matches(k, r) <=> Matches(q, r) /\ r[f.col] \in f.values
      BY <1>5, <3>1 DEF Admits
    <3> QED BY <2>2 DEF Matches
  <2> HIDE DEF k, b
  <2> QED BY <1>1, <1>5, <2>1, <2>2, <2>3 DEF b
<1>6. CASE ~q.err /\ call.names /\ call.op = "Limit"
  <2> DEFINE k == [q EXCEPT !.limit = call.n]
  <2>1. b = k
    BY <1>6 DEF Build
  <2>2. IsBuilder(k) /\ k.filters = q.filters /\ k.limit = call.n
    BY <1>6 DEF IsBuilder
  <2>3. \A r : Matches(k, r) <=> Matches(q, r) /\ Admits(call, r)
    BY <1>6, <2>2 DEF Matches, Admits
  <2> HIDE DEF k, b
  <2> QED BY <1>6, <2>1, <2>2, <2>3 DEF b
<1> QED BY <1>2, <1>3, <1>4, <1>5, <1>6

(* The query a handler builds without an error admits the rows every one of *)
(* its calls admits, and has the limit of the last that set one.            *)
LEMMA BuiltExactly ==
    ASSUME NEW calls \in Queries, ~Built(calls).err
    PROVE  /\ Built(calls).limit \in Int
           /\ Built(calls).limit = LastLimit(calls)
           /\ \A r : Matches(Built(calls), r) <=> \A i \in DOMAIN calls : Admits(calls[i], r)
<1> DEFINE N == Len(calls)
           q(n) == Stages(calls)[n]
           Exact(n) == ~q(n).err =>
               \A r : Matches(q(n), r) <=> \A i \in 1..n : Admits(calls[i], r)
           Limits(n) == {i \in 1..n : calls[i].op = "Limit"}
           Limited(n) == ~q(n).err =>
               IF Limits(n) = {} THEN q(n).limit = 0
               ELSE \E m \in Limits(n) : (\A i \in Limits(n) : m >= i) /\ q(n).limit = calls[m].n
           S == {n \in 0..N : IsBuilder(q(n)) /\ Exact(n) /\ Limited(n)}
<1>1. N \in Nat /\ DOMAIN calls = 1..N
  BY ReadsAssumption
<1>2. 0 \in S
  <2>1. q(0) = Unbuilt
    BY <1>1, StagesStep
  <2>2. IsBuilder(Unbuilt) /\ Unbuilt.limit = 0 /\ \A r : Matches(Unbuilt, r)
    BY DEF IsBuilder, Unbuilt, Matches
  <2> QED BY <1>1, <2>1, <2>2
<1>3. ASSUME NEW n \in 1..N, n - 1 \in S PROVE n \in S
  <2>1. q(n) = Build(q(n - 1), calls[n])
    BY <1>1, StagesStep
  <2>2. calls[n].op \in {"Columns", "Where"} \/ (calls[n].op = "Limit" /\ calls[n].n \in Int)
    BY <1>1, ReadsAssumption
  <2>3. IsBuilder(q(n - 1)) /\ Exact(n - 1) /\ Limited(n - 1)
    BY <1>3
  <2> HIDE DEF q
  <2>4. /\ IsBuilder(q(n))
        /\ ~q(n).err =>
              /\ ~q(n - 1).err
              /\ \A r : Matches(q(n), r) <=> Matches(q(n - 1), r) /\ Admits(calls[n], r)
              /\ q(n).limit = IF calls[n].op = "Limit" THEN calls[n].n ELSE q(n - 1).limit
    BY <2>1, <2>2, <2>3, BuildStep
  <2>5. 1..n = (1..(n - 1)) \cup {n}
    OBVIOUS
  <2>6. Exact(n)
    BY <2>3, <2>4, <2>5
  <2>7. Limited(n)
    <3>1. CASE calls[n].op = "Limit"
      <4>1. n \in Limits(n) /\ \A i \in Limits(n) : n >= i
        BY <3>1
      <4> QED BY <2>4, <3>1, <4>1
    <3>2. CASE calls[n].op # "Limit"
      <4>1. Limits(n) = Limits(n - 1)
        BY <2>5, <3>2
      <4> HIDE DEF Limits
      <4> QED BY <2>3, <2>4, <3>2, <4>1
    <3> QED BY <3>1, <3>2
  <2> QED BY <2>4, <2>6, <2>7
<1>4. N \in S
  <2>1. S \in SUBSET (0..N)
    OBVIOUS
  <2> HIDE DEF S
  <2>2. \A n \in 1..N : n - 1 \in S => n \in S
    BY <1>3
  <2>3. \A n \in 0..N : n \in S
    BY <1>1, <1>2, <2>1, <2>2, Stepwise
  <2> QED BY <1>1, <2>3
<1>5. q(N) = Built(calls)
  BY DEF Built
<1> HIDE DEF q
<1>6. q(N).limit = LastLimit(calls)
  <2>1. Limited(N) /\ LastLimit(calls) = IF Limits(N) = {} THEN 0 ELSE calls[Max(Limits(N))].n
    BY <1>1, <1>4 DEF LastLimit
  <2>2. ASSUME NEW m \in Limits(N), \A i \in Limits(N) : m >= i PROVE m = Max(Limits(N))
    <3>1. Limits(N) \subseteq Int
      OBVIOUS
    <3> HIDE DEF Limits
    <3> QED BY <2>2, <3>1 DEF Max
  <2> HIDE DEF Limits
  <2> QED BY <1>5, <2>1, <2>2
<1> QED BY <1>1, <1>4, <1>5, <1>6 DEF IsBuilder

(* The rows of an answer are matching ones, as many as the limit allows,    *)
(* and the answer says so if there are more (queryDynamicSelect).           *)
LEMMA AnswersCut ==
    ASSUME NEW q, q.limit \in Int, NEW a \in Answers(q)
    PROVE  /\ a.rows \subseteq Matching(q)
           /\ Cardinality(a.rows) = IF Cardinality(Matching(q)) <= Limit(q)
                                    THEN Cardinality(Matching(q)) ELSE Limit(q)
           /\ a.truncated <=> Cardinality(a.rows) < Cardinality(Matching(q))
<1> DEFINE M == Matching(q)
           L == Limit(q)
<1>1. L \in Nat /\ L <= MaxLimit /\ MaxLimit \in Nat
  BY ReadsAssumption DEF Limit
<1>2. IsFiniteSet(M) /\ Cardinality(M) \in Nat
  <2>1. M \subseteq Rows
    BY DEF Matching
  <2> QED BY <2>1, ReadsAssumption, FS_Subset, FS_CardinalityType
<1> HIDE DEF M, L
<1>3. PICK S \in Fetched(q) : a \in Cut(q, S)
  BY DEF Answers
<1>4. S \subseteq M /\ Cardinality(S) = Min({Cardinality(M), L + 1})
  BY <1>3 DEF Fetched, kSubset, M, L
<1>5. Cardinality(S) = IF Cardinality(M) <= L + 1 THEN Cardinality(M) ELSE L + 1
  BY <1>1, <1>2, <1>4 DEF Min
<1>6. CASE Cardinality(S) > L
  <2>1. PICK R \in kSubset(L, S) : a = [rows |-> R, truncated |-> TRUE]
    BY <1>3, <1>6 DEF Cut, L
  <2>2. R \subseteq S /\ Cardinality(R) = L
    BY <2>1 DEF kSubset
  <2>3. a.rows = R /\ a.truncated = TRUE
    BY <2>1
  <2>4. L < Cardinality(M)
    BY <1>1, <1>2, <1>5, <1>6
  <2> QED BY <1>1, <1>2, <1>4, <2>2, <2>3, <2>4 DEF M, L
<1>7. CASE ~(Cardinality(S) > L)
  <2>1. a = [rows |-> S, truncated |-> FALSE]
    BY <1>3, <1>7 DEF Cut, L
  <2>2. Cardinality(S) = Cardinality(M) /\ Cardinality(M) <= L
    BY <1>1, <1>2, <1>5, <1>7
  <2> QED BY <1>1, <1>2, <1>4, <2>1, <2>2 DEF M, L
<1> QED BY <1>6, <1>7

-----------------------------------------------------------------------------
(* Reads.                                                                  *)

(* What a read under way has established: a query without an error, and,    *)
(* before it touches a pool, the manifest's or the local authorization.     *)
Asking(c) ==
    /\ HasRows(c) => ask[c] # None
    /\ (ask[c] # None /\ (got[c] = None \/ HasRows(c))) =>
          ask[c].calls \in Queries /\ ~Built(ask[c].calls).err
    /\ (ask[c] # None /\ got[c] = None /\ ask[c].route = "manifest") =>
          ask[c].table \in ask[c].granted
    /\ Reading(c) =>
          /\ ask[c] # None /\ pc[c] # "strayed" /\ op[c].access = "app"
          /\ pc[c] # "unpin" => got[c] = None
          /\ \/ ask[c].route = "manifest" /\ ask[c].table \in ask[c].granted
             \/ ask[c].route = "local" /\ LocalAllowed(c)

(* What an answer with rows is.                                            *)
Answered(c) ==
    HasRows(c) =>
        /\ ask[c].route = "local" =>
              /\ ask[c].table \in Declared \cap Exposed
              /\ got[c].from = ask[c].id
        /\ ask[c].route = "manifest" =>
              /\ ask[c].table \in ask[c].granted
              /\ got[c].from = ctx[c].app
        /\ \E a \in Answers(Built(ask[c].calls)) :
              got[c].rows = a.rows /\ got[c].truncated = a.truncated

ReadsInv ==
    /\ DOMAIN ask = Callers /\ DOMAIN got = Callers
    /\ \A c \in Callers : Asking(c)
    /\ \A c \in Callers : Answered(c)

LEMMA Unmoved ==
    ASSUME NEW d \in Callers, Asking(d), Answered(d),
           pc'[d] = pc[d], op'[d] = op[d], ctx'[d] = ctx[d], ask'[d] = ask[d], got'[d] = got[d]
    PROVE  Asking(d)' /\ Answered(d)'
BY DEF Asking, Answered, HasRows, Reading, LocalAllowed, SchemaIsPinned

(* A caller's step leaves the others where they are.                       *)
LEMMA Elsewhere ==
    ASSUME Holding, NEW c \in Callers, CallerMoves(c), NEW d \in Callers, d # c
    PROVE  pc'[d] = pc[d] /\ op'[d] = op[d] /\ ctx'[d] = ctx[d]
<1>1. ASSUME NEW access \in Accesses, NEW mode \in AnyMode, Reach(c, access, mode)
      PROVE  pc'[d] = pc[d] /\ op'[d] = op[d] /\ ctx'[d] = ctx[d]
  BY <1>1, ReachIsReached, Shapes DEF Reached
<1>2. CASE Invoke(c) \/ Return(c) \/ Unreachable(c) \/ Refresh(c) \/ HandlerSets(c) \/ Unpin(c)
           \/ ClosePrivate(c)
  BY <1>2, Shapes DEF Invoke, Return, Unreachable, ResolveFails, GetFails, DevDBFails, Refresh,
     HandlerSets, Unpin, ClosePrivate, Released, Goto, poolVars
<1>3. CASE Acquire(c)
  BY <1>3, Shapes DEF Acquire, Borrow, ResetFails, Dial, DialFails, AcquireTimesOut, Goto
<1>4. CASE Enter(c) \/ Leave(c)
  BY <1>4, Shapes DEF Enter, BeginTx, BeginFails, ApplyScope, ScopeFails, Leave, CloseConn,
     Commit, Rollback, Goto
<1> QED BY <1>1, <1>2, <1>3, <1>4 DEF CallerMoves

LEMMA FailureHasNoRows ==
    ASSUME NEW c \in Callers, DOMAIN got = Callers, NEW why \in Reasons, Fail(c, why)
    PROVE  /\ got'[c] # None /\ ~HasRows(c)' /\ DOMAIN got' = Callers
           /\ \A d \in Callers : d # c => got'[d] = got[d]
<1> DEFINE f == [rows |-> None, why |-> why]
<1>1. f \in [rows : {None}, why : Reasons] /\ f.rows = None
  OBVIOUS
<1>2. f # None
  BY <1>1, ReadsAssumption
<1>3. got' = [got EXCEPT ![c] = f]
  BY DEF Fail, Reply
<1> HIDE DEF f
<1> QED BY <1>1, <1>2, <1>3 DEF HasRows

(* An access of the handler's own: no read is under way.                   *)
LEMMA AccessKeeps ==
    ASSUME Holding, ReadsInv, NEW c \in Callers, Access(c)
    PROVE  ReadsInv'
<1>1. ask[c] = None /\ ask' = ask /\ got' = got
  BY DEF Access
<1>2. CallerMoves(c)
  BY DEF Access, CallerMoves, AnyMode
<1>3. \A d \in Callers : d # c => Asking(d)' /\ Answered(d)'
  BY <1>1, <1>2, Elsewhere, Unmoved DEF ReadsInv
<1>4. ~HasRows(c)' /\ ~Reading(c)
  BY <1>1 DEF ReadsInv, Asking, HasRows
<1>5. ~Reading(c)'
  <2>1. ASSUME NEW access \in Accesses, NEW mode \in Modes, Reach(c, access, mode)
        PROVE  ~Reading(c)'
    <3>1. op' = [op EXCEPT ![c] = [access |-> access, mode |-> mode]]
      BY <2>1 DEF Reach, GetHit, GetMiss, GetPrivate, OpenDevDB, UseDevDB, Start
    <3>2. op'[c].mode = mode /\ mode # "read"
      BY <3>1, Shapes DEF Modes
    <3> QED BY <3>2 DEF Reading
  <2>2. CASE op' = op
    BY <1>4, <2>2 DEF Reading
  <2>3. CASE Unpin(c) \/ ClosePrivate(c)
    BY <2>3, Shapes DEF Unpin, ClosePrivate, Released, Reading
  <2> QED BY <2>1, <2>2, <2>3 DEF Access, Invoke, Return, Unreachable, ResolveFails, GetFails,
          DevDBFails, poolVars, Refresh, Acquire, Borrow, ResetFails, Dial, DialFails,
          AcquireTimesOut, Enter, BeginTx, BeginFails, ApplyScope, ScopeFails, HandlerSets,
          Leave, CloseConn, Commit, Rollback
<1>6. Asking(c)' /\ Answered(c)'
  BY <1>1, <1>4, <1>5 DEF Asking, Answered
<1> QED BY <1>1, <1>3, <1>6 DEF ReadsInv

(* The steps of a read, each about the reader itself.                      *)
LEMMA ReadKeeps ==
    ASSUME PoolsInv, ReadsInv, NEW c \in Readers, Read(c)
    PROVE  ReadsInv'
<1>0. c \in Callers /\ Holding /\ Asking(c) /\ Answered(c) /\ DOMAIN ask = Callers
      /\ DOMAIN got = Callers /\ {"invalid", "devPlaneOnly", "refused", "unauthorized",
         "unavailable", "notFound", "failed"} \subseteq Reasons
  BY ReadsAssumption DEF PoolsInv, ReadsInv, Reasons
<1>a. pc[c] = "handler" => op[c] = None /\ ~Reading(c)
  BY <1>0, Shapes DEF Located, Reading
<1> DEFINE Kept == /\ Asking(c)' /\ Answered(c)'
                   /\ DOMAIN ask' = Callers /\ DOMAIN got' = Callers
                   /\ \A d \in Callers : d # c => ask'[d] = ask[d] /\ got'[d] = got[d]
<1>1. ASSUME NEW t \in Tables, NEW calls \in Queries, NEW id \in Identities(c),
             ReadRefused(c, t, calls, id)
      PROVE  Kept /\ UNCHANGED poolVars
  <2>1. pc[c] = "handler" /\ Fail(c, "invalid") /\ UNCHANGED poolVars
        /\ DOMAIN ask' = Callers /\ \A d \in Callers : d # c => ask'[d] = ask[d]
    BY <1>0, <1>1 DEF ReadRefused, AtHand, Asked
  <2>2. ~Reading(c)'
    BY <1>a, <2>1 DEF Reading, poolVars
  <2> QED BY <1>0, <2>1, <2>2, FailureHasNoRows DEF Asking, Answered
<1>2. ASSUME NEW t \in Tables, NEW calls \in Queries, NEW id \in Identities(c), NEW m \in Manifests,
             ReadDeployed(c, t, calls, id, m)
      PROVE  Kept /\ UNCHANGED poolVars
  <2> DEFINE granted == IF m = None THEN {} ELSE m
             a == [table |-> t, calls |-> calls, id |-> id, dir |-> "unasked",
                   route |-> "manifest", granted |-> granted]
  <2>1. pc[c] = "handler" /\ got[c] = None /\ UNCHANGED poolVars /\ ~Built(calls).err
        /\ ask' = [ask EXCEPT ![c] = a]
    BY <1>2 DEF ReadDeployed, AtHand, Asked
  <2>2. a.calls = calls /\ a.route = "manifest" /\ a.table = t /\ a.granted = granted
    OBVIOUS
  <2>3. ~Reading(c)'
    BY <1>a, <2>1 DEF Reading, poolVars
  <2>4. \/ t \in granted /\ got' = got
        \/ \E why \in {"devPlaneOnly", "refused"} : Fail(c, why)
    BY <1>2 DEF ReadDeployed
  <2> HIDE DEF a, granted
  <2>5. ask'[c] = a /\ DOMAIN ask' = Callers /\ \A d \in Callers : d # c => ask'[d] = ask[d]
    BY <1>0, <2>1
  <2>6. CASE t \in granted /\ got' = got
    BY <1>0, <2>1, <2>2, <2>3, <2>5, <2>6 DEF Asking, Answered, HasRows
  <2>7. ASSUME NEW why \in {"devPlaneOnly", "refused"}, Fail(c, why) PROVE Kept
    BY <1>0, <2>3, <2>5, <2>7, FailureHasNoRows DEF Asking, Answered
  <2> QED BY <2>1, <2>4, <2>6, <2>7
<1>3. ASSUME NEW t \in Tables, NEW calls \in Queries, NEW id \in Identities(c),
             NEW answer \in {"entry", "miss", "error"}, LookUp(c, t, calls, id, answer)
      PROVE  Kept /\ UNCHANGED poolVars
  <2> DEFINE a == [table |-> t, calls |-> calls, id |-> id, dir |-> answer,
                   route |-> IF answer = "entry" THEN "local" ELSE "proxy", granted |-> {}]
  <2>1. pc[c] = "handler" /\ got[c] = None /\ got' = got /\ UNCHANGED poolVars /\ ~Built(calls).err
        /\ ask' = [ask EXCEPT ![c] = a]
    BY <1>3 DEF LookUp, AtHand, Asked
  <2>2. a.calls = calls /\ a.route # "manifest"
    OBVIOUS
  <2>3. ~Reading(c)'
    BY <1>a, <2>1 DEF Reading, poolVars
  <2> HIDE DEF a
  <2>4. ask'[c] = a /\ DOMAIN ask' = Callers /\ \A d \in Callers : d # c => ask'[d] = ask[d]
    BY <1>0, <2>1
  <2> QED BY <1>0, <2>1, <2>2, <2>3, <2>4 DEF Asking, Answered, HasRows
<1>4. ASSUME LocalRefuses(c) PROVE Kept
  <2>1. pc[c] = "handler" /\ Fail(c, "refused") /\ UNCHANGED poolVars /\ ask' = ask
    BY <1>4 DEF LocalRefuses, Pending
  <2>2. ~Reading(c)'
    BY <1>a, <2>1 DEF Reading, poolVars
  <2> QED BY <1>0, <2>1, <2>2, FailureHasNoRows DEF Asking, Answered
<1>5. ASSUME Proxy(c) PROVE Kept
  <2>1. pc[c] = "handler" /\ UNCHANGED poolVars /\ ask' = ask /\ got[c] = None /\ ask[c] # None
        /\ ask[c].route = "proxy"
    BY <1>5 DEF Proxy, Pending
  <2>2. ~Reading(c)'
    BY <1>a, <2>1 DEF Reading, poolVars
  <2>3. ASSUME NEW why \in {"unauthorized", "refused", "unavailable", "notFound", "failed"},
               Fail(c, why)
        PROVE  Kept
    BY <1>0, <2>1, <2>2, <2>3, FailureHasNoRows DEF Asking, Answered
  <2>4. ASSUME NEW a \in Answers(Built(ask[c].calls)),
               Reply(c, [rows |-> a.rows, truncated |-> a.truncated, from |-> "platform"])
        PROVE  Kept
    <3>1. got' = [got EXCEPT ![c] = [rows |-> a.rows, truncated |-> a.truncated, from |-> "platform"]]
      BY <2>4 DEF Reply
    <3>2. got'[c].rows = a.rows /\ got'[c].truncated = a.truncated
          /\ DOMAIN got' = Callers /\ \A d \in Callers : d # c => got'[d] = got[d]
      BY <1>0, <3>1
    <3>3. ask[c].calls \in Queries /\ ~Built(ask[c].calls).err
      BY <1>0, <2>1 DEF Asking
    <3> QED BY <1>0, <2>1, <2>2, <2>4, <3>2, <3>3 DEF Asking, Answered
  <2> QED BY <1>5, <2>1, <2>3, <2>4 DEF Proxy
<1>6. ASSUME ReadReaches(c) PROVE Kept
  <2>1. Reach(c, "app", "read") /\ ask' = ask /\ got' = got /\ MayRead(c)
    BY <1>6 DEF ReadReaches, Reach
  <2>2. PICK p \in Pools : Reached(c, p, "read")
    BY <1>0, <2>1, ReachIsReached DEF Accesses, AnyMode
  <2>3. op' = [op EXCEPT ![c] = [access |-> "app", mode |-> "read"]]
    BY <2>1 DEF Reach, GetHit, GetMiss, GetPrivate, OpenDevDB, UseDevDB, Start
  <2>4. op'[c].access = "app" /\ pc'[c] \in {"acquire", "refresh"} /\ ctx' = ctx
    BY <1>0, <2>2, <2>3, Shapes DEF Reached
  <2>5. LocalAllowed(c)' = LocalAllowed(c)
    BY <2>1, <2>4 DEF LocalAllowed, SchemaIsPinned
  <2> QED BY <1>0, <2>1, <2>4, <2>5 DEF MayRead, Asking, Answered, HasRows
<1>7. ASSUME ReadUnreachable(c) PROVE Kept
  <2>1. pc[c] = "handler" /\ Fail(c, "failed") /\ op' = op /\ ask' = ask
    BY <1>7 DEF ReadUnreachable, MayRead, GetFails, DevDBFails
  <2>2. ~Reading(c)'
    BY <1>a, <2>1 DEF Reading
  <2> QED BY <1>0, <2>1, <2>2, FailureHasNoRows DEF Asking, Answered
<1>8. ASSUME ReadLost(c) \/ ReadFails(c) PROVE Kept
  <2>1. pc'[c] = "unpin" /\ op' = op /\ ctx' = ctx /\ ask' = ask /\ Reading(c)
        /\ \E why \in Reasons : Fail(c, why)
    BY <1>0, <1>8, Shapes DEF ReadLost, ReadFails, AcquireTimesOut, DialFails, BeginFails,
       ScopeFails, ResetFails, Rollback, Goto
  <2>2. LocalAllowed(c)' = LocalAllowed(c)
    BY <2>1 DEF LocalAllowed, SchemaIsPinned
  <2> QED BY <1>0, <2>1, <2>2, FailureHasNoRows DEF Asking, Answered, Reading
<1>9. ASSUME ReadProceeds(c) PROVE Kept
  <2>1. ask' = ask /\ got' = got /\ ctx' = ctx /\ Reading(c)
    BY <1>9 DEF ReadProceeds, Refresh, Borrow, Dial, BeginTx, ApplyScope, Unpin, ResetFails
  <2>2. LocalAllowed(c)' = LocalAllowed(c)
    BY <2>1 DEF LocalAllowed, SchemaIsPinned
  <2>3. CASE Unpin(c)
    <3>1. ~Reading(c)'
      BY <1>0, <2>3, Shapes DEF Unpin, Released, Reading
    <3> QED BY <1>0, <2>1, <3>1 DEF Asking, Answered, HasRows
  <2>4. CASE ~Unpin(c)
    <3>1. op' = op /\ pc[c] # "unpin" /\ pc'[c] \notin {"strayed", "unpin"}
      BY <1>0, <1>9, <2>4, Shapes DEF ReadProceeds, Refresh, Borrow, Dial, BeginTx, ApplyScope,
         ResetFails, Goto, AfterAcquire
    <3> QED BY <1>0, <2>1, <2>2, <3>1 DEF Asking, Answered, HasRows, Reading
  <2> QED BY <2>3, <2>4
<1>10. ASSUME ReadRows(c) PROVE Kept
  <2>1. Reading(c) /\ Commit(c) /\ ctx[c].scoped /\ ask' = ask
        /\ pc[c] = "use" /\ pc'[c] = "unpin" /\ op' = op /\ ctx' = ctx
    BY <1>0, <1>10, Shapes DEF ReadRows, Commit, Goto, Asking
  <2>2. PICK a \in Answers(Built(ask[c].calls)) :
           Reply(c, [rows |-> a.rows, truncated |-> a.truncated, from |-> Effective(conn[has[c]])])
    BY <1>10 DEF ReadRows
  <2>3. got' = [got EXCEPT ![c] = [rows |-> a.rows, truncated |-> a.truncated,
                                   from |-> Effective(conn[has[c]])]]
    BY <2>2 DEF Reply
  <2>4. got'[c].rows = a.rows /\ got'[c].truncated = a.truncated
        /\ got'[c].from = Effective(conn[has[c]])
        /\ DOMAIN got' = Callers /\ \A d \in Callers : d # c => got'[d] = got[d]
    BY <1>0, <2>3
  <2>5. Effective(conn[has[c]]) = ctx[c].app
    <3>1. Effective(conn[has[c]]) = Schema(c)
      BY <1>0, <2>1 DEF PoolsInv, Scoping, Scoped
    <3>2. op[c].access = "app"
      BY <1>0, <2>1 DEF Asking
    <3> QED BY <2>1, <3>1, <3>2 DEF Schema
  <2>6. LocalAllowed(c)' = LocalAllowed(c)
    BY <2>1 DEF LocalAllowed, SchemaIsPinned
  <2>7. /\ ask[c] # None /\ got[c] = None /\ op[c].access = "app"
        /\ ask[c].calls \in Queries /\ ~Built(ask[c].calls).err
        /\ \/ ask[c].route = "manifest" /\ ask[c].table \in ask[c].granted
           \/ ask[c].route = "local" /\ LocalAllowed(c)
    BY <1>0, <2>1 DEF Asking
  <2>8. Asking(c)'
    BY <1>0, <2>1, <2>4, <2>6, <2>7 DEF Asking, Reading
  <2>9. Answered(c)'
    BY <2>1, <2>2, <2>4, <2>5, <2>7 DEF Answered, LocalAllowed, Authorized, SchemaIsPinned
  <2> QED BY <1>0, <2>1, <2>4, <2>8, <2>9
<1>11. ASSUME TakeAnswer(c) PROVE Kept
  <2>1. pc[c] = "handler" /\ UNCHANGED poolVars /\ got' = [got EXCEPT ![c] = None]
        /\ ask' = [ask EXCEPT ![c] = None]
    BY <1>11 DEF TakeAnswer
  <2>2. ~Reading(c)'
    BY <1>a, <2>1 DEF Reading, poolVars
  <2> QED BY <1>0, <2>1, <2>2 DEF Asking, Answered, HasRows
<1>12. Kept
  BY <1>1, <1>2, <1>3, <1>4, <1>5, <1>6, <1>7, <1>8, <1>9, <1>10, <1>11, Zenon DEF Read
<1>13. UNCHANGED poolVars \/ CallerMoves(c)
  BY <1>1, <1>2, <1>3 DEF Read, LocalRefuses, Proxy, TakeAnswer, ReadReaches, ReadUnreachable,
     ReadLost, ReadProceeds, ReadRows, ReadFails, CallerMoves, Reach, Unreachable, Acquire,
     Enter, Leave, AnyMode, Accesses
<1>14. \A d \in Callers : d # c => Asking(d)' /\ Answered(d)'
  <2>1. \A d \in Callers : d # c => pc'[d] = pc[d] /\ op'[d] = op[d] /\ ctx'[d] = ctx[d]
    BY <1>0, <1>13, Elsewhere DEF poolVars
  <2> QED BY <1>12, <2>1, Unmoved DEF ReadsInv
<1> QED BY <1>12, <1>14 DEF ReadsInv

LEMMA ReadsInvHolds == Spec => [](PoolsInv /\ ReadsInv)
<1>1. ReadsInit => PoolsInv /\ ReadsInv
  <2> SUFFICES ASSUME ReadsInit PROVE PoolsInv /\ ReadsInv
    OBVIOUS
  <2>1. PoolsInv
    BY PoolsInvInit DEF ReadsInit
  <2>2. DOMAIN ask = Callers /\ DOMAIN got = Callers
        /\ \A c \in Callers : ask[c] = None /\ got[c] = None /\ op[c] = None
    BY DEF ReadsInit, PoolsInit
  <2> QED BY <2>1, <2>2 DEF ReadsInv, Asking, Answered, HasRows, Reading
<1>2. PoolsInv /\ ReadsInv /\ [Next]_vars => ReadsInv'
  <2> SUFFICES ASSUME PoolsInv, ReadsInv, [Next]_vars PROVE ReadsInv'
    OBVIOUS
  <2>1. CASE \E c \in Callers : Access(c)
    BY <2>1, AccessKeeps DEF PoolsInv
  <2>2. CASE \E c \in Readers : Read(c)
    BY <2>2, ReadKeeps
  <2>3. CASE ((Tick \/ ConnExpires) /\ UNCHANGED <<ask, got>>) \/ UNCHANGED vars
    <3>1. UNCHANGED <<pc, op, ctx, ask, got>>
      BY <2>3 DEF Tick, ConnExpires, vars, poolVars
    <3> QED BY <3>1, Unmoved DEF ReadsInv
  <2> QED BY <2>1, <2>2, <2>3 DEF Next
<1>3. PoolsInv /\ [Next]_vars => PoolsInv'
  BY PoolsInvKept, NextMoves
<1> QED BY <1>1, <1>2, <1>3, PTL DEF Spec

(* A read's rows come from a table the consumer declared and the producer   *)
(* exposes, in the schema of the request's app, or from a table of the      *)
(* invocation's own manifest (authorizeLocalRead, resultDeployed).          *)
THEOREM OnlyAuthorizedRows == Spec => []RowsAreAuthorized
<1>1. ReadsInv => RowsAreAuthorized
  BY DEF ReadsInv, Answered, RowsAreAuthorized
<1> QED BY <1>1, ReadsInvHolds, PTL

(* An answer has the rows every builder call admits, up to the limit, and   *)
(* is marked truncated exactly when there are more.                         *)
THEOREM ExactAnswers == Spec => []AnswersAreExact
<1>1. ReadsInv => AnswersAreExact
  <2> SUFFICES ASSUME ReadsInv, NEW c \in Callers, HasRows(c)
               PROVE  LET admitted == Cardinality(AdmittedRows(ask[c].calls))
                          most == MostRows(LastLimit(ask[c].calls))
                          n == Cardinality(got[c].rows)
                      IN  /\ got[c].rows \subseteq AdmittedRows(ask[c].calls)
                          /\ n = IF admitted <= most THEN admitted ELSE most
                          /\ got[c].truncated <=> n < admitted
    BY DEF AnswersAreExact
  <2> DEFINE calls == ask[c].calls
  <2>1. calls \in Queries /\ ~Built(calls).err
    BY DEF ReadsInv, Asking
  <2>2. PICK a \in Answers(Built(calls)) : got[c].rows = a.rows /\ got[c].truncated = a.truncated
    BY DEF ReadsInv, Answered
  <2>3. Built(calls).limit \in Int /\ Built(calls).limit = LastLimit(calls)
        /\ \A r : Matches(Built(calls), r) <=> \A i \in DOMAIN calls : Admits(calls[i], r)
    BY <2>1, BuiltExactly
  <2>4. Matching(Built(calls)) = AdmittedRows(calls)
    BY <2>3 DEF Matching, Admits, AdmittedRows
  <2>5. Limit(Built(calls)) = MostRows(LastLimit(calls))
    BY <2>3 DEF Limit, MostRows
  <2>6. /\ a.rows \subseteq Matching(Built(calls))
        /\ Cardinality(a.rows) = IF Cardinality(Matching(Built(calls))) <= Limit(Built(calls))
                                 THEN Cardinality(Matching(Built(calls))) ELSE Limit(Built(calls))
        /\ a.truncated <=> Cardinality(a.rows) < Cardinality(Matching(Built(calls)))
    BY <2>3, AnswersCut
  <2> QED BY <2>2, <2>4, <2>5, <2>6
<1> QED BY <1>1, ReadsInvHolds, PTL

=============================================================================
