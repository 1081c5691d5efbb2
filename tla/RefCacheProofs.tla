--------------------------- MODULE RefCacheProofs ---------------------------
(***************************************************************************)
(* Proofs about RefCache, for any number of callers, keys, resources and   *)
(* calls of Close, and any size limit.                                     *)
(***************************************************************************)
EXTENDS RefCache, FiniteSetTheorems, TLAPS

Entries == [value : 0..MaxValues, refCount : Nat]

Leading == {"recheck", "factory", "insert", "ok", "fail"}

\* The closure of a key runs in the caller its flight names.
LeaderInFlight ==
    \A c \in Callers : pc[c] \in Leading => flight[key[c]] = c

\* Between the second look and the insert nobody fills the leader's key.
LeaderMissed ==
    \A c \in Callers : pc[c] \in {"factory", "insert"} => ~Cached(key[c])

\* A resource is cached under one key, or is in the hands of the one leader
\* that created it.
OneOwner ==
    /\ \A j, k \in Keys : Cached(j) /\ items[j].value = items[k].value => j = k
    /\ \A k \in Keys : items[k].value \in 0..made
    /\ \A k \in Keys : ~Cached(k) => items[k].refCount = 0
    /\ \A c \in Callers :
          pc[c] = "insert" => val[c] \in 1..made /\ \A k \in Keys : items[k].value # val[c]
    /\ \A c, d \in Callers :
          pc[c] = "insert" /\ pc[d] = "insert" /\ val[c] = val[d] => c = d

\* A resource that does not exist was not closed.
NotYetClosed == \A v \in Values : v > made => closes[v] = 0

\* Until Close, a caller's value is the one cached under its key.
HoldsCached ==
    shut = 0 => \A c \in Callers :
        Pinned(c) => Cached(key[c]) /\ items[key[c]].value = val[c]

FiniteCache == IsFiniteSet(CachedKeys)

\* The three parts of the inductive invariant.
Ownership ==
    LeaderInFlight /\ LeaderMissed /\ OneOwner /\ NotYetClosed /\ NothingLeaks

Pinning == HoldsCached /\ RefCountExact

Sizing == FiniteCache /\ SizeBounded

---------------------------------------------------------------------------
\* An entry built from well typed parts is well typed.
LEMMA EntryType ==
    ASSUME NEW v \in 0..MaxValues, NEW n \in Nat
    PROVE  Entry(v, n) \in Entries
  BY DEF Entry, Entries

\* Running a closer keeps the counts natural numbers.
LEMMA ClosesType ==
    ASSUME NEW f \in [Values -> Nat], NEW v \in 0..MaxValues
    PROVE  [f EXCEPT ![v] = @ + 1] \in [Values -> Nat]
  <1>1. CASE v \in Values
    <2>1. f[v] + 1 \in Nat
      BY <1>1
    <2> QED
      BY <2>1
  <1>2. CASE v \notin Values
    BY <1>2
  <1> QED
    BY <1>1, <1>2

\* Touching a key keeps the use order a relation on keys.
LEMMA TouchType ==
    ASSUME older \subseteq Keys \X Keys, NEW k \in Keys
    PROVE  Touch(k) \subseteq Keys \X Keys
  BY DEF Touch, CachedKeys

\* Every reachable state of the cache has the declared types; in particular
\* no reference count becomes negative, not even by releases after Close.
THEOREM TypeCorrect == Spec => []TypeOK
  <1> USE BoundsAssumption, CallersAssumption
  <1>1. Init => TypeOK
    BY DEF Init, TypeOK, NoEntry, Entry, Locations, Results, Values
  <1>2. TypeOK /\ [Next]_vars => TypeOK'
    <2> SUFFICES ASSUME TypeOK, [Next]_vars PROVE TypeOK'
      OBVIOUS
    <2> USE DEF TypeOK, Locations, Results, Values
    <2>1. CASE UNCHANGED vars
      BY <2>1 DEF vars
    <2>2. ASSUME NEW c \in Callers, NEW k \in Keys, Pin(c, k)
          PROVE  /\ items' \in [Keys -> [value : 0..MaxValues, refCount : Nat]]
                 /\ older' \subseteq Keys \X Keys
                 /\ val' \in [Callers -> 0..MaxValues]
      <3>1. items' \in [Keys -> [value : 0..MaxValues, refCount : Nat]]
        BY <2>2 DEF Pin, Entry
      <3>2. older' \subseteq Keys \X Keys
        BY <2>2, TouchType DEF Pin
      <3>3. val' \in [Callers -> 0..MaxValues]
        BY <2>2 DEF Pin
      <3> QED
        BY <3>1, <3>2, <3>3
    <2>3. ASSUME NEW c \in Callers, NEW k \in Keys, GetHit(c, k) PROVE TypeOK'
      BY <2>3, <2>2 DEF GetHit
    <2>4. ASSUME NEW c \in Callers, NEW k \in Keys, GetMiss(c, k) PROVE TypeOK'
      BY <2>4 DEF GetMiss
    <2>5. ASSUME NEW c \in Callers, EnterDo(c) PROVE TypeOK'
      <3>1. \/ UNCHANGED flight
            \/ flight' = [flight EXCEPT ![key[c]] = c]
        BY <2>5 DEF EnterDo
      <3>3. flight' \in [Keys -> Callers \cup {None}]
        BY <3>1
      <3>4. \E where \in Locations : pc' = [pc EXCEPT ![c] = where]
        BY <2>5 DEF EnterDo
      <3>5. pc' \in [Callers -> Locations]
        BY <3>4
      <3>2. UNCHANGED <<items, older, key, val, result, made, closes, shut>>
        BY <2>5 DEF EnterDo
      <3> QED
        BY <3>2, <3>3, <3>5
    <2>5b. ASSUME NEW c \in Callers, RecheckMiss(c) \/ FactoryError(c) PROVE TypeOK'
      BY <2>5b DEF RecheckMiss, FactoryError
    <2>5a. ASSUME NEW c \in Callers, FactoryOk(c) PROVE TypeOK'
      <3>1. made' \in 0..MaxValues /\ val' \in [Callers -> 0..MaxValues]
        BY <2>5a DEF FactoryOk
      <3> QED
        BY <2>5a, <3>1 DEF FactoryOk
    <2>6. ASSUME NEW c \in Callers, RecheckHit(c) \/ BumpHit(c) PROVE TypeOK'
      BY <2>6, <2>2 DEF RecheckHit, BumpHit
    <2>7. ASSUME NEW c \in Callers, Insert(c) PROVE TypeOK'
      BY <2>7, TouchType DEF Insert, Filled, Entry
    <2>8. ASSUME NEW c \in Callers, InsertEvicting(c) PROVE TypeOK'
      <3>1. PICK old \in Oldest :
              /\ closes' = [closes EXCEPT ![items[old].value] = @ + 1]
              /\ items' = [items EXCEPT ![old] = NoEntry, ![key[c]] = Filled(c)]
              /\ older' = {p \in Touch(key[c]) : old \notin {p[1], p[2]}}
        BY <2>8 DEF InsertEvicting
      <3>2. closes' \in [Values -> Nat]
        <4>1. items[old].value \in 0..MaxValues
          BY DEF Oldest, Evictable, CachedKeys
        <4> HIDE DEF Values
        <4> QED
          BY <3>1, <4>1, ClosesType
      <3>3. items' \in [Keys -> [value : 0..MaxValues, refCount : Nat]]
        <4>1. NoEntry \in Entries /\ Filled(c) \in Entries
          BY EntryType DEF NoEntry, Filled
        <4> QED
          BY <3>1, <4>1 DEF Entries
      <3>4. older' \subseteq Keys \X Keys
        BY <3>1, TouchType
      <3> QED
        BY <2>8, <3>2, <3>3, <3>4 DEF InsertEvicting
    <2>9. ASSUME NEW c \in Callers, InsertRefused(c) PROVE TypeOK'
      <3>1. closes' \in [Values -> Nat]
        <4>1. val[c] \in 0..MaxValues
          OBVIOUS
        <4> HIDE DEF Values
        <4> QED
          BY <2>9, <4>1, ClosesType DEF InsertRefused
      <3>2. /\ val' \in [Callers -> 0..MaxValues] /\ pc' \in [Callers -> Locations]
            /\ result' \in [Callers -> Results]
        BY <2>9 DEF InsertRefused
      <3>3. UNCHANGED <<items, older, flight, key, made, shut>>
        BY <2>9 DEF InsertRefused
      <3> QED
        BY <3>1, <3>2, <3>3
    <2>10. ASSUME NEW c \in Callers, FinishOk(c) \/ FinishError(c) \/ BumpVanished(c) PROVE TypeOK'
      BY <2>10 DEF FinishOk, FinishError, BumpVanished
    <2>11. ASSUME NEW c \in Callers, Release(c) PROVE TypeOK'
      BY <2>11 DEF Release, Unpinned, Entry
    <2>12. CASE Close
      BY <2>12 DEF Close, NoEntry, Entry
    <2> QED
      BY <2>1, <2>3, <2>4, <2>5, <2>5a, <2>5b, <2>6, <2>7, <2>8, <2>9, <2>10, <2>11, <2>12 DEF Next, Step
  <1> QED
    BY <1>1, <1>2, PTL DEF Spec

---------------------------------------------------------------------------
\* Ownership does not depend on the pins.

\* Resource v is cached, or about to be.
Live(v) ==
    \/ \E k \in Keys : items[k].value = v
    \/ \E c \in Callers : pc[c] = "insert" /\ val[c] = v

Accounted == \A v \in 1..made : closes[v] = IF Live(v) THEN 0 ELSE 1

\* NothingLeaks with its LET unfolded, which is easier to reason about.
LEMMA AccountedIsNothingLeaks == TypeOK => (NothingLeaks <=> Accounted)
  <1> SUFFICES ASSUME TypeOK PROVE NothingLeaks <=> Accounted
    OBVIOUS
  <1>1. ASSUME NEW v \in 1..made
        PROVE  v \in CachedValues <=> \E k \in Keys : items[k].value = v
    <2>1. v # 0
      BY DEF TypeOK
    <2> QED
      BY <2>1 DEF CachedValues, CachedKeys, Cached
  <1> QED
    BY <1>1 DEF NothingLeaks, Accounted, Live

\* What a step that moves no resource keeps.
LEMMA OwnershipFrame ==
    ASSUME TypeOK, OneOwner, NotYetClosed, Accounted,
           \A k \in Keys : items'[k].value = items[k].value,
           \A k \in Keys : items[k].value = 0 => items'[k].refCount = 0,
           \A d \in Callers : pc'[d] = "insert" <=> pc[d] = "insert",
           \A d \in Callers : pc[d] = "insert" => val'[d] = val[d],
           UNCHANGED <<made, closes>>
    PROVE  OneOwner' /\ NotYetClosed' /\ Accounted'
  <1>1. OneOwner'
    BY DEF OneOwner, Cached
  <1>2. NotYetClosed'
    BY DEF NotYetClosed
  <1>3. \A v \in 1..made : Live(v)' <=> Live(v)
    BY DEF Live
  <1>4. Accounted'
    BY <1>3 DEF Accounted
  <1> QED
    BY <1>1, <1>2, <1>4

\* A pin leaves every cached resource and its key in place.
LEMMA PinFrame ==
    ASSUME TypeOK, OneOwner, NEW c \in Callers, NEW k \in Keys, Cached(k), Pin(c, k)
    PROVE  /\ \A j \in Keys : items'[j].value = items[j].value
           /\ \A j \in Keys : items[j].value = 0 => items'[j].refCount = 0
           /\ \A d \in Callers \ {c} : val'[d] = val[d]
           /\ val'[c] = items[k].value
           /\ items'[k].refCount = items[k].refCount + 1
           /\ \A j \in Keys \ {k} : items'[j] = items[j]
  <1>1. items' = [items EXCEPT ![k] = Entry(items[k].value, items[k].refCount + 1)]
    BY DEF Pin
  <1>2. items'[k] = Entry(items[k].value, items[k].refCount + 1)
    BY <1>1 DEF TypeOK
  <1>3. items'[k].value = items[k].value /\ items'[k].refCount = items[k].refCount + 1
    BY <1>2 DEF Entry
  <1>4. \A j \in Keys \ {k} : items'[j] = items[j]
    BY <1>1 DEF TypeOK
  <1>5. \A j \in Keys : items[j].value = 0 => items'[j].refCount = 0
    BY <1>4 DEF OneOwner, Cached
  <1>6. val'[c] = items[k].value /\ \A d \in Callers \ {c} : val'[d] = val[d]
    BY DEF Pin, TypeOK
  <1> QED
    BY <1>3, <1>4, <1>5, <1>6

\* Who owns which resource: preserved, action by action.
LEMMA OwnershipStep == TypeOK /\ TypeOK' /\ Ownership /\ [Next]_vars => Ownership'
  <1> SUFFICES ASSUME TypeOK, TypeOK', Ownership, [Next]_vars PROVE Ownership'
    OBVIOUS
  <1> USE BoundsAssumption, CallersAssumption
  <1> DEFINE Owns == OneOwner /\ NotYetClosed /\ Accounted
             Leads == LeaderInFlight /\ LeaderMissed
  <1>a. Owns /\ Leads
    BY AccountedIsNothingLeaks DEF Ownership
  <1>b. SUFFICES Owns' /\ Leads'
    <2>1. NothingLeaks' <=> Accounted'
      BY AccountedIsNothingLeaks, PTL
    <2> QED
      BY <2>1 DEF Ownership
  <1> USE DEF Leading, LeaderInFlight, LeaderMissed, Cached
  <1>1. CASE UNCHANGED vars
    BY <1>1, <1>a DEF vars, OneOwner, NotYetClosed, Accounted, Live
  <1>2. ASSUME NEW c \in Callers, NEW k \in Keys, GetHit(c, k) PROVE Owns' /\ Leads'
    <2>1. Cached(k) /\ Pin(c, k) /\ UNCHANGED <<flight, made, closes>>
      BY <1>2 DEF GetHit
    <2>2. /\ pc'[c] = "hold" /\ pc[c] = "idle"
          /\ \A d \in Callers \ {c} : pc'[d] = pc[d] /\ key'[d] = key[d]
      BY <1>2 DEF GetHit, TypeOK
    <2>3. Owns'
      BY <1>a, <2>1, <2>2, PinFrame, OwnershipFrame
    <2>4. Leads'
      BY <1>a, <2>1, <2>2, PinFrame DEF TypeOK
    <2> QED
      BY <2>3, <2>4
  <1>3. ASSUME NEW c \in Callers, RecheckHit(c) \/ BumpHit(c) PROVE Owns' /\ Leads'
    <2>1. /\ key[c] \in Keys /\ Cached(key[c]) /\ Pin(c, key[c])
          /\ UNCHANGED <<flight, key, made, closes>>
      BY <1>3 DEF RecheckHit, BumpHit, TypeOK
    <2>2. /\ pc'[c] # "insert" /\ pc[c] # "insert"
          /\ pc'[c] \in Leading => pc[c] \in Leading
          /\ pc'[c] \notin {"factory", "insert"}
          /\ \A d \in Callers \ {c} : pc'[d] = pc[d]
      <3>1. CASE RecheckHit(c)
        BY <3>1 DEF RecheckHit, TypeOK
      <3>2. CASE BumpHit(c)
        BY <3>2 DEF BumpHit, TypeOK
      <3> QED
        BY <1>3, <3>1, <3>2
    <2>3. /\ \A j \in Keys : items'[j].value = items[j].value
          /\ \A j \in Keys : items[j].value = 0 => items'[j].refCount = 0
          /\ \A d \in Callers \ {c} : val'[d] = val[d]
      BY <1>a, <2>1, PinFrame
    <2>4. Owns'
      BY <1>a, <2>1, <2>2, <2>3, OwnershipFrame
    <2>5. Leads'
      BY <1>a, <2>1, <2>2, <2>3 DEF TypeOK
    <2> QED
      BY <2>4, <2>5
  <1>4. ASSUME NEW c \in Callers, NEW k \in Keys, GetMiss(c, k) PROVE Owns' /\ Leads'
    <2>1. /\ pc'[c] = "miss" /\ pc[c] = "idle"
          /\ \A d \in Callers \ {c} : pc'[d] = pc[d] /\ key'[d] = key[d]
          /\ UNCHANGED <<items, flight, val, made, closes>>
      BY <1>4 DEF GetMiss, TypeOK
    <2>2. Owns'
      BY <1>a, <2>1, OwnershipFrame DEF OneOwner
    <2>3. Leads'
      BY <1>a, <2>1 DEF TypeOK
    <2> QED
      BY <2>2, <2>3
  <1>5. ASSUME NEW c \in Callers,
               \/ EnterDo(c) \/ RecheckMiss(c) \/ FactoryError(c) \/ BumpVanished(c)
        PROVE  Owns' /\ Leads'
    <2>1. /\ pc'[c] # "insert" /\ pc[c] # "insert"
          /\ \A d \in Callers \ {c} : pc'[d] = pc[d]
          /\ UNCHANGED <<items, key, val, made, closes>>
      BY <1>5 DEF EnterDo, RecheckMiss, FactoryError, BumpVanished, TypeOK
    <2>2. Owns'
      BY <1>a, <2>1, OwnershipFrame DEF OneOwner
    <2>3. CASE EnterDo(c)
      <3>1. CASE flight[key[c]] = None
        <4>1. /\ \A k \in Keys : flight'[k] = IF k = key[c] THEN c ELSE flight[k]
              /\ pc'[c] = "recheck"
          BY <2>3, <3>1 DEF EnterDo, TypeOK
        <4> QED
          BY <1>a, <2>1, <2>2, <3>1, <4>1 DEF TypeOK
      <3>2. CASE flight[key[c]] # None
        <4>1. UNCHANGED flight /\ pc'[c] = "wait"
          BY <2>3, <3>2 DEF EnterDo, TypeOK
        <4> QED
          BY <1>a, <2>1, <2>2, <4>1 DEF TypeOK
      <3> QED
        BY <2>2, <3>1, <3>2
    <2>4. CASE RecheckMiss(c)
      BY <1>a, <2>1, <2>2, <2>4 DEF RecheckMiss, TypeOK
    <2>5. CASE FactoryError(c)
      BY <1>a, <2>1, <2>2, <2>5 DEF FactoryError, TypeOK
    <2>6. CASE BumpVanished(c)
      BY <1>a, <2>1, <2>2, <2>6 DEF BumpVanished, TypeOK
    <2> QED
      BY <1>5, <2>3, <2>4, <2>5, <2>6
  <1>6. ASSUME NEW c \in Callers, FactoryOk(c) PROVE Owns' /\ Leads'
    <2>1. /\ pc[c] = "factory" /\ pc'[c] = "insert" /\ val'[c] = made + 1
          /\ made' = made + 1 /\ made + 1 \in Values
          /\ \A d \in Callers \ {c} : pc'[d] = pc[d] /\ val'[d] = val[d]
          /\ UNCHANGED <<items, flight, key, closes>>
      BY <1>6 DEF FactoryOk, TypeOK, Values
    <2>2. made \in Nat
      BY DEF TypeOK
    <2>3. OneOwner'
      BY <1>a, <2>1, <2>2 DEF OneOwner
    <2>4. NotYetClosed'
      BY <1>a, <2>1, <2>2 DEF NotYetClosed, Values
    <2>5. closes[made + 1] = 0
      BY <1>a, <2>1, <2>2 DEF NotYetClosed, Values
    <2>6. ASSUME NEW v \in 1..made PROVE Live(v)' <=> Live(v)
      BY <2>1, <2>2 DEF Live
    <2>7. PICK n \in Values : n = made + 1
      BY <2>1
    <2>8. Accounted'
      <3>1. Live(n)' /\ closes'[n] = 0
        BY <2>1, <2>5, <2>7 DEF Live
      <3>2. \A v \in 1..made : closes'[v] = IF Live(v)' THEN 0 ELSE 1
        BY <1>a, <2>1, <2>6 DEF Accounted
      <3>3. 1..made' = 1..made \cup {n}
        BY <2>1, <2>2, <2>7
      <3> QED
        BY <3>1, <3>2, <3>3 DEF Accounted
    <2>9. Leads'
      BY <1>a, <2>1
    <2> QED
      BY <2>3, <2>4, <2>8, <2>9
  <1>7. ASSUME NEW c \in Callers, FinishOk(c) \/ FinishError(c) PROVE Owns' /\ Leads'
    <2>1. /\ pc[c] \in {"ok", "fail"} /\ pc'[c] \in {"hold", "idle"}
          /\ \A d \in Callers \ {c} :
                \/ pc'[d] = pc[d]
                \/ pc[d] = "wait" /\ pc'[d] \in {"bump", "idle"}
          /\ \A k \in Keys : flight'[k] = IF k = key[c] THEN None ELSE flight[k]
          /\ UNCHANGED <<items, key, val, made, closes>>
      BY <1>7 DEF FinishOk, FinishError, Followers, TypeOK
    <2>2. Owns'
      BY <1>a, <2>1, OwnershipFrame DEF OneOwner
    <2>3. Leads'
      BY <1>a, <2>1, ZenonT(60) DEF TypeOK
    <2> QED
      BY <2>2, <2>3
  <1>8. ASSUME NEW c \in Callers, Release(c) PROVE Owns' /\ Leads'
    <2>1. /\ pc[c] = "hold" /\ pc'[c] = "idle"
          /\ \A d \in Callers \ {c} : pc'[d] = pc[d] /\ val'[d] = val[d]
          /\ UNCHANGED <<flight, key, made, closes>>
      BY <1>8 DEF Release, TypeOK
    <2>2. /\ \A k \in Keys : items'[k].value = items[k].value
          /\ \A k \in Keys : items[k].value = 0 => items'[k] = items[k]
      BY <1>8 DEF Release, Unpinned, Entry, TypeOK
    <2>3. Owns'
      BY <1>a, <2>1, <2>2, OwnershipFrame DEF OneOwner
    <2>4. Leads'
      BY <1>a, <2>1, <2>2 DEF TypeOK
    <2> QED
      BY <2>3, <2>4
  <1>9. ASSUME NEW c \in Callers, Insert(c) PROVE Owns' /\ Leads'
    <2>1. /\ pc[c] = "insert" /\ pc'[c] = "ok" /\ key[c] \in Keys
          /\ \A d \in Callers \ {c} : pc'[d] = pc[d]
          /\ items' = [items EXCEPT ![key[c]] = Filled(c)]
          /\ UNCHANGED <<flight, key, val, made, closes>>
      BY <1>9 DEF Insert, TypeOK
    <2>2. /\ items'[key[c]].value = val[c] /\ items'[key[c]].refCount = 1
          /\ \A k \in Keys \ {key[c]} : items'[k] = items[k]
      BY <2>1 DEF Filled, Entry, TypeOK
    <2>3. items[key[c]].value = 0
      BY <1>a, <2>1
    <2>4. OneOwner'
      BY <1>a, <2>1, <2>2, <2>3 DEF OneOwner, TypeOK
    <2>5. NotYetClosed'
      BY <1>a, <2>1 DEF NotYetClosed
    <2>6. ASSUME NEW v \in 1..made PROVE Live(v)' <=> Live(v)
      BY <2>1, <2>2, <2>3 DEF Live, TypeOK
    <2>7. Accounted'
      BY <1>a, <2>1, <2>6 DEF Accounted
    <2>8. Leads'
      BY <1>a, <2>1, <2>2 DEF TypeOK
    <2> QED
      BY <2>4, <2>5, <2>7, <2>8
  <1>10. ASSUME NEW c \in Callers, InsertEvicting(c) PROVE Owns' /\ Leads'
    <2>1. PICK old \in Oldest :
            /\ closes' = [closes EXCEPT ![items[old].value] = @ + 1]
            /\ items' = [items EXCEPT ![old] = NoEntry, ![key[c]] = Filled(c)]
      BY <1>10 DEF InsertEvicting
    <2>2. /\ pc[c] = "insert" /\ pc'[c] = "ok" /\ key[c] \in Keys
          /\ \A d \in Callers \ {c} : pc'[d] = pc[d]
          /\ UNCHANGED <<flight, key, val, made>>
      BY <1>10 DEF InsertEvicting, TypeOK
    <2>3. old \in Keys /\ items[old].value # 0 /\ items[key[c]].value = 0 /\ old # key[c]
      BY <1>a, <2>2 DEF Oldest, Evictable, CachedKeys
    <2>4. /\ items'[key[c]].value = val[c] /\ items'[key[c]].refCount = 1
          /\ items'[old].value = 0 /\ items'[old].refCount = 0
          /\ \A k \in Keys \ {key[c], old} : items'[k] = items[k]
      BY <2>1, <2>2, <2>3 DEF Filled, NoEntry, Entry, TypeOK
    <2>5. PICK x \in 1..made : x = items[old].value
      BY <1>a, <2>3 DEF OneOwner, TypeOK
    <2>6. /\ x \in Values /\ closes'[x] = closes[x] + 1
          /\ \A v \in Values \ {x} : closes'[v] = closes[v]
      BY <2>1, <2>5 DEF TypeOK, Values
    <2>15. val[c] \in 1..made /\ val[c] # 0 /\ \A k \in Keys : items[k].value # val[c]
      BY <1>a, <2>2 DEF OneOwner, TypeOK
    <2>14. /\ \A k \in Keys : items'[k].value = IF k = key[c] THEN val[c]
                                                ELSE IF k = old THEN 0 ELSE items[k].value
          /\ \A k \in Keys : items'[k].value = 0 => items'[k].refCount = 0
      <3>1. \A k \in Keys : items'[k].value = IF k = key[c] THEN val[c]
                                              ELSE IF k = old THEN 0 ELSE items[k].value
        BY <2>4
      <3>2. \A k \in Keys : items[k].value = 0 => items[k].refCount = 0
        BY <1>a DEF OneOwner
      <3>3. \A k \in Keys : items'[k].value = 0 => items'[k].refCount = 0
        BY <2>4, <2>15, <3>2
      <3> QED
        BY <3>1, <3>3
    <2>7. OneOwner'
      <3>1. \A j, k \in Keys : Cached(j)' /\ items'[j].value = items'[k].value => j = k
        BY <1>a, <2>2, <2>3, <2>14, <2>15 DEF OneOwner
      <3>2. \A k \in Keys : items'[k].value \in 0..made'
        <4>1. \A k \in Keys : items[k].value \in 0..made
          BY <1>a DEF OneOwner
        <4>2. val[c] \in 0..made /\ 0 \in 0..made /\ made' = made
          BY <2>2, <2>15 DEF TypeOK
        <4> QED
          BY <2>14, <4>1, <4>2
      <3>3. \A d \in Callers : pc'[d] = "insert" => pc[d] = "insert" /\ d # c /\ val[d] # val[c]
        BY <1>a, <2>2 DEF OneOwner
      <3>4. \A d \in Callers : pc'[d] = "insert" =>
              val'[d] \in 1..made' /\ \A k \in Keys : items'[k].value # val'[d]
        BY <1>a, <2>2, <2>14, <3>3 DEF OneOwner, TypeOK
      <3>5. \A d, e \in Callers :
              pc'[d] = "insert" /\ pc'[e] = "insert" /\ val'[d] = val'[e] => d = e
        BY <1>a, <2>2, <3>3 DEF OneOwner
      <3> QED
        BY <2>14, <3>1, <3>2, <3>4, <3>5 DEF OneOwner
    <2>8. NotYetClosed'
      BY <1>a, <2>2, <2>5, <2>6 DEF NotYetClosed, TypeOK, Values
    <2>9. ASSUME NEW v \in 1..made PROVE Live(v)' <=> Live(v) /\ v # x
      <3>1. CASE v = x
        <4>1. \A k \in Keys : items'[k].value # v
          BY <1>a, <2>2, <2>3, <2>5, <2>14, <2>15, <3>1 DEF OneOwner, TypeOK
        <4>2. \A d \in Callers : pc'[d] = "insert" => val'[d] # v
          BY <1>a, <2>2, <2>3, <2>5, <3>1 DEF OneOwner
        <4> QED
          BY <3>1, <4>1, <4>2 DEF Live
      <3>2. CASE v # x
        <4>1. (\E k \in Keys : items'[k].value = v) <=>
                  v = val[c] \/ \E k \in Keys : items[k].value = v
          <5>1. v # 0
            BY DEF TypeOK
          <5>2. items'[key[c]].value = val[c] /\ key[c] \in Keys
            BY <2>2, <2>4
          <5>3. \A k \in Keys : items[k].value = v => k # key[c] /\ k # old
            BY <2>3, <2>5, <3>2, <5>1
          <5> QED
            BY <2>14, <5>1, <5>2, <5>3
        <4>2. (\E d \in Callers : pc'[d] = "insert" /\ val'[d] = v) \/ v = val[c] <=>
                  \E d \in Callers : pc[d] = "insert" /\ val[d] = v
          BY <2>2
        <4> QED
          BY <3>2, <4>1, <4>2 DEF Live
      <3> QED
        BY <3>1, <3>2
    <2>10. Live(x)
      BY <2>3, <2>5 DEF Live
    <2>11. 1..made \subseteq Values
      BY DEF TypeOK, Values
    <2>12. Accounted'
      BY <1>a, <2>2, <2>6, <2>9, <2>10, <2>11 DEF Accounted
    <2>13. Leads'
      BY <1>a, <2>2, <2>3, <2>14 DEF TypeOK
    <2> QED
      BY <2>7, <2>8, <2>12, <2>13
  <1>11. ASSUME NEW c \in Callers, InsertRefused(c) PROVE Owns' /\ Leads'
    <2>1. /\ pc[c] = "insert" /\ pc'[c] = "fail"
          /\ \A d \in Callers \ {c} : pc'[d] = pc[d] /\ val'[d] = val[d]
          /\ closes' = [closes EXCEPT ![val[c]] = @ + 1]
          /\ UNCHANGED <<items, flight, key, made>>
      BY <1>11 DEF InsertRefused, TypeOK
    <2>2. PICK x \in 1..made : x = val[c]
      BY <1>a, <2>1 DEF OneOwner
    <2>3. /\ x \in Values /\ closes'[x] = closes[x] + 1
          /\ \A v \in Values \ {x} : closes'[v] = closes[v]
      BY <2>1, <2>2 DEF TypeOK, Values
    <2>4. OneOwner'
      BY <1>a, <2>1 DEF OneOwner
    <2>5. NotYetClosed'
      BY <1>a, <2>1, <2>2, <2>3 DEF NotYetClosed, TypeOK, Values
    <2>6. ASSUME NEW v \in 1..made PROVE Live(v)' <=> Live(v) /\ v # x
      BY <1>a, <2>1, <2>2 DEF Live, OneOwner
    <2>7. Live(x)
      BY <2>1, <2>2 DEF Live
    <2>8. 1..made \subseteq Values
      BY DEF TypeOK, Values
    <2>9. Accounted'
      BY <1>a, <2>1, <2>3, <2>6, <2>7, <2>8 DEF Accounted
    <2>10. Leads'
      BY <1>a, <2>1 DEF TypeOK
    <2> QED
      BY <2>4, <2>5, <2>9, <2>10
  <1>12. CASE Close
    <2>1. /\ \A k \in Keys : items'[k].value = 0 /\ items'[k].refCount = 0
          /\ UNCHANGED <<flight, pc, key, val, made>>
      BY <1>12 DEF Close, NoEntry, Entry
    <2>2. \A v \in Values : closes'[v] = IF v \in CachedValues THEN closes[v] + 1 ELSE closes[v]
      BY <1>12 DEF Close
    <2>3. ASSUME NEW v \in Values
          PROVE  v \in CachedValues <=> \E k \in Keys : items[k].value = v
      BY DEF CachedValues, CachedKeys, Values
    <2>4. OneOwner'
      BY <1>a, <2>1 DEF OneOwner, TypeOK
    <2>5. NotYetClosed'
      BY <1>a, <2>1, <2>2, <2>3 DEF NotYetClosed, OneOwner, TypeOK, Values
    <2>6. ASSUME NEW v \in 1..made PROVE closes'[v] = IF Live(v)' THEN 0 ELSE 1
      <3>1. v \in Values /\ closes[v] = IF Live(v) THEN 0 ELSE 1
        BY <1>a DEF Accounted, TypeOK, Values
      <3>2. Live(v)' <=> \E c \in Callers : pc[c] = "insert" /\ val[c] = v
        BY <2>1 DEF Live, TypeOK
      <3>3. CASE \E k \in Keys : items[k].value = v
        BY <1>a, <2>2, <2>3, <3>1, <3>2, <3>3 DEF Live, OneOwner
      <3>4. CASE ~\E k \in Keys : items[k].value = v
        BY <2>2, <2>3, <3>1, <3>2, <3>4 DEF Live
      <3> QED
        BY <3>3, <3>4
    <2>7. Accounted'
      BY <2>1, <2>6 DEF Accounted
    <2>8. Leads'
      BY <1>a, <2>1 DEF TypeOK
    <2> QED
      BY <2>4, <2>5, <2>7, <2>8
  <1> QED
    BY <1>1, <1>2, <1>3, <1>4, <1>5, <1>6, <1>7, <1>8, <1>9, <1>10, <1>11, <1>12
       DEF Next, Step

---------------------------------------------------------------------------
\* Until Close, pins and reference counts agree.

\* A key has finitely many pins, so that they can be counted.
LEMMA PinsFinite ==
    ASSUME NEW k
    PROVE  IsFiniteSet(Pins(k)) /\ Cardinality(Pins(k)) \in Nat
           /\ (Cardinality(Pins(k)) = 0 <=> Pins(k) = {})
  <1>1. Pins(k) \subseteq Callers
    BY DEF Pins
  <1>2. IsFiniteSet(Pins(k))
    BY <1>1, CallersAssumption, FS_Subset
  <1> QED
    BY <1>2, FS_CardinalityType, FS_EmptySet

\* A step that pins and unpins nothing keeps the agreement.
LEMMA PinningFrame ==
    ASSUME HoldsCached, RefCountExact, UNCHANGED items, UNCHANGED shut,
           \A d \in Callers : Pinned(d)' <=> Pinned(d),
           \A d \in Callers : Pinned(d) => key'[d] = key[d] /\ val'[d] = val[d]
    PROVE  HoldsCached' /\ RefCountExact'
  <1>1. HoldsCached'
    BY DEF HoldsCached, Cached
  <1>2. \A k \in Keys : Pins(k)' = Pins(k)
    BY DEF Pins
  <1>3. RefCountExact'
    BY <1>2 DEF RefCountExact
  <1> QED
    BY <1>1, <1>3

\* A caller that pins a key adds exactly itself to the pins of that key.
LEMMA PinningPin ==
    ASSUME TypeOK, OneOwner, HoldsCached, RefCountExact, UNCHANGED shut,
           NEW c \in Callers, NEW k \in Keys, Cached(k), Pin(c, k),
           ~Pinned(c), Pinned(c)', key'[c] = k,
           \A d \in Callers \ {c} : pc'[d] = pc[d] /\ key'[d] = key[d]
    PROVE  HoldsCached' /\ RefCountExact'
  <1>1. /\ \A j \in Keys : items'[j].value = items[j].value
        /\ \A d \in Callers \ {c} : val'[d] = val[d]
        /\ val'[c] = items[k].value
        /\ items'[k].refCount = items[k].refCount + 1
        /\ \A j \in Keys \ {k} : items'[j] = items[j]
    BY PinFrame
  <1>2. HoldsCached'
    <2>1. \A d \in Callers \ {c} : Pinned(d)' <=> Pinned(d)
      BY DEF Pinned
    <2> QED
      BY <1>1, <2>1, SMTT(30) DEF HoldsCached, Cached, TypeOK
  <1>3. Pins(k)' = Pins(k) \cup {c} /\ c \notin Pins(k)
    BY DEF Pins, Pinned
  <1>4. \A j \in Keys \ {k} : Pins(j)' = Pins(j)
    BY DEF Pins, Pinned
  <1>5. Cardinality(Pins(k)') = Cardinality(Pins(k)) + 1
    BY <1>3, PinsFinite, FS_AddElement, ZenonT(60)
  <1>6. RefCountExact'
    BY <1>1, <1>4, <1>5 DEF RefCountExact
  <1> QED
    BY <1>2, <1>6

\* The reference counts stay exact as long as Close has not run.
LEMMA PinningStep ==
    TypeOK /\ TypeOK' /\ Ownership /\ Pinning /\ [Next]_vars => Pinning'
  <1> SUFFICES ASSUME TypeOK, TypeOK', Ownership, Pinning, [Next]_vars
               PROVE  HoldsCached' /\ RefCountExact'
    BY DEF Pinning
  <1>a. HoldsCached /\ RefCountExact /\ OneOwner /\ LeaderMissed
    BY DEF Pinning, Ownership
  <1>b. CASE Close
    <2>1. shut' # 0
      BY <1>b, BoundsAssumption DEF Close, TypeOK
    <2> QED
      BY <2>1 DEF HoldsCached, RefCountExact
  <1>c. CASE shut # 0 /\ UNCHANGED shut
    BY <1>c DEF HoldsCached, RefCountExact
  <1>1. CASE UNCHANGED vars
    BY <1>a, <1>1, PinningFrame DEF vars, Pinned
  <1>2. ASSUME NEW c \in Callers, NEW k \in Keys, GetHit(c, k)
        PROVE  HoldsCached' /\ RefCountExact'
    <2>1. /\ Cached(k) /\ Pin(c, k) /\ UNCHANGED shut
          /\ ~Pinned(c) /\ Pinned(c)' /\ key'[c] = k
          /\ \A d \in Callers \ {c} : pc'[d] = pc[d] /\ key'[d] = key[d]
      BY <1>2 DEF GetHit, Pinned, TypeOK
    <2> QED
      BY <1>a, <2>1, PinningPin
  <1>3. ASSUME NEW c \in Callers, RecheckHit(c) \/ BumpHit(c)
        PROVE  HoldsCached' /\ RefCountExact'
    <2>1. PICK k \in Keys : k = key[c]
      BY DEF TypeOK
    <2>2. /\ Cached(k) /\ Pin(c, k) /\ UNCHANGED <<shut, key>>
          /\ \A d \in Callers \ {c} : pc'[d] = pc[d]
      BY <1>3, <2>1 DEF RecheckHit, BumpHit, TypeOK
    <2>3. ~Pinned(c) /\ Pinned(c)'
      <3>1. CASE RecheckHit(c)
        BY <3>1 DEF RecheckHit, Pinned, TypeOK
      <3>2. CASE BumpHit(c)
        BY <3>2 DEF BumpHit, Pinned, TypeOK
      <3> QED
        BY <1>3, <3>1, <3>2
    <2> QED
      BY <1>a, <2>1, <2>2, <2>3, PinningPin
  <1>4. ASSUME NEW c \in Callers, NEW k \in Keys, GetMiss(c, k)
        PROVE  HoldsCached' /\ RefCountExact'
    <2>1. /\ ~Pinned(c) /\ ~Pinned(c)' /\ UNCHANGED <<items, shut, val>>
          /\ \A d \in Callers \ {c} : pc'[d] = pc[d] /\ key'[d] = key[d]
      BY <1>4 DEF GetMiss, Pinned, TypeOK
    <2> QED
      BY <1>a, <2>1, PinningFrame DEF Pinned
  <1>5. ASSUME NEW c \in Callers,
               \/ EnterDo(c) \/ RecheckMiss(c) \/ FactoryOk(c) \/ FactoryError(c)
               \/ InsertRefused(c) \/ BumpVanished(c)
        PROVE  HoldsCached' /\ RefCountExact'
    <2>1. /\ UNCHANGED <<items, shut, key>>
          /\ \A d \in Callers \ {c} : pc'[d] = pc[d] /\ val'[d] = val[d]
      BY <1>5 DEF EnterDo, RecheckMiss, FactoryOk, FactoryError, InsertRefused,
                  BumpVanished, TypeOK
    <2>2. ~Pinned(c) /\ ~Pinned(c)'
      BY <1>5 DEF EnterDo, RecheckMiss, FactoryOk, FactoryError, InsertRefused,
                  BumpVanished, Pinned, TypeOK
    <2> QED
      BY <1>a, <2>1, <2>2, PinningFrame DEF Pinned
  <1>6. ASSUME NEW c \in Callers, FinishOk(c) \/ FinishError(c)
        PROVE  HoldsCached' /\ RefCountExact'
    <2>1. UNCHANGED <<items, shut, key, val>>
      BY <1>6 DEF FinishOk, FinishError
    <2>2. \A d \in Callers : Pinned(d)' <=> Pinned(d)
      BY <1>6 DEF FinishOk, FinishError, Followers, Pinned, TypeOK
    <2> QED
      BY <1>a, <2>1, <2>2, PinningFrame
  <1>7. ASSUME NEW c \in Callers, Insert(c) \/ InsertEvicting(c), shut = 0
        PROVE  HoldsCached' /\ RefCountExact'
    <2>1. PICK k \in Keys : k = key[c]
      BY DEF TypeOK
    <2>2. /\ pc[c] = "insert" /\ pc'[c] = "ok" /\ UNCHANGED <<shut, key, val>>
          /\ \A d \in Callers \ {c} : pc'[d] = pc[d]
      BY <1>7 DEF Insert, InsertEvicting, TypeOK
    <2>3. items'[k].value = val[c] /\ items'[k].refCount = 1 /\ val[c] # 0
      <3>1. items'[k] = Filled(c)
        BY <1>7, <2>1 DEF Insert, InsertEvicting, TypeOK
      <3> QED
        BY <1>a, <2>2, <3>1 DEF Filled, Entry, OneOwner, TypeOK
    <2>4. Pins(k) = {}
      BY <1>a, <1>7, <2>1, <2>2 DEF HoldsCached, LeaderMissed, Pins
    <2>5. Pins(k)' = {c}
      BY <2>1, <2>2, <2>4 DEF Pins, Pinned
    <2>6. \A j \in Keys \ {k} : Pins(j)' = Pins(j)
      BY <2>1, <2>2 DEF Pins, Pinned
    <2>7. \A j \in Keys \ {k} :
             \/ items'[j] = items[j]
             \/ items[j].refCount = 0 /\ items'[j].refCount = 0
      BY <1>7, <2>1 DEF Insert, InsertEvicting, Oldest, Evictable, CachedKeys, NoEntry,
                        Entry, TypeOK
    <2>8. RefCountExact'
      <3>1. Cardinality(Pins(k)') = 1
        BY <2>5, FS_Singleton
      <3>2. \A j \in Keys : items[j].refCount = Cardinality(Pins(j))
        BY <1>a, <1>7 DEF RefCountExact
      <3>3. \A j \in Keys \ {k} : items'[j].refCount = items[j].refCount
        BY <2>7
      <3>4. \A j \in Keys : items'[j].refCount = Cardinality(Pins(j)')
        BY <2>3, <2>6, <3>1, <3>2, <3>3
      <3> QED
        BY <3>4 DEF RefCountExact
    <2>9. ASSUME NEW d \in Callers, Pinned(d)'
          PROVE  items'[key'[d]].value # 0 /\ items'[key'[d]].value = val'[d]
      <3>1. CASE d = c
        BY <2>1, <2>2, <2>3, <3>1
      <3>2. CASE d # c
        <4>1. Pinned(d) /\ items[key[d]].value # 0 /\ items[key[d]].value = val[d]
          BY <1>a, <1>7, <2>2, <2>9, <3>2 DEF Pinned, HoldsCached, Cached
        <4>2. PICK j \in Keys : j = key[d]
          BY DEF TypeOK
        <4>3. d \in Pins(j) /\ j # k
          BY <2>4, <4>1, <4>2 DEF Pins
        <4>4. items[j].refCount # 0
          BY <1>a, <1>7, <4>3, PinsFinite DEF RefCountExact
        <4> QED
          BY <2>2, <2>7, <4>1, <4>2, <4>3, <4>4
      <3> QED
        BY <3>1, <3>2
    <2> QED
      BY <2>8, <2>9 DEF HoldsCached, Cached
  <1>8. ASSUME NEW c \in Callers, Release(c), shut = 0
        PROVE  HoldsCached' /\ RefCountExact'
    <2>1. PICK k \in Keys : k = key[c]
      BY DEF TypeOK
    <2>2. /\ pc[c] = "hold" /\ pc'[c] = "idle" /\ UNCHANGED <<shut, key>>
          /\ \A d \in Callers \ {c} : pc'[d] = pc[d] /\ val'[d] = val[d]
      BY <1>8 DEF Release, TypeOK
    <2>3. c \in Pins(k) /\ Cached(k)
      BY <1>a, <1>8, <2>1, <2>2 DEF Pins, Pinned, HoldsCached
    <2>4. items[k].refCount = Cardinality(Pins(k)) /\ items[k].refCount > 0
      BY <1>a, <1>8, <2>3, PinsFinite DEF RefCountExact
    <2>5. items' = [items EXCEPT ![k] = Entry(items[k].value, items[k].refCount - 1)]
      BY <1>8, <2>1, <2>3, <2>4 DEF Release, Unpinned
    <2>6. /\ items'[k].value = items[k].value
          /\ items'[k].refCount = items[k].refCount - 1
          /\ \A j \in Keys \ {k} : items'[j] = items[j]
      BY <2>5 DEF Entry, TypeOK
    <2>7. Pins(k)' = Pins(k) \ {c} /\ \A j \in Keys \ {k} : Pins(j)' = Pins(j)
      BY <2>1, <2>2 DEF Pins, Pinned
    <2>8. Cardinality(Pins(k)') = Cardinality(Pins(k)) - 1
      BY <2>3, <2>7, PinsFinite, FS_RemoveElement
    <2>9. RefCountExact'
      BY <1>a, <1>8, <2>2, <2>4, <2>6, <2>7, <2>8 DEF RefCountExact
    <2>10. HoldsCached'
      <3>1. \A j \in Keys : items'[j].value = items[j].value
        BY <2>6
      <3>2. \A d \in Callers : Pinned(d)' => Pinned(d) /\ val'[d] = val[d]
        BY <2>2 DEF Pinned
      <3> QED
        BY <1>a, <1>8, <2>2, <3>1, <3>2 DEF HoldsCached, Cached, TypeOK
    <2> QED
      BY <2>9, <2>10
  <1>9. ASSUME NEW c \in Callers, Insert(c) \/ InsertEvicting(c) \/ Release(c), shut # 0
        PROVE  HoldsCached' /\ RefCountExact'
    BY <1>9, <1>c DEF Insert, InsertEvicting, Release
  <1> QED
    BY <1>b, <1>1, <1>2, <1>3, <1>4, <1>5, <1>6, <1>7, <1>8, <1>9 DEF Next, Step

---------------------------------------------------------------------------
\* The size of the cache.

\* The number of cached keys stays within maxSize.
LEMMA SizingStep == TypeOK /\ Ownership /\ Sizing /\ [Next]_vars => Sizing'
  <1> SUFFICES ASSUME TypeOK, Ownership, Sizing, [Next]_vars PROVE Sizing'
    OBVIOUS
  <1>a. IsFiniteSet(CachedKeys) /\ Cardinality(CachedKeys) \in Nat
        /\ Cardinality(CachedKeys) <= MaxSize /\ MaxSize \in Nat \ {0}
    BY BoundsAssumption, FS_CardinalityType DEF Sizing, FiniteCache, SizeBounded
  <1>b. OneOwner /\ LeaderMissed
    BY DEF Ownership
  <1>1. CASE \A k \in Keys : items'[k].value = items[k].value
    <2>1. CachedKeys' = CachedKeys
      BY <1>1 DEF CachedKeys, Cached
    <2> QED
      BY <1>a, <2>1 DEF Sizing, FiniteCache, SizeBounded
  <1>2. ASSUME NEW c \in Callers, Insert(c) PROVE Sizing'
    <2>1. PICK k \in Keys : k = key[c]
      BY DEF TypeOK
    <2>2. items'[k].value # 0 /\ \A j \in Keys \ {k} : items'[j] = items[j]
      BY <1>b, <1>2, <2>1 DEF Insert, Filled, Entry, OneOwner, TypeOK
    <2>3. CachedKeys' = CachedKeys \cup {k}
      BY <2>2 DEF CachedKeys, Cached
    <2>4. Cardinality(CachedKeys) < MaxSize
      BY <1>a, <1>2 DEF Insert, Full
    <2>5. /\ IsFiniteSet(CachedKeys \cup {k})
          /\ Cardinality(CachedKeys \cup {k}) <= Cardinality(CachedKeys) + 1
      <3>1. /\ IsFiniteSet(CachedKeys \cup {k})
            /\ Cardinality(CachedKeys \cup {k}) =
                  IF k \in CachedKeys THEN Cardinality(CachedKeys) ELSE Cardinality(CachedKeys) + 1
        BY <1>a, FS_AddElement
      <3> QED
        BY <1>a, <3>1
    <2>6. Cardinality(CachedKeys \cup {k}) \in Nat
      BY <2>5, FS_CardinalityType
    <2> QED
      BY <1>a, <2>3, <2>4, <2>5, <2>6 DEF Sizing, FiniteCache, SizeBounded
  <1>3. ASSUME NEW c \in Callers, InsertEvicting(c) PROVE Sizing'
    <2>1. PICK k \in Keys : k = key[c]
      BY DEF TypeOK
    <2>2. PICK old \in Oldest :
            items' = [items EXCEPT ![old] = NoEntry, ![key[c]] = Filled(c)]
      BY <1>3 DEF InsertEvicting
    <2>3. old \in CachedKeys /\ old \in Keys /\ k \notin CachedKeys /\ old # k
      BY <1>b, <1>3, <2>1 DEF InsertEvicting, Oldest, Evictable, CachedKeys, LeaderMissed
    <2>4. /\ items'[k].value # 0 /\ items'[old].value = 0
          /\ \A j \in Keys \ {k, old} : items'[j] = items[j]
      BY <1>b, <1>3, <2>1, <2>2, <2>3
         DEF InsertEvicting, Filled, NoEntry, Entry, OneOwner, TypeOK
    <2>5. CachedKeys' = (CachedKeys \ {old}) \cup {k}
      BY <2>3, <2>4 DEF CachedKeys, Cached
    <2>6. /\ IsFiniteSet(CachedKeys \ {old})
          /\ Cardinality(CachedKeys \ {old}) = Cardinality(CachedKeys) - 1
      BY <1>a, <2>3, FS_RemoveElement
    <2>7. IsFiniteSet(CachedKeys') /\ Cardinality(CachedKeys') = Cardinality(CachedKeys)
      <3> DEFINE rest == CachedKeys \ {old}
      <3>1. IsFiniteSet(rest) /\ k \notin rest /\ Cardinality(rest) = Cardinality(CachedKeys) - 1
        BY <2>3, <2>6
      <3> HIDE DEF rest
      <3>2. IsFiniteSet(rest \cup {k}) /\ Cardinality(rest \cup {k}) = Cardinality(rest) + 1
        BY <3>1, FS_AddElement
      <3>3. CachedKeys' = rest \cup {k}
        BY <2>5 DEF rest
      <3> QED
        BY <1>a, <3>1, <3>2, <3>3
    <2> QED
      BY <1>a, <2>7 DEF Sizing, FiniteCache, SizeBounded
  <1>4. CASE Close
    <2>1. CachedKeys' = {}
      BY <1>4 DEF Close, CachedKeys, Cached, NoEntry, Entry
    <2> QED
      BY <1>a, <2>1, FS_EmptySet DEF Sizing, FiniteCache, SizeBounded
  <1>5. ASSUME NEW c \in Callers, NEW k \in Keys, GetHit(c, k) \/ GetMiss(c, k)
        PROVE  \A j \in Keys : items'[j].value = items[j].value
    BY <1>b, <1>5, PinFrame DEF GetHit, GetMiss
  <1>6. ASSUME NEW c \in Callers, RecheckHit(c) \/ BumpHit(c)
        PROVE  \A j \in Keys : items'[j].value = items[j].value
    <2>1. key[c] \in Keys /\ Cached(key[c]) /\ Pin(c, key[c])
      BY <1>6 DEF RecheckHit, BumpHit, TypeOK
    <2> QED
      BY <1>b, <2>1, PinFrame
  <1>7. ASSUME NEW c \in Callers, Release(c)
        PROVE  \A j \in Keys : items'[j].value = items[j].value
    BY <1>7 DEF Release, Unpinned, Entry, TypeOK
  <1>8. ASSUME NEW c \in Callers,
               \/ EnterDo(c) \/ RecheckMiss(c) \/ FactoryOk(c) \/ FactoryError(c)
               \/ InsertRefused(c) \/ FinishOk(c) \/ FinishError(c) \/ BumpVanished(c)
        PROVE  UNCHANGED items
    BY <1>8 DEF EnterDo, RecheckMiss, FactoryOk, FactoryError, InsertRefused, FinishOk,
                FinishError, BumpVanished
  <1>9. CASE UNCHANGED vars
    BY <1>1, <1>9 DEF vars
  <1> QED
    BY <1>1, <1>2, <1>3, <1>4, <1>5, <1>6, <1>7, <1>8, <1>9 DEF Next, Step

---------------------------------------------------------------------------
\* The whole inductive invariant holds in every reachable state.
LEMMA Invariant == Spec => [](TypeOK /\ Ownership /\ Pinning /\ Sizing)
  <1>1. Init => Ownership
    BY BoundsAssumption DEF Init, Ownership, LeaderInFlight, LeaderMissed, OneOwner,
       NotYetClosed, NothingLeaks, NoEntry, Entry, Cached, Leading
  <1>2. Init => Pinning
    <2> SUFFICES ASSUME Init PROVE Pinning
      OBVIOUS
    <2>1. \A k \in Keys : Pins(k) = {} /\ items[k].refCount = 0
      BY DEF Init, Pins, Pinned, NoEntry, Entry
    <2>2. HoldsCached
      BY DEF Init, HoldsCached, Pinned
    <2> QED
      BY <2>1, <2>2, FS_EmptySet DEF Pinning, RefCountExact
  <1>3. Init => Sizing
    <2> SUFFICES ASSUME Init PROVE Sizing
      OBVIOUS
    <2>1. CachedKeys = {}
      BY DEF Init, CachedKeys, Cached, NoEntry, Entry
    <2> QED
      BY <2>1, FS_EmptySet, BoundsAssumption DEF Sizing, FiniteCache, SizeBounded
  <1> QED
    BY <1>1, <1>2, <1>3, TypeCorrect, OwnershipStep, PinningStep, SizingStep, PTL DEF Spec

\* Every resource is cached, about to be, or was closed exactly once.
THEOREM NothingLeaksHolds == Spec => []NothingLeaks
  <1>1. Ownership => NothingLeaks
    BY DEF Ownership
  <1> QED
    BY <1>1, Invariant, PTL

\* One caller per key runs the factory.
THEOREM OneFactoryPerKeyHolds == Spec => []OneFactoryPerKey
  <1>1. TypeOK /\ Ownership => OneFactoryPerKey
    BY DEF Ownership, LeaderInFlight, OneFactoryPerKey, Leading
  <1> QED
    BY <1>1, Invariant, PTL

\* Until Close, reference counts are the numbers of holders.
THEOREM RefCountExactHolds == Spec => []RefCountExact
  <1>1. Pinning => RefCountExact
    BY DEF Pinning
  <1> QED
    BY <1>1, Invariant, PTL

\* The map respects its limit.
THEOREM SizeBoundedHolds == Spec => []SizeBounded
  <1>1. Sizing => SizeBounded
    BY DEF Sizing
  <1> QED
    BY <1>1, Invariant, PTL

\* Until Close, no resource is closed while a caller holds it.
THEOREM NoUseAfterEvictHolds == Spec => []NoUseAfterEvict
  <1>1. TypeOK /\ Ownership /\ Pinning => NoUseAfterEvict
    <2> SUFFICES ASSUME TypeOK, Ownership, Pinning, shut = 0,
                        NEW c \in Callers, pc[c] = "hold"
                 PROVE  closes[val[c]] = 0
      BY DEF NoUseAfterEvict
    <2>1. key[c] \in Keys /\ items[key[c]].value = val[c] /\ val[c] # 0
      BY DEF Pinning, HoldsCached, Pinned, Cached, TypeOK
    <2>2. val[c] \in 1..made
      BY <2>1 DEF Ownership, OneOwner, TypeOK
    <2>3. Live(val[c])
      BY <2>1 DEF Live
    <2>4. Accounted
      BY AccountedIsNothingLeaks DEF Ownership
    <2> QED
      BY <2>2, <2>3, <2>4 DEF Accounted
  <1> QED
    BY <1>1, Invariant, PTL

---------------------------------------------------------------------------
\* The cache implements Lifetimes as long as Close is not called.

Stage == [v \in Values |-> IF v > made THEN "none"
                           ELSE IF closes[v] = 0 THEN "open" ELSE "closed"]
UsersOf == [v \in Values |-> {c \in Callers : Pinned(c) /\ val[c] = v}]

\* The users of a resource, as a function of the resource.
LEMMA UsersOfFunction ==
    /\ UsersOf = [v \in Values |-> UsersOf[v]]
    /\ UsersOf' = [v \in Values |-> UsersOf'[v]]
  BY DEF UsersOf

\* Likewise the stages before and after a step.
LEMMA StageFunction ==
    /\ Stage = [v \in Values |-> Stage[v]]
    /\ Stage' = [v \in Values |-> Stage'[v]]
  BY DEF Stage

\* An opening is a step of Lifetimes.
LEMMA OpenStep == ASSUME NEW v \in Values, L!Open(v) PROVE L!Next
  BY DEF L!Next

\* A disposal is a step of Lifetimes.
LEMMA DisposeStep == ASSUME NEW D \in SUBSET Values, L!Dispose(D) PROVE L!Next
  BY DEF L!Next

\* The start of a use is a step of Lifetimes.
LEMMA UseStep ==
    ASSUME NEW c \in Callers, NEW v \in Values, NEW D \in SUBSET Values, L!Use(c, v, D)
    PROVE  L!Next
  BY DEF L!Next

\* The end of a use is a step of Lifetimes.
LEMMA UnuseStep ==
    ASSUME NEW c \in Callers, NEW v \in Values, L!Unuse(c, v)
    PROVE  L!Next
  BY DEF L!Next

\* A cached resource is open, and used only by those that pin its key.
LEMMA CachedIsOpen ==
    ASSUME TypeOK, Ownership, NEW v \in Values,
           (\E k \in Keys : items[k].value = v)
             \/ \E c \in Callers : pc[c] = "insert" /\ val[c] = v
    PROVE  Stage[v] = "open" /\ v <= made
  <1>1. v \in 1..made
    BY DEF TypeOK, Ownership, OneOwner, Values
  <1>2. Accounted /\ Live(v)
    BY AccountedIsNothingLeaks DEF Ownership, Live
  <1>3. closes[v] = 0
    BY <1>1, <1>2 DEF Accounted
  <1> QED
    BY <1>1, <1>3 DEF Stage, TypeOK

\* Caller c starts to use v and nothing is disposed of.
LEMMA UseAlone ==
    ASSUME TypeOK, Ownership, NEW c \in Callers, NEW v \in Values,
           (\E k \in Keys : items[k].value = v) \/ (pc[c] = "insert" /\ val[c] = v),
           ~Pinned(c), Pinned(c)', val'[c] = v, UNCHANGED <<made, closes>>,
           \A d \in Callers \ {c} : pc'[d] = pc[d] /\ val'[d] = val[d]
    PROVE  L!Next
  <1>1. Stage[v] = "open"
    BY CachedIsOpen
  <1>2. c \notin UsersOf[v]
    BY DEF UsersOf
  <1>3. Stage' = [w \in Values |-> IF w \in {} THEN "closed" ELSE Stage[w]]
    BY DEF Stage
  <1>4. UsersOf' = [UsersOf EXCEPT ![v] = UsersOf[v] \cup {c}]
    <2>1. \A w \in Values : UsersOf'[w] = IF w = v THEN UsersOf[w] \cup {c} ELSE UsersOf[w]
      BY DEF UsersOf, Pinned
    <2> QED
      BY <2>1, UsersOfFunction
  <1>5. L!Use(c, v, {})
    BY <1>1, <1>2, <1>3, <1>4 DEF L!Use, L!Disposable, L!Disposed, Stage, UsersOf
  <1> QED
    BY <1>5, UseStep

\* A key that nobody pins holds a resource nobody uses.
LEMMA UnpinnedIsUnused ==
    ASSUME TypeOK, Ownership, Pinning, shut = 0, NEW v \in Values,
           \/ \E k \in Keys : items[k].value = v /\ items[k].refCount = 0
           \/ \A k \in Keys : items[k].value # v
    PROVE  UsersOf[v] = {}
  <1> SUFFICES ASSUME NEW c \in Callers, Pinned(c), val[c] = v PROVE FALSE
    BY DEF UsersOf
  <1>1. PICK j \in Keys : j = key[c] /\ items[j].value = v
    BY DEF Pinning, HoldsCached, TypeOK
  <1>2. c \in Pins(j)
    BY <1>1 DEF Pins
  <1>3. items[j].refCount # 0
    BY <1>2, PinsFinite DEF Pinning, RefCountExact
  <1>4. \A k \in Keys : items[k].value = v => k = j
    BY <1>1 DEF Ownership, OneOwner, Cached, Values
  <1> QED
    BY <1>1, <1>3, <1>4

\* As long as Close is not called, every step of the cache is one of
\* Lifetimes: what a caller uses is open, and is disposed of once, unused.
THEOREM CacheImplementsLifetimes == Spec => ImplementsLifetimes
  <1> USE BoundsAssumption, CallersAssumption
  <1>1. Init => L!Init
    BY DEF Init, L!Init, Values, Pinned
  <1>2. /\ TypeOK /\ Ownership /\ Pinning /\ [Next]_vars
        => [shut' = 0 => [L!Next]_(L!lifeVars)]_vars
    <2> SUFFICES ASSUME TypeOK, Ownership, Pinning, [Next]_vars, shut' = 0
                 PROVE  L!Next \/ UNCHANGED <<Stage, UsersOf>>
      BY DEF L!lifeVars, Stage, UsersOf
    <2>s. shut \in Nat
      BY DEF TypeOK
    <2>b1. ASSUME NEW c \in Callers, Step(c) PROVE shut' = shut
      BY <2>b1 DEF Step, EnterDo, RecheckHit, RecheckMiss, FactoryOk, FactoryError, Insert,
         InsertEvicting, InsertRefused, FinishOk, FinishError, BumpHit, BumpVanished
    <2>a. shut = 0 /\ ~Close
      BY <2>s, <2>b1 DEF Next, Close, GetHit, GetMiss, Release, vars
    <2>b. ASSUME UNCHANGED <<made, closes>>,
                 \A d \in Callers : Pinned(d)' <=> Pinned(d),
                 \A d \in Callers : Pinned(d) => val'[d] = val[d]
          PROVE  UNCHANGED <<Stage, UsersOf>>
      BY <2>b DEF Stage, UsersOf
    <2>1. CASE UNCHANGED vars
      BY <2>1 DEF vars, Stage, UsersOf, Pinned
    <2>2. ASSUME NEW c \in Callers, NEW k \in Keys, GetHit(c, k)
          PROVE  L!Next
      <3>1. PICK v \in Values : v = items[k].value
        BY <2>2 DEF GetHit, Cached, TypeOK, Values
      <3>2. /\ ~Pinned(c) /\ Pinned(c)' /\ UNCHANGED <<made, closes>>
            /\ val'[c] = v /\ \A d \in Callers \ {c} : pc'[d] = pc[d] /\ val'[d] = val[d]
        BY <2>2, <3>1 DEF GetHit, Pin, Pinned, TypeOK
      <3> QED
        BY <3>1, <3>2, UseAlone
    <2>3. ASSUME NEW c \in Callers, RecheckHit(c) \/ BumpHit(c) PROVE L!Next
      <3>1. PICK v \in Values : key[c] \in Keys /\ v = items[key[c]].value
        BY <2>3 DEF RecheckHit, BumpHit, Cached, TypeOK, Values
      <3>2. /\ UNCHANGED <<made, closes>>
            /\ val'[c] = v /\ \A d \in Callers \ {c} : pc'[d] = pc[d] /\ val'[d] = val[d]
        BY <2>3, <3>1 DEF RecheckHit, BumpHit, Pin, TypeOK
      <3>3. ~Pinned(c) /\ Pinned(c)'
        <4>1. CASE RecheckHit(c)
          BY <4>1 DEF RecheckHit, Pinned, TypeOK
        <4>2. CASE BumpHit(c)
          BY <4>2 DEF BumpHit, Pinned, TypeOK
        <4> QED
          BY <2>3, <4>1, <4>2
      <3> QED
        BY <3>1, <3>2, <3>3, UseAlone
    <2>4. ASSUME NEW c \in Callers, Insert(c) PROVE L!Next
      <3>1. PICK v \in Values : v = val[c]
        BY <2>4 DEF Insert, Ownership, OneOwner, TypeOK, Values
      <3>2. /\ pc[c] = "insert" /\ ~Pinned(c) /\ Pinned(c)' /\ UNCHANGED <<made, closes>>
            /\ val'[c] = v /\ \A d \in Callers \ {c} : pc'[d] = pc[d] /\ val'[d] = val[d]
        BY <2>4, <3>1 DEF Insert, Pinned, TypeOK
      <3> QED
        BY <3>1, <3>2, UseAlone
    <2>5. ASSUME NEW c \in Callers, InsertEvicting(c) PROVE L!Next
      <3>1. PICK old \in Oldest : closes' = [closes EXCEPT ![items[old].value] = @ + 1]
        BY <2>5 DEF InsertEvicting
      <3>2. old \in Keys /\ items[old].value # 0 /\ items[old].refCount = 0
        BY DEF Oldest, Evictable, CachedKeys, Cached
      <3>3. PICK x \in Values : x = items[old].value
        BY <3>2 DEF TypeOK, Values
      <3>4. PICK v \in Values : v = val[c]
        BY <2>5 DEF InsertEvicting, Ownership, OneOwner, TypeOK, Values
      <3>5. /\ pc[c] = "insert" /\ ~Pinned(c) /\ Pinned(c)' /\ UNCHANGED made
            /\ val'[c] = v /\ \A d \in Callers \ {c} : pc'[d] = pc[d] /\ val'[d] = val[d]
        BY <2>5, <3>4 DEF InsertEvicting, Pinned, TypeOK
      <3>6. v # x
        BY <3>2, <3>3, <3>4, <3>5 DEF Ownership, OneOwner
      <3>7. Stage[v] = "open" /\ Stage[x] = "open" /\ x <= made
        BY <3>2, <3>3, <3>4, <3>5, CachedIsOpen
      <3>8. UsersOf[x] = {}
        BY <2>a, <3>2, <3>3, UnpinnedIsUnused
      <3>9. closes[x] \in Nat /\ \A w \in Values : closes'[w] = IF w = x THEN closes[x] + 1 ELSE closes[w]
        BY <3>1, <3>3 DEF TypeOK
      <3>10. Stage' = [w \in Values |-> IF w \in {x} THEN "closed" ELSE Stage[w]]
        BY <3>5, <3>7, <3>9 DEF Stage, TypeOK, Values
      <3>11. UsersOf' = [UsersOf EXCEPT ![v] = UsersOf[v] \cup {c}]
        <4>1. \A w \in Values : UsersOf'[w] = IF w = v THEN UsersOf[w] \cup {c} ELSE UsersOf[w]
          BY <3>5 DEF UsersOf, Pinned
        <4> QED
          BY <4>1, UsersOfFunction
      <3>12. c \notin UsersOf[v]
        BY <3>5 DEF UsersOf
      <3>13. L!Use(c, v, {x})
        BY <3>6, <3>7, <3>8, <3>10, <3>11, <3>12
           DEF L!Use, L!Disposable, L!Disposed, Stage, UsersOf
      <3>14. {x} \in SUBSET Values
        OBVIOUS
      <3> QED
        BY <3>13, <3>14, UseStep
    <2>6. ASSUME NEW c \in Callers, InsertRefused(c) PROVE L!Next
      <3>1. PICK x \in Values : x = val[c]
        BY <2>6 DEF InsertRefused, Ownership, OneOwner, TypeOK, Values
      <3>2. /\ pc[c] = "insert" /\ ~Pinned(c) /\ ~Pinned(c)' /\ UNCHANGED made
            /\ closes' = [closes EXCEPT ![x] = @ + 1]
            /\ \A d \in Callers \ {c} : pc'[d] = pc[d] /\ val'[d] = val[d]
        BY <2>6, <3>1 DEF InsertRefused, Pinned, TypeOK
      <3>3. Stage[x] = "open" /\ x <= made
        BY <3>1, <3>2, CachedIsOpen
      <3>4. UsersOf[x] = {}
        <4>1. \A k \in Keys : items[k].value # x
          BY <3>1, <3>2 DEF Ownership, OneOwner
        <4> QED
          BY <2>a, <4>1, UnpinnedIsUnused
      <3>5. closes[x] \in Nat /\ \A w \in Values : closes'[w] = IF w = x THEN closes[x] + 1 ELSE closes[w]
        BY <3>2 DEF TypeOK
      <3>6. Stage' = [w \in Values |-> IF w \in {x} THEN "closed" ELSE Stage[w]]
        BY <3>2, <3>3, <3>5 DEF Stage, TypeOK, Values
      <3>7. UNCHANGED UsersOf
        BY <3>2 DEF UsersOf, Pinned
      <3>8. L!Dispose({x})
        BY <3>3, <3>4, <3>6, <3>7 DEF L!Dispose, L!Disposable, L!Disposed, Stage, UsersOf
      <3>9. {x} \in SUBSET Values
        OBVIOUS
      <3> QED
        BY <3>8, <3>9, DisposeStep
    <2>7. ASSUME NEW c \in Callers, FactoryOk(c) PROVE L!Next
      <3>1. PICK v \in Values : v = made + 1
        BY <2>7 DEF FactoryOk, TypeOK, Values
      <3>2. /\ ~Pinned(c) /\ ~Pinned(c)' /\ made' = made + 1 /\ UNCHANGED closes
            /\ \A d \in Callers \ {c} : pc'[d] = pc[d] /\ val'[d] = val[d]
        BY <2>7 DEF FactoryOk, Pinned, TypeOK
      <3>3. closes[v] = 0 /\ v > made
        BY <3>1 DEF Ownership, NotYetClosed, TypeOK
      <3>4. Stage[v] = "none" /\ Stage' = [Stage EXCEPT ![v] = "open"]
        <4>1. Stage[v] = "none"
          BY <3>1, <3>2, <3>3 DEF Stage, TypeOK, Values
        <4>2. ASSUME NEW w \in Values
              PROVE  Stage'[w] = IF w = v THEN "open" ELSE Stage[w]
          BY <3>1, <3>2, <3>3 DEF Stage, TypeOK, Values
        <4>3. [Stage EXCEPT ![v] = "open"]
              = [w \in Values |-> IF w = v THEN "open" ELSE Stage[w]]
          BY StageFunction
        <4>4. Stage' = [w \in Values |-> IF w = v THEN "open" ELSE Stage[w]]
          BY <4>2, StageFunction
        <4> QED
          BY <4>1, <4>3, <4>4
      <3>5. UNCHANGED UsersOf
        BY <3>2 DEF UsersOf, Pinned
      <3>6. L!Open(v)
        BY <3>4, <3>5 DEF L!Open, Stage, UsersOf
      <3> QED
        BY <3>6, OpenStep
    <2>8. ASSUME NEW c \in Callers, Release(c) PROVE L!Next
      <3>1. PICK v \in Values : v = val[c]
        BY <2>a, <2>8 DEF Release, Pinning, HoldsCached, Pinned, Cached, TypeOK, Values
      <3>2. /\ Pinned(c) /\ ~Pinned(c)' /\ UNCHANGED <<made, closes>>
            /\ \A d \in Callers \ {c} : pc'[d] = pc[d] /\ val'[d] = val[d]
        BY <2>8 DEF Release, Pinned, TypeOK
      <3>3. c \in UsersOf[v]
        BY <3>1, <3>2 DEF UsersOf
      <3>4. UsersOf' = [UsersOf EXCEPT ![v] = UsersOf[v] \ {c}]
        <4>1. \A w \in Values : UsersOf'[w] = IF w = v THEN UsersOf[w] \ {c} ELSE UsersOf[w]
          BY <3>1, <3>2 DEF UsersOf, Pinned
        <4> QED
          BY <4>1, UsersOfFunction
      <3>5. UNCHANGED Stage
        BY <3>2 DEF Stage
      <3>6. L!Unuse(c, v)
        BY <3>3, <3>4, <3>5 DEF L!Unuse, Stage, UsersOf
      <3> QED
        BY <3>6, UnuseStep
    <2>9. ASSUME NEW c \in Callers, FinishOk(c) \/ FinishError(c)
          PROVE  UNCHANGED <<Stage, UsersOf>>
      <3>1. \A d \in Callers : Pinned(d)' <=> Pinned(d)
        BY <2>9 DEF FinishOk, FinishError, Followers, Pinned, TypeOK
      <3>2. UNCHANGED <<val, made, closes>>
        BY <2>9 DEF FinishOk, FinishError
      <3> QED
        BY <3>1, <3>2, <2>b
    <2>10. ASSUME NEW c \in Callers,
                  \/ EnterDo(c) \/ RecheckMiss(c) \/ FactoryError(c) \/ BumpVanished(c)
                  \/ \E k \in Keys : GetMiss(c, k)
           PROVE  UNCHANGED <<Stage, UsersOf>>
      <3>1. \A d \in Callers : Pinned(d)' <=> Pinned(d)
        BY <2>10 DEF EnterDo, RecheckMiss, FactoryError, BumpVanished, GetMiss, Pinned, TypeOK
      <3>2. UNCHANGED <<val, made, closes>>
        BY <2>10 DEF EnterDo, RecheckMiss, FactoryError, BumpVanished, GetMiss
      <3> QED
        BY <3>1, <3>2, <2>b
    <2> QED
      BY <2>a, <2>1, <2>2, <2>3, <2>4, <2>5, <2>6, <2>7, <2>8, <2>9, <2>10 DEF Next, Step
  <1> QED
    BY <1>1, <1>2, Invariant, PTL DEF Spec, ImplementsLifetimes, L!Spec

---------------------------------------------------------------------------
\* By its keys, the cache is PinnedCache as long as Close is not called.

PinsOf == [c \in Callers |-> IF Pinned(c) THEN key[c] ELSE None]

\* A caller that starts to hold an entry pins its key.
LEMMA PinStep ==
    ASSUME NEW c \in Callers, NEW k \in Keys,
           ~Pinned(c), Pinned(c)', key'[c] = k,
           \A d \in Callers \ {c} : (Pinned(d)' <=> Pinned(d)) /\ key'[d] = key[d]
    PROVE  P!Pin(c, k)
  <1>1. PinsOf[c] = None
    BY DEF PinsOf
  <1>2. PinsOf' = [PinsOf EXCEPT ![c] = k]
    <2>1. \A d \in Callers : PinsOf'[d] = IF d = c THEN k ELSE PinsOf[d]
      BY DEF PinsOf
    <2>2. PinsOf = [d \in Callers |-> PinsOf[d]] /\ PinsOf' = [d \in Callers |-> PinsOf'[d]]
      BY DEF PinsOf
    <2> QED
      BY <2>1, <2>2
  <1> QED
    BY <1>1, <1>2 DEF P!Pin, PinsOf

\* A pin on an entry that stays is a hit.
LEMMA HitStep ==
    ASSUME NEW c \in Callers, NEW k \in Keys, Cached(k), CachedKeys' = CachedKeys, P!Pin(c, k)
    PROVE  P!Next
  <1>1. P!Hit(c, k)
    BY DEF P!Hit, CachedKeys
  <1> QED
    BY <1>1 DEF P!Next

\* A pin on a new entry, in the place of what may be put out, is a fill.
LEMMA FillStep ==
    ASSUME NEW c \in Callers, NEW k \in Keys, ~Cached(k), P!Pin(c, k),
           NEW out \in P!Outgoing, CachedKeys' = (CachedKeys \ out) \cup {k}
    PROVE  P!Next
  <1>1. P!Fill(c, k, out)
    BY DEF P!Fill, CachedKeys
  <1> QED
    BY <1>1 DEF P!Next

\* An entry without references is one that no caller pins.
LEMMA EvictableIsUnpinned ==
    ASSUME TypeOK, Pinning, shut = 0, NEW k \in Evictable
    PROVE  k \in P!Unpinned
  <1>1. k \in CachedKeys /\ k \in Keys /\ items[k].refCount = 0
    BY DEF Evictable, CachedKeys
  <1>2. ASSUME NEW c \in Callers PROVE PinsOf[c] # k
    <2>1. CASE Pinned(c) /\ key[c] = k
      <3>1. c \in Pins(k)
        BY <2>1 DEF Pins
      <3> QED
        BY <1>1, <3>1, PinsFinite DEF Pinning, RefCountExact
    <2>2. CASE ~(Pinned(c) /\ key[c] = k)
      BY <1>1, <2>2, CallersAssumption DEF PinsOf
    <2> QED
      BY <2>1, <2>2
  <1> QED
    BY <1>1, <1>2 DEF P!Unpinned, PinsOf

\* As long as Close is not called, every critical section of Get and of the
\* release is one step of PinnedCache or none.
THEOREM CacheImplementsPinnedCache == Spec => ImplementsPinnedCache
  <1> USE BoundsAssumption, CallersAssumption
  <1>1. Init => P!Init
    <2> SUFFICES ASSUME Init PROVE P!Init
      OBVIOUS
    <2>1. CachedKeys = {}
      BY DEF Init, CachedKeys, Cached, NoEntry, Entry
    <2>2. \A c \in Callers : ~Pinned(c)
      BY DEF Init, Pinned
    <2> QED
      BY <2>1, <2>2 DEF P!Init
  <1>2. /\ TypeOK /\ TypeOK' /\ Ownership /\ Pinning /\ Sizing /\ [Next]_vars
        => [shut' = 0 => [P!Next]_(P!cacheVars)]_vars
    <2> SUFFICES ASSUME TypeOK, TypeOK', Ownership, Pinning, Sizing, [Next]_vars, shut' = 0
                 PROVE  P!Next \/ UNCHANGED <<CachedKeys, PinsOf>>
      BY DEF P!cacheVars, PinsOf
    <2>a. shut = 0 /\ ~Close
      <3>1. shut \in Nat
        BY DEF TypeOK
      <3>2. ASSUME NEW c \in Callers, Step(c) PROVE shut' = shut
        BY <3>2 DEF Step, EnterDo, RecheckHit, RecheckMiss, FactoryOk, FactoryError, Insert,
           InsertEvicting, InsertRefused, FinishOk, FinishError, BumpHit, BumpVanished
      <3> QED
        BY <3>1, <3>2 DEF Next, Close, GetHit, GetMiss, Release, vars
    <2>b. ASSUME \A k \in Keys : Cached(k)' <=> Cached(k) PROVE CachedKeys' = CachedKeys
      BY <2>b DEF CachedKeys
    <2>c. ASSUME NEW c \in Callers, NEW k \in Keys, Cached(k), Pin(c, k)
          PROVE  CachedKeys' = CachedKeys
      <3>1. \A j \in Keys : items'[j].value = items[j].value
        BY <2>c, PinFrame DEF Ownership
      <3> QED
        BY <2>b, <3>1 DEF Cached
    <2>1. CASE UNCHANGED vars
      BY <2>1 DEF vars, PinsOf, Pinned, CachedKeys, Cached
    <2>2. ASSUME NEW c \in Callers, NEW k \in Keys, GetHit(c, k) PROVE P!Next
      <3>1. Cached(k) /\ Pin(c, k) /\ ~Pinned(c) /\ Pinned(c)' /\ key'[c] = k
            /\ \A d \in Callers \ {c} : pc'[d] = pc[d] /\ key'[d] = key[d]
        BY <2>2 DEF GetHit, Pinned, TypeOK
      <3>2. P!Pin(c, k)
        BY <3>1, PinStep DEF Pinned
      <3> QED
        BY <2>c, <3>1, <3>2, HitStep
    <2>3. ASSUME NEW c \in Callers, RecheckHit(c) \/ BumpHit(c) PROVE P!Next
      <3>1. PICK k \in Keys : k = key[c] /\ Cached(k) /\ Pin(c, k) /\ UNCHANGED key
        BY <2>3 DEF RecheckHit, BumpHit, TypeOK
      <3>2. ~Pinned(c) /\ Pinned(c)' /\ \A d \in Callers \ {c} : pc'[d] = pc[d]
        <4>1. CASE RecheckHit(c)
          BY <4>1 DEF RecheckHit, Pinned, TypeOK
        <4>2. CASE BumpHit(c)
          BY <4>2 DEF BumpHit, Pinned, TypeOK
        <4> QED
          BY <2>3, <4>1, <4>2
      <3>3. P!Pin(c, k)
        BY <3>1, <3>2, PinStep DEF Pinned
      <3> QED
        BY <2>c, <3>1, <3>3, HitStep
    <2>4. ASSUME NEW c \in Callers, Insert(c) \/ InsertEvicting(c)
          PROVE  \E k \in Keys : k = key[c] /\ ~Cached(k) /\ val[c] # 0 /\ P!Pin(c, k)
      <3>1. /\ pc[c] = "insert" /\ pc'[c] = "ok" /\ key' = key /\ val[c] # 0
            /\ \A d \in Callers \ {c} : pc'[d] = pc[d]
        <4>1. pc[c] = "insert" /\ pc' = [pc EXCEPT ![c] = "ok"] /\ key' = key
          BY <2>4 DEF Insert, InsertEvicting
        <4>2. val[c] # 0
          BY <4>1 DEF Ownership, OneOwner, TypeOK
        <4> QED
          BY <4>1, <4>2 DEF TypeOK
      <3>2. PICK k \in Keys : k = key[c] /\ ~Cached(k)
        BY <3>1 DEF Ownership, LeaderMissed, TypeOK
      <3>3. P!Pin(c, k)
        BY <3>1, <3>2, PinStep DEF Pinned
      <3> QED
        BY <3>1, <3>2, <3>3
    <2>5. ASSUME NEW c \in Callers, Insert(c) PROVE P!Next
      <3>0. PICK k \in Keys : k = key[c] /\ ~Cached(k) /\ val[c] # 0 /\ P!Pin(c, k)
        BY <2>4, <2>5
      <3>1. items' = [items EXCEPT ![key[c]] = Entry(val[c], 1)] /\ ~Full
        BY <2>5 DEF Insert, Filled
      <3>2. CachedKeys' = (CachedKeys \ {}) \cup {k}
        BY <2>5, <3>0, <3>1 DEF CachedKeys, Cached, Entry, TypeOK
      <3>3. Cardinality(CachedKeys) \in Nat
        BY FS_CardinalityType DEF Sizing, FiniteCache
      <3>4. {} \in P!Outgoing
        BY <3>1, <3>3 DEF Full, P!Outgoing, P!Cardinality, Cardinality
      <3> QED
        BY <3>0, <3>2, <3>4, FillStep
    <2>6. ASSUME NEW c \in Callers, InsertEvicting(c) PROVE P!Next
      <3>0. PICK k \in Keys : k = key[c] /\ ~Cached(k) /\ val[c] # 0 /\ P!Pin(c, k)
        BY <2>4, <2>6
      <3>1. PICK old \in Oldest : items' = [items EXCEPT ![old] = NoEntry, ![key[c]] = Entry(val[c], 1)]
        BY <2>6 DEF InsertEvicting, Filled
      <3>2. old \in Evictable /\ old \in Keys /\ Cached(old)
        BY DEF Oldest, Evictable, CachedKeys
      <3>3. \A j \in Keys : items'[j].value = IF j = k THEN val[c] ELSE IF j = old THEN 0 ELSE items[j].value
        BY <3>0, <3>1, <3>2 DEF NoEntry, Entry, TypeOK
      <3>4. CachedKeys' = (CachedKeys \ {old}) \cup {k}
        BY <3>0, <3>2, <3>3 DEF CachedKeys, Cached
      <3>5. old \in P!Unpinned
        BY <2>a, <3>2, EvictableIsUnpinned
      <3>6. Cardinality(CachedKeys) \in Nat /\ Full
        BY <2>6, FS_CardinalityType DEF Sizing, FiniteCache, InsertEvicting
      <3>7. {old} \in P!Outgoing
        BY <3>5, <3>6 DEF Full, P!Outgoing, P!Cardinality, Cardinality
      <3> QED
        BY <3>0, <3>4, <3>7, FillStep
    <2>7. ASSUME NEW c \in Callers, Release(c) PROVE P!Next
      <3>1. pc[c] = "hold" /\ key' = key /\ Pinned(c) /\ ~Pinned(c)' /\ key[c] \in Keys
            /\ \A d \in Callers \ {c} : pc'[d] = pc[d]
        BY <2>7 DEF Release, Pinned, TypeOK
      <3>2. CachedKeys' = CachedKeys
        BY <2>b, <2>7 DEF Release, Unpinned, Cached, Entry, TypeOK
      <3>3. PinsOf[c] # None
        BY <3>1 DEF PinsOf
      <3>4. PinsOf' = [PinsOf EXCEPT ![c] = None]
        <4>1. \A d \in Callers : PinsOf'[d] = IF d = c THEN None ELSE PinsOf[d]
          BY <3>1 DEF PinsOf, Pinned
        <4>2. PinsOf = [d \in Callers |-> PinsOf[d]] /\ PinsOf' = [d \in Callers |-> PinsOf'[d]]
          BY DEF PinsOf
        <4> QED
          BY <4>1, <4>2
      <3>5. P!Unpin(c)
        BY <3>2, <3>3, <3>4 DEF P!Unpin, PinsOf
      <3> QED
        BY <3>5 DEF P!Next
    <2>8. ASSUME UNCHANGED items,
                 \A d \in Callers : Pinned(d)' <=> Pinned(d),
                 \A d \in Callers : Pinned(d) => key'[d] = key[d]
          PROVE  UNCHANGED <<CachedKeys, PinsOf>>
      BY <2>8 DEF CachedKeys, Cached, PinsOf
    <2>9. ASSUME NEW c \in Callers, FinishOk(c) \/ FinishError(c)
          PROVE  UNCHANGED <<CachedKeys, PinsOf>>
      <3>1. \A d \in Callers : Pinned(d)' <=> Pinned(d)
        BY <2>9 DEF FinishOk, FinishError, Followers, Pinned, TypeOK
      <3>2. UNCHANGED <<items, key>>
        BY <2>9 DEF FinishOk, FinishError
      <3> QED
        BY <3>1, <3>2, <2>8
    <2>10. ASSUME NEW c \in Callers,
                  \/ EnterDo(c) \/ RecheckMiss(c) \/ FactoryOk(c) \/ FactoryError(c)
                  \/ InsertRefused(c) \/ BumpVanished(c) \/ \E k \in Keys : GetMiss(c, k)
           PROVE  UNCHANGED <<CachedKeys, PinsOf>>
      <3>1. UNCHANGED items /\ ~Pinned(c) /\ ~Pinned(c)'
            /\ \A d \in Callers \ {c} : pc'[d] = pc[d] /\ key'[d] = key[d]
        BY <2>10 DEF EnterDo, RecheckMiss, FactoryOk, FactoryError, InsertRefused, BumpVanished,
           GetMiss, Pinned, TypeOK
      <3> QED
        BY <3>1, <2>8 DEF Pinned
    <2> QED
      BY <2>a, <2>1, <2>2, <2>3, <2>5, <2>6, <2>7, <2>9, <2>10 DEF Next, Step
  <1>3. Spec => []TypeOK
    BY TypeCorrect
  <1> QED
    BY <1>1, <1>2, Invariant, PTL DEF Spec, ImplementsPinnedCache

\* Until Close, the cache keeps both promises its wrappers rely on.
THEOREM CacheImplementsBoth == Spec => ImplementsCache
  BY CacheImplementsLifetimes, CacheImplementsPinnedCache DEF ImplementsCache

=============================================================================
