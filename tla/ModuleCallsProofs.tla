------------------------- MODULE ModuleCallsProofs -------------------------
(***************************************************************************)
(* Theorems about Authority and ModuleCalls, for any headers, envelopes,   *)
(* routes and secrets.                                                     *)
(*                                                                         *)
(* The argument follows a request along its chain.  Carries says how what  *)
(* is left of the request's headers and what its context holds derive from *)
(* the request that arrived, Admitting and Clearing what the middleware    *)
(* still to run will check and strip.  When the chain is empty the three   *)
(* say what the handler has, and Sending that nothing else goes out.       *)
(***************************************************************************)
EXTENDS ModuleCalls, TLAPS

-----------------------------------------------------------------------------
(* Shapes, and the fields that each rewriting of a request leaves.         *)

ContextFields == {"id", "active", "pending", "typed", "schema", "surface", "proxied",
                  "payload", "bound"}

IsContext(c) == c = [f \in ContextFields |-> c[f]]

SameMarks(c, d) ==
    /\ d.surface = c.surface /\ d.proxied = c.proxied
    /\ d.payload = c.payload /\ d.bound = c.bound

LEMMA StripFields ==
    ASSUME NEW h, IsHeaders(h)
    PROVE  LET g == StripInvocation(StripDelegation(h))
           IN  /\ IsHeaders(g) /\ g.deleg = None /\ g.inv = None
               /\ g.cred = h.cred /\ HeaderIdentity(g) = HeaderIdentity(h)
BY DEF IsHeaders, HeaderNames, StripInvocation, StripDelegation, HeaderIdentity, Identity

LEMMA StripDelegationFields ==
    ASSUME NEW h, IsHeaders(h)
    PROVE  LET g == StripDelegation(h)
           IN  /\ IsHeaders(g) /\ g.deleg = None /\ g.inv = h.inv
               /\ g.cred = h.cred /\ HeaderIdentity(g) = HeaderIdentity(h)
BY DEF IsHeaders, HeaderNames, StripDelegation, HeaderIdentity, Identity

LEMMA StripTypedFields ==
    ASSUME NEW h, IsHeaders(h)
    PROVE  LET g == StripTyped(h)
           IN  /\ IsHeaders(g) /\ g.deleg = None /\ g.inv = None
               /\ g.cred = h.cred /\ HeaderIdentity(g) = Identity(None, None, None)
BY DEF IsHeaders, HeaderNames, StripTyped, HeaderIdentity, Identity

LEMMA WithoutDelegationFields ==
    ASSUME NEW c, IsContext(c)
    PROVE  LET d == WithoutDelegation(c)
           IN  /\ IsContext(d) /\ SameMarks(c, d) /\ d.active = None /\ d.pending = None
               /\ d.id = c.id /\ d.typed = c.typed /\ d.schema = c.schema
BY DEF IsContext, ContextFields, SameMarks, WithoutDelegation

LEMMA WithPendingFields ==
    ASSUME NEW c, IsContext(c), NEW g
    PROVE  LET d == WithPending(c, g)
           IN  /\ IsContext(d) /\ SameMarks(c, d) /\ d.active = c.active
               /\ d.pending = IF g = None THEN c.pending ELSE g
               /\ d.id = c.id /\ d.typed = c.typed /\ d.schema = c.schema
BY DEF IsContext, ContextFields, SameMarks, WithPending

LEMMA ActivateFields ==
    ASSUME NEW c, IsContext(c)
    PROVE  LET d == ActivatePendingDelegation(c)
           IN  /\ IsContext(d) /\ SameMarks(c, d)
               /\ d.active = IF c.surface THEN c.pending ELSE None
               /\ d.pending = None
               /\ d.id = c.id /\ d.typed = c.typed /\ d.schema = c.schema
BY DEF IsContext, ContextFields, SameMarks, ActivatePendingDelegation, WithoutDelegation

LEMMA ApplyFields ==
    ASSUME NEW c, IsContext(c), NEW v
    PROVE  LET d == ApplyInvocation(v, c)
           IN  /\ IsContext(d) /\ SameMarks(c, d) /\ d.active = None /\ d.pending = v.deleg
               /\ d.id = InvocationIdentity(v) /\ d.typed = v /\ d.schema = v.app
BY DEF IsContext, ContextFields, SameMarks, ApplyInvocation, WithPending, WithoutDelegation

LEMMA IdFields ==
    ASSUME NEW c, IsContext(c), NEW id
    PROVE  LET d == [c EXCEPT !.id = id]
           IN  /\ IsContext(d) /\ SameMarks(c, d) /\ d.active = c.active
               /\ d.pending = c.pending
               /\ d.id = id /\ d.typed = c.typed /\ d.schema = c.schema
BY DEF IsContext, ContextFields, SameMarks

-----------------------------------------------------------------------------
(* What a request's headers h and context c may hold while its chain runs. *)

Nobody == Identity(None, None, None)

CredentialWasCurrent == req.wire.cred[SecretHeader] \in live

(* Headers are stripped or kept, and the typed context goes into the       *)
(* context as a whole, with every header that agrees with it.              *)
CarriesHeaders(h, c) ==
    /\ IsHeaders(h)
    /\ ~OverHTTP => h.inv = None /\ h.deleg = None /\ HeaderIdentity(h) = Nobody
    /\ OverHTTP =>
          /\ h.cred = req.wire.cred
          /\ h.inv \in {None, req.wire.inv}
          /\ h.deleg # None => h.deleg = req.wire.deleg /\ h.inv = req.wire.inv
          /\ req.wire.inv = None => HeaderIdentity(h) = HeaderIdentity(req.wire)
    /\ OverHTTP /\ Configured /\ req.wire.inv # None =>
          IF c.id = None THEN h.inv = req.wire.inv
          ELSE h.inv = None /\ HeaderIdentity(h) = Nobody

(* Identity, typed context and schema are the carrier's, or, with no       *)
(* secret source, the synthetic ones.                                      *)
CarriesIdentity(c) ==
    /\ IsContext(c)
    /\ IF OverHTTP THEN c.payload = FALSE ELSE c.payload = TRUE
    /\ c.typed # None => c.schema = c.typed.app
    /\ OverHTTP /\ Configured =>
          /\ c.id # None => c.id = CarrierIdentity
          /\ c.typed # None => c.typed = req.wire.inv
          /\ req.wire.inv # None /\ c.id # None => c.typed = req.wire.inv
          /\ c.typed = None => c.schema \in {None, req.wire.app}
    /\ OverHTTP /\ ~Configured => c.typed = None /\ c.id \in {None, SyntheticIdentity}
    /\ ~OverHTTP /\ c.id # None =>
          c.id = CarrierIdentity \/ (~Configured /\ c.id = SyntheticIdentity)

(* A delegation, waiting or active, is the carrier's and belongs to the    *)
(* identity it came with.                                                  *)
CarriesDelegation(c) ==
    /\ c.surface => req.scope = "platform"
    /\ c.proxied => OverHTTP /\ Configured /\ CredentialWasCurrent
    /\ c.pending # None \/ c.active # None =>
          /\ OverHTTP => Configured
          /\ c.id # None => c.id = CarrierIdentity
    /\ c.pending # None => c.pending = CarrierDelegation
    /\ c.active # None =>
          /\ c.active = CarrierDelegation /\ c.surface
          /\ c.id = CarrierIdentity /\ c.id.role # None
          /\ OverHTTP => CredentialWasCurrent

Carried(h, c) == CarriesHeaders(h, c) /\ CarriesIdentity(c) /\ CarriesDelegation(c)

(* Nothing is left that nested middleware could still activate.            *)
Cleared(h, c) == h.deleg = None /\ h.inv = None /\ c.pending = None

Ahead(S) == \E i \in 1..Len(chain) : chain[i] \in S

Gates == {"proxy", "internal"}

(* The proxy leaves the delegation to the platform surface behind it.      *)
Clearers == {"platform", "internal"} \cup (IF req.scope = "platform" THEN {} ELSE {"proxy"})

-----------------------------------------------------------------------------
(* The inductive invariant.                                                *)

Handled == status \in {"routing", "served"} /\ req.origin # "task"

SecretKnown ==
    /\ ~Configured => token = None
    /\ status = "routing" /\ token # None => token \in live

Arrived ==
    /\ Handled =>
          /\ req.scope \in Scopes
          /\ chain \in Seq(Middleware \cup {"surface"})
          /\ Ahead({"surface"}) => req.scope = "platform"
          /\ OverHTTP => req.wire \in Headers /\ ~env.lambda
    /\ status = "routing" => Handled
    /\ status = "served" => chain = <<>>

Admitting ==
    Handled /\ OverHTTP /\ Configured /\ req.scope # "bare" =>
        CredentialWasCurrent \/ Ahead(Gates)

Clearing == Handled /\ req.scope # "bare" => Cleared(hdrs, ctx) \/ Ahead(Clearers)

Carries == Handled => Carried(hdrs, ctx)

Unattended ==
    /\ status = "idle" => hdrs = NoHeaders /\ chain = <<>>
    /\ status = "served" /\ ~Handled => Cleared(hdrs, ctx) /\ ctx.active = None

Authorities == SecretKnown /\ Arrived /\ Admitting /\ Clearing /\ Carries /\ Unattended

IsCall(c) ==
    c = [f \in {"op", "path", "ttl", "stage", "answer", "marked", "ingress"} |-> c[f]]

Posts == [to : {"dispatch", "direct"}, cred : {"session", "capability", "producer"},
          deleg : {None, ctx.active}, app : {IF ctx.id = None THEN None ELSE ctx.id.app}]

(* Whatever was posted names the delegation toward platform paths only,    *)
(* and a call that may still be sent to the producer directly has not been *)
(* executed.                                                               *)
Sending ==
    /\ out \in Seq(Posts)
    /\ runs \in 0..1
    /\ out = <<>> => runs = 0 /\ call = None
    /\ status # "served" => call = None /\ out = <<>>
    /\ out # <<>> => IsCall(call)
    /\ out # <<>> /\ (call.stage \in {"sent", "direct"} \/ (call.stage = "answered" /\ RouteMiss))
          => runs = 0
    /\ \A i \in 1..Len(out) : out[i].deleg # None => call.path = "platform"

CallsInv == Authorities /\ Sending

-----------------------------------------------------------------------------
(* A step along the chain.                                                 *)

LEMMA TailHas ==
    ASSUME NEW T, NEW q \in Seq(T), q # <<>>, NEW S, \E i \in 1..Len(q) : q[i] \in S
    PROVE  Head(q) \in S \/ \E i \in 1..Len(Tail(q)) : Tail(q)[i] \in S
<1>1. PICK i \in 1..Len(q) : q[i] \in S
  OBVIOUS
<1>2. CASE i = 1
  BY <1>1, <1>2
<1>3. CASE i # 1
  <2>1. i - 1 \in 1..Len(Tail(q)) /\ Tail(q)[i - 1] = q[i]
    BY <1>1, <1>3
  <2>2. QED
    BY <1>1, <2>1
<1>4. QED
  BY <1>2, <1>3

LEMMA HeadTail ==
    ASSUME NEW T, NEW q \in Seq(T), q # <<>>
    PROVE  /\ Head(q) \in T /\ Tail(q) \in Seq(T)
           /\ \A i \in 1..Len(Tail(q)) : \E j \in 1..Len(q) : Tail(q)[i] = q[j]
           /\ \E j \in 1..Len(q) : Head(q) = q[j]
<1>1. Len(q) \in Nat /\ Len(q) > 0 /\ Head(q) = q[1] /\ Tail(q) \in Seq(T)
  OBVIOUS
<1>2. \A i \in 1..Len(Tail(q)) : i + 1 \in 1..Len(q) /\ Tail(q)[i] = q[i + 1]
  OBVIOUS
<1>3. QED
  BY <1>1, <1>2

LEMMA CarriedStays ==
    ASSUME NEW h, NEW c, Carried(h, c), UNCHANGED <<env, req>>, live \subseteq live'
    PROVE  /\ CarriesHeaders(h, c)' /\ CarriesIdentity(c)' /\ CarriesDelegation(c)'
           /\ Carried(h, c)'
<1> USE DEF Carried
<1>1. CarriesHeaders(h, c)'
  BY DEF CarriesHeaders, OverHTTP, Configured
<1>2. CarriesIdentity(c)'
  BY DEF CarriesIdentity, OverHTTP, Configured, CarrierIdentity
<1>3. CarriesDelegation(c)'
  BY DEF CarriesDelegation, OverHTTP, Configured, CarrierIdentity, CarrierDelegation,
     CredentialWasCurrent, SecretHeader
<1>4. QED
  BY <1>1, <1>2, <1>3

(* The middleware m forwards: what it must do for the invariant to hold    *)
(* behind it.                                                              *)
LEMMA ForwardStep ==
    ASSUME Authorities, NEW m, At(m), NEW STATE h, NEW STATE c, Forward(h, c),
           Carried(h, c),
           OverHTTP /\ Configured /\ m \in Gates => CredentialWasCurrent,
           req.scope # "bare" /\ (Cleared(hdrs, ctx) \/ m \in Clearers) => Cleared(h, c)
    PROVE  Authorities'
<1> USE DEF Authorities
<1>1. /\ status = "routing" /\ chain # <<>> /\ Head(chain) = m
      /\ hdrs' = h /\ ctx' = c /\ chain' = Tail(chain)
      /\ UNCHANGED <<env, token, req, status, live>>
  BY DEF At, Forward
<1>2. Handled /\ Handled'
  BY <1>1 DEF Arrived, Handled
<1>3. chain \in Seq(Middleware \cup {"surface"})
  BY <1>2 DEF Arrived
<1>4. SecretKnown'
  BY <1>1 DEF SecretKnown, Configured
<1>5. Arrived'
  <2>1. Ahead({"surface"})' => Ahead({"surface"})
    BY <1>1, <1>3, HeadTail DEF Ahead
  <2>2. chain' \in Seq(Middleware \cup {"surface"})
    BY <1>1, <1>3, HeadTail
  <2>3. QED
    BY <1>1, <1>2, <2>1, <2>2 DEF Arrived, OverHTTP
<1>6. Admitting'
  <2>1. Ahead(Gates) => m \in Gates \/ Ahead(Gates)'
    BY <1>1, <1>3, TailHas DEF Ahead, Gates
  <2>2. QED
    BY <1>1, <1>2, <2>1 DEF Admitting, OverHTTP, Configured, CredentialWasCurrent, SecretHeader
<1>7. Clearing'
  <2>1. Ahead(Clearers) => m \in Clearers \/ Ahead(Clearers)'
    BY <1>1, <1>3, TailHas DEF Ahead, Clearers
  <2>2. QED
    BY <1>1, <1>2, <2>1 DEF Clearing, Cleared
<1>8. Carries'
  BY <1>1, CarriedStays DEF Carries, Carried
<1>9. Unattended'
  BY <1>1, <1>2 DEF Unattended
<1>10. QED
  BY <1>4, <1>5, <1>6, <1>7, <1>8, <1>9

LEMMA DenyStep ==
    ASSUME Authorities, NEW code, Deny(code), status = "routing",
           code \notin {"idle", "routing", "served"}
    PROVE  Authorities'
<1>1. ~Handled'
  BY DEF Deny, Handled
<1>2. UNCHANGED <<env, token>> /\ status' = code
  BY DEF Deny
<1>3. QED
  BY <1>1, <1>2 DEF Authorities, SecretKnown, Configured, Arrived, Admitting, Clearing, Carries,
     Unattended

LEMMA ServeStep == Authorities /\ Serve => Authorities'
<1> SUFFICES ASSUME Authorities, Serve PROVE Authorities'
  OBVIOUS
<1> USE DEF Authorities
<1>1. /\ status = "routing" /\ status' = "served" /\ chain = <<>>
      /\ UNCHANGED <<env, token, req, hdrs, ctx, chain, live>>
  BY DEF Serve
<1>2. Handled /\ Handled'
  BY <1>1 DEF Arrived, Handled
<1>3. SecretKnown' /\ Arrived' /\ Unattended'
  BY <1>1, <1>2 DEF SecretKnown, Configured, Arrived, Unattended, Ahead, OverHTTP
<1>4. Admitting'
  BY <1>1, <1>2 DEF Admitting, Ahead, OverHTTP, Configured, CredentialWasCurrent, SecretHeader
<1>5. Clearing'
  BY <1>1, <1>2 DEF Clearing, Ahead, Cleared, Clearers
<1>6. Carries'
  BY <1>1, <1>2, CarriedStays DEF Carries, Carried
<1>7. QED
  BY <1>3, <1>4, <1>5, <1>6

-----------------------------------------------------------------------------
(* The ways in which a middleware forwards.                                *)

Stripped == StripInvocation(StripDelegation(hdrs))

(* Stripped of every carrier, and of the delegation.                       *)
LEMMA PassBare ==
    ASSUME Carried(hdrs, ctx), ctx.id # None \/ ~OverHTTP \/ ~Configured
    PROVE  Carried(Stripped, WithoutDelegation(ctx)) /\ Cleared(Stripped, WithoutDelegation(ctx))
<1>1. IsHeaders(hdrs) /\ IsContext(ctx)
  BY DEF Carried, CarriesHeaders, CarriesIdentity
<1> DEFINE h == Stripped
           c == WithoutDelegation(ctx)
<1>2. /\ IsHeaders(h) /\ h.deleg = None /\ h.inv = None
      /\ h.cred = hdrs.cred /\ HeaderIdentity(h) = HeaderIdentity(hdrs)
  BY <1>1, StripFields DEF Stripped
<1>3. /\ IsContext(c) /\ SameMarks(ctx, c) /\ c.active = None /\ c.pending = None
      /\ c.id = ctx.id /\ c.typed = ctx.typed /\ c.schema = ctx.schema
  BY <1>1, WithoutDelegationFields
<1> HIDE DEF h, c
<1>4. CarriesHeaders(h, c)
  BY <1>2, <1>3 DEF Carried, CarriesHeaders
<1>5. CarriesIdentity(c)
  BY <1>3 DEF Carried, CarriesIdentity, SameMarks
<1>6. CarriesDelegation(c)
  BY <1>3 DEF Carried, CarriesDelegation, SameMarks
<1>7. QED
  BY <1>2, <1>3, <1>4, <1>5, <1>6 DEF Carried, Cleared, h, c

(* Stripped, the context untouched: the Lambda payload is the trust.       *)
LEMMA PassPayload ==
    ASSUME Carried(hdrs, ctx), ~OverHTTP
    PROVE  /\ Carried(Stripped, ctx)
           /\ Cleared(hdrs, ctx) => Cleared(Stripped, ctx)
<1>1. IsHeaders(hdrs) /\ IsContext(ctx)
  BY DEF Carried, CarriesHeaders, CarriesIdentity
<1> DEFINE h == Stripped
<1>2. /\ IsHeaders(h) /\ h.deleg = None /\ h.inv = None
      /\ h.cred = hdrs.cred /\ HeaderIdentity(h) = HeaderIdentity(hdrs)
  BY <1>1, StripFields DEF Stripped
<1> HIDE DEF h
<1>3. CarriesHeaders(h, ctx)
  BY <1>2 DEF Carried, CarriesHeaders
<1>4. QED
  BY <1>2, <1>3 DEF Carried, Cleared, h

(* What consuming a typed context leaves, once the secret has matched.     *)
LEMMA Consumed ==
    ASSUME Carried(hdrs, ctx), OverHTTP, req.wire \in Headers, NEW bound, Consumes(bound),
           Configured
    PROVE  /\ IsHeaders(ConsumedHeaders) /\ IsContext(ConsumedContext)
           /\ SameMarks(ctx, ConsumedContext)
           /\ ConsumedHeaders.inv = None /\ ConsumedHeaders.cred = hdrs.cred
           /\ \/ /\ TypedArrived(hdrs) /\ hdrs.inv = req.wire.inv /\ req.wire.inv # None
                 /\ HeaderIdentity(ConsumedHeaders) = Nobody
                 /\ ConsumedHeaders.deleg = None
                 /\ ConsumedContext.id = CarrierIdentity /\ ConsumedContext.id # None
                 /\ ConsumedContext.typed = req.wire.inv
                 /\ ConsumedContext.schema = req.wire.inv.app
                 /\ ConsumedContext.active = None
                 /\ ConsumedContext.pending = CarrierDelegation
              \/ /\ ~TypedArrived(hdrs) /\ hdrs.inv = None
                 /\ ConsumedHeaders = hdrs /\ ConsumedContext = ctx
<1>1. /\ IsHeaders(hdrs) /\ IsContext(ctx) /\ hdrs.inv \in {None, req.wire.inv}
  BY DEF Carried, CarriesHeaders, CarriesIdentity
<1>2. CASE TypedArrived(hdrs)
  <2>1. hdrs.inv = req.wire.inv /\ req.wire.inv # None
    BY <1>1, <1>2 DEF TypedArrived
  <2>2. InvocationHolds(hdrs.inv, hdrs, bound)
    BY <1>2 DEF Consumes
  <2>3. hdrs.inv \in Invocations
    BY <2>1, <2>2 DEF InvocationHolds, Parses, WellFormed, Invocations
  <2>4. InvocationIdentity(hdrs.inv) # None
    BY <2>3, RequestsAssumption
  <2>5. CarrierIdentity = InvocationIdentity(hdrs.inv) /\ CarrierDelegation = hdrs.inv.deleg
    BY <2>1 DEF CarrierIdentity, CarrierDelegation
  <2>6. ConsumedHeaders = StripTyped(hdrs) /\ ConsumedContext = ApplyInvocation(hdrs.inv, ctx)
    BY <1>2 DEF ConsumedHeaders, ConsumedContext
  <2>7. /\ IsHeaders(ConsumedHeaders) /\ ConsumedHeaders.deleg = None
        /\ ConsumedHeaders.inv = None /\ ConsumedHeaders.cred = hdrs.cred
        /\ HeaderIdentity(ConsumedHeaders) = Nobody
    BY <1>1, <2>6, StripTypedFields DEF Nobody
  <2>8. /\ IsContext(ConsumedContext) /\ SameMarks(ctx, ConsumedContext)
        /\ ConsumedContext.active = None /\ ConsumedContext.pending = hdrs.inv.deleg
        /\ ConsumedContext.id = InvocationIdentity(hdrs.inv)
        /\ ConsumedContext.typed = hdrs.inv /\ ConsumedContext.schema = hdrs.inv.app
    <3> DEFINE v == hdrs.inv
    <3>1. LET d == ApplyInvocation(v, ctx)
          IN  /\ IsContext(d) /\ SameMarks(ctx, d) /\ d.active = None /\ d.pending = v.deleg
              /\ d.id = InvocationIdentity(v) /\ d.typed = v /\ d.schema = v.app
      BY <1>1, ApplyFields
    <3>2. QED
      BY <2>6, <3>1
  <2>9. QED
    BY <1>2, <2>1, <2>4, <2>5, <2>7, <2>8
<1>3. CASE ~TypedArrived(hdrs)
  <2>1. ConsumedHeaders = hdrs /\ ConsumedContext = ctx /\ hdrs.inv = None
    BY <1>3 DEF ConsumedHeaders, ConsumedContext, TypedArrived
  <2>2. QED
    BY <1>1, <1>3, <2>1 DEF SameMarks
<1>4. QED
  BY <1>2, <1>3

(* The request forwarded with a validated secret is the carrier's, whether *)
(* its delegation waits or has been dropped.                               *)
LEMMA PassPromoted ==
    ASSUME Carried(hdrs, ctx), OverHTTP, req.wire \in Headers, NEW bound, Consumes(bound),
           Configured, CredentialWasCurrent,
           NEW c, IsContext(c), SameMarks(ConsumedContext, c),
           c.id = ConsumedContext.id, c.typed = ConsumedContext.typed,
           c.schema = ConsumedContext.schema,
           \/ c.active = None /\ c.pending = None
           \/ /\ c.active = ConsumedContext.active
              /\ c.pending = IF ConsumedHeaders.deleg = None THEN ConsumedContext.pending
                             ELSE ConsumedHeaders.deleg
    PROVE  LET h == StripDelegation(ConsumedHeaders)
               d == PromoteForwarderIdentity(ConsumedHeaders, c)
           IN  /\ Carried(h, d)
               /\ h.deleg = None /\ h.inv = None
               /\ IsContext(d) /\ SameMarks(c, d)
               /\ d.active = c.active /\ d.pending = c.pending
<1> DEFINE g == ConsumedHeaders
           k == ConsumedContext
           h == StripDelegation(g)
           d == PromoteForwarderIdentity(g, c)
<1>1. /\ IsHeaders(g) /\ IsContext(k) /\ SameMarks(ctx, k)
      /\ g.inv = None /\ g.cred = hdrs.cred
      /\ \/ /\ TypedArrived(hdrs) /\ hdrs.inv = req.wire.inv /\ req.wire.inv # None
            /\ HeaderIdentity(g) = Nobody /\ g.deleg = None
            /\ k.id = CarrierIdentity /\ k.id # None
            /\ k.typed = req.wire.inv /\ k.schema = req.wire.inv.app
            /\ k.active = None /\ k.pending = CarrierDelegation
         \/ ~TypedArrived(hdrs) /\ hdrs.inv = None /\ g = hdrs /\ k = ctx
  BY Consumed
<1>2. /\ IsHeaders(h) /\ h.deleg = None /\ h.inv = None
      /\ h.cred = hdrs.cred /\ HeaderIdentity(h) = HeaderIdentity(g)
  BY <1>1, StripDelegationFields
<1>3. /\ IsContext(d) /\ SameMarks(c, d) /\ d.active = c.active /\ d.pending = c.pending
      /\ d.typed = c.typed /\ d.schema = c.schema
      /\ d.id = IF c.id # None \/ HeaderIdentity(g) = Nobody THEN c.id ELSE HeaderIdentity(g)
  <2>1. CASE c.id # None \/ HeaderIdentity(g) = Nobody
    BY <2>1 DEF PromoteForwarderIdentity, Nobody, SameMarks
  <2>2. CASE ~(c.id # None \/ HeaderIdentity(g) = Nobody)
    <3>1. d = [c EXCEPT !.id = HeaderIdentity(g)]
      BY <2>2 DEF PromoteForwarderIdentity, Nobody
    <3>2. QED
      BY <2>2, <3>1, IdFields
  <2>3. QED
    BY <2>1, <2>2
<1> HIDE DEF g, k, h, d
<1>4. CASE TypedArrived(hdrs)
  <2>1. /\ d.id = CarrierIdentity /\ d.id # None /\ d.typed = req.wire.inv
        /\ req.wire.inv # None /\ d.schema = req.wire.inv.app /\ d.active = None
        /\ d.pending \in {None, CarrierDelegation} /\ HeaderIdentity(h) = Nobody
    BY <1>1, <1>2, <1>3, <1>4 DEF g, k
  <2>2. CarriesHeaders(h, d)
    BY <1>2, <2>1 DEF Carried, CarriesHeaders
  <2>3. CarriesIdentity(d)
    BY <1>1, <1>3, <2>1 DEF Carried, CarriesIdentity, SameMarks, k
  <2>4. CarriesDelegation(d)
    BY <1>1, <1>3, <2>1 DEF Carried, CarriesDelegation, SameMarks, k
  <2>5. QED
    BY <1>2, <1>3, <2>2, <2>3, <2>4 DEF Carried, h, d, g
<1>5. CASE ~TypedArrived(hdrs)
  <2>1. g = hdrs /\ k = ctx /\ hdrs.inv = None
    BY <1>1, <1>5
  <2>2. ctx.id = None => /\ req.wire.inv = None
                         /\ CarrierIdentity = HeaderIdentity(hdrs)
                         /\ d.id \in {None, CarrierIdentity}
    BY <1>3, <2>1 DEF Carried, CarriesHeaders, CarrierIdentity, k
  <2>3. ctx.id # None => d.id = ctx.id
    BY <1>3, <2>1 DEF k
  <2>4. d.typed = ctx.typed /\ d.schema = ctx.schema
    BY <1>3, <2>1 DEF k
  <2>5. CarriesHeaders(h, d)
    BY <1>2, <2>1, <2>2, <2>3 DEF Carried, CarriesHeaders
  <2>6. CarriesIdentity(d)
    BY <1>1, <1>3, <2>1, <2>2, <2>3, <2>4 DEF Carried, CarriesIdentity, SameMarks, k
  <2>7. d.pending # None => d.pending = CarrierDelegation
    <3>1. hdrs.deleg # None => hdrs.deleg = CarrierDelegation
      BY <2>1 DEF Carried, CarriesHeaders, CarrierDelegation
    <3>2. d.pending \in {None, ctx.pending, hdrs.deleg}
      BY <1>3, <2>1 DEF k, g
    <3>3. QED
      BY <3>1, <3>2 DEF Carried, CarriesDelegation
  <2>8. d.active \in {None, ctx.active}
    BY <1>3, <2>1 DEF k
  <2>9. CarriesDelegation(d)
    <3>1. d.surface = ctx.surface /\ d.proxied = ctx.proxied
      BY <1>1, <1>3 DEF SameMarks, k
    <3>2. d.id # None => d.id = CarrierIdentity
      BY <2>6 DEF CarriesIdentity
    <3>3. d.active # None => /\ d.active = CarrierDelegation /\ d.surface
                             /\ d.id = CarrierIdentity /\ d.id.role # None
      BY <2>2, <2>3, <2>8, <3>1 DEF Carried, CarriesDelegation
    <3>4. QED
      BY <2>7, <3>1, <3>2, <3>3 DEF Carried, CarriesDelegation
  <2>10. QED
    BY <1>2, <1>3, <2>5, <2>6, <2>9 DEF Carried, h, d, g
<1>6. QED
  BY <1>4, <1>5

-----------------------------------------------------------------------------
(* The middleware.                                                         *)

LEMMA Routing ==
    ASSUME Authorities, NEW m, At(m)
    PROVE  /\ status = "routing" /\ Handled /\ Carried(hdrs, ctx)
           /\ OverHTTP <=> ~ctx.payload
           /\ OverHTTP => req.wire \in Headers /\ ~env.lambda
           /\ m = "surface" => req.scope = "platform"
<1>1. status = "routing" /\ Handled /\ Carried(hdrs, ctx)
  BY DEF Authorities, Arrived, Carries, At
<1>2. OverHTTP <=> ~ctx.payload
  BY <1>1 DEF Carried, CarriesIdentity
<1>3. m = "surface" => Ahead({"surface"})
  <2>1. chain \in Seq(Middleware \cup {"surface"}) /\ chain # <<>> /\ Head(chain) = m
    BY <1>1 DEF Authorities, Arrived, At
  <2>2. QED
    BY <2>1, HeadTail DEF Ahead
<1>4. QED
  BY <1>1, <1>2, <1>3 DEF Authorities, Arrived

LEMMA Matched ==
    ASSUME Authorities, NEW m, At(m), OverHTTP, SecretMatches
    PROVE  CredentialWasCurrent /\ Configured
<1>1. token # None /\ token \in live /\ hdrs.cred = req.wire.cred
  BY Routing DEF SecretMatches, Authorities, SecretKnown, Carried, CarriesHeaders
<1>2. QED
  BY <1>1 DEF SecretMatches, Presented, CredentialWasCurrent, Authorities, SecretKnown

LEMMA SurfaceStep == Authorities /\ PlatformActorSurface => Authorities'
<1> SUFFICES ASSUME Authorities, PlatformActorSurface PROVE Authorities'
  OBVIOUS
<1> DEFINE c == [ctx EXCEPT !.surface = TRUE]
<1>1. At("surface") /\ Forward(hdrs, c)
  BY DEF PlatformActorSurface
<1>2. Carried(hdrs, ctx) /\ req.scope = "platform"
  BY <1>1, Routing
<1>3. /\ IsContext(c) /\ c.surface /\ c.proxied = ctx.proxied /\ c.payload = ctx.payload
      /\ c.active = ctx.active /\ c.pending = ctx.pending
      /\ c.id = ctx.id /\ c.typed = ctx.typed /\ c.schema = ctx.schema
  BY <1>2 DEF Carried, CarriesIdentity, IsContext, ContextFields
<1> HIDE DEF c
<1>4. CarriesHeaders(hdrs, c)
  BY <1>2, <1>3 DEF Carried, CarriesHeaders
<1>5. CarriesIdentity(c)
  BY <1>2, <1>3 DEF Carried, CarriesIdentity
<1>6. CarriesDelegation(c)
  BY <1>2, <1>3 DEF Carried, CarriesDelegation
<1>7. Cleared(hdrs, ctx) => Cleared(hdrs, c)
  BY <1>3 DEF Cleared
<1>8. "surface" \notin Clearers /\ "surface" \notin Gates
  BY DEF Clearers, Gates
<1>9. QED
  BY <1>1, <1>4, <1>5, <1>6, <1>7, <1>8, ForwardStep DEF Carried

LEMMA ProxyStep == Authorities /\ RequireProxy => Authorities'
<1> SUFFICES ASSUME Authorities, RequireProxy PROVE Authorities'
  OBVIOUS
<1>1. At("proxy")
  BY DEF RequireProxy
<1>2. /\ status = "routing" /\ Carried(hdrs, ctx)
      /\ OverHTTP <=> ~ctx.payload
      /\ OverHTTP => req.wire \in Headers /\ ~env.lambda
  BY <1>1, Routing
<1>3. IsContext(ctx) /\ (ctx.surface => req.scope = "platform")
  BY <1>2 DEF Carried, CarriesIdentity, CarriesDelegation
<1>4. "proxy" \in Clearers => ~ctx.surface
  BY <1>3 DEF Clearers
<1>5. CASE (env.lambda \/ ctx.payload) /\ ProxyPassesInert
  <2>1. ~OverHTTP
    BY <1>2, <1>5
  <2>2. CASE ctx.surface
    <3>1. Forward(Stripped, ctx)
      BY <1>5, <2>2 DEF ProxyPassesInert, Stripped
    <3>2. Carried(Stripped, ctx) /\ (Cleared(hdrs, ctx) => Cleared(Stripped, ctx))
      BY <1>2, <2>1, PassPayload
    <3>3. QED
      BY <1>1, <1>4, <2>1, <2>2, <3>1, <3>2, ForwardStep
  <2>3. CASE ~ctx.surface
    <3>1. Forward(Stripped, WithoutDelegation(ctx))
      BY <1>5, <2>3 DEF ProxyPassesInert, Stripped
    <3>2. QED
      BY <1>1, <1>2, <2>1, <3>1, PassBare, ForwardStep
  <2>4. QED
    BY <2>2, <2>3
<1>6. CASE ~Configured /\ Forward(StripInvocation(StripDelegation(hdrs)), WithoutDelegation(ctx))
  BY <1>1, <1>2, <1>6, PassBare, ForwardStep DEF Stripped
<1>7. CASE ~env.lambda /\ ~ctx.payload /\ Configured /\ ProxyEnforces
  <2>1. CASE Deny("403") \/ Deny("400")
    BY <1>2, <2>1, DenyStep
  <2>2. CASE SecretMatches /\ Consumes(ctx.bound) /\ ProxyPassesTrusted
    <3> DEFINE g == ConsumedHeaders
               k == ConsumedContext
               c == IF ctx.surface THEN WithPending(k, g.deleg) ELSE WithoutDelegation(k)
               d == PromoteForwarderIdentity(g, c)
               e == [d EXCEPT !.proxied = TRUE]
               h == StripDelegation(g)
    <3>1. OverHTTP /\ CredentialWasCurrent
      BY <1>1, <1>2, <1>7, <2>2, Matched
    <3>2. /\ IsHeaders(g) /\ IsContext(k) /\ SameMarks(ctx, k)
          /\ hdrs.inv = None => g = hdrs /\ k = ctx
      BY <1>2, <1>7, <2>2, <3>1, Consumed DEF TypedArrived
    <3>3. /\ IsContext(c) /\ SameMarks(k, c) /\ c.id = k.id /\ c.typed = k.typed
          /\ c.schema = k.schema
          /\ IF ctx.surface
             THEN /\ c.active = k.active
                  /\ c.pending = IF g.deleg = None THEN k.pending ELSE g.deleg
             ELSE c.active = None /\ c.pending = None
      <4> HIDE DEF g, k
      <4>1. CASE ctx.surface
        BY <3>2, <4>1, WithPendingFields
      <4>2. CASE ~ctx.surface
        BY <3>2, <4>2, WithoutDelegationFields
      <4>3. QED
        BY <4>1, <4>2
    <3> HIDE DEF c
    <3>4. /\ Carried(h, d) /\ h.deleg = None /\ h.inv = None
          /\ IsContext(d) /\ SameMarks(c, d) /\ d.active = c.active /\ d.pending = c.pending
      BY <1>2, <1>7, <2>2, <3>1, <3>3, PassPromoted
    <3>5. CASE Deny("401")
      BY <1>2, <3>5, DenyStep
    <3>6. CASE Forward(h, e)
      <4> HIDE DEF g, k, d, h
      <4>1. /\ IsContext(e) /\ e.proxied /\ e.surface = d.surface /\ e.payload = d.payload
            /\ e.active = d.active /\ e.pending = d.pending
            /\ e.id = d.id /\ e.typed = d.typed /\ e.schema = d.schema
        BY <3>4 DEF IsContext, ContextFields
      <4> HIDE DEF e
      <4>2. CarriesHeaders(h, e) /\ CarriesIdentity(e)
        BY <3>4, <4>1 DEF Carried, CarriesHeaders, CarriesIdentity
      <4>3. CarriesDelegation(e)
        BY <1>7, <3>1, <3>4, <4>1 DEF Carried, CarriesDelegation
      <4>4. Cleared(hdrs, ctx) \/ ~ctx.surface => Cleared(h, e)
        BY <3>2, <3>3, <3>4, <4>1 DEF Cleared
      <4>5. Carried(h, e)
        BY <4>2, <4>3 DEF Carried
      <4>6. QED
        BY <1>1, <1>4, <3>1, <3>6, <4>4, <4>5, ForwardStep
    <3>7. QED
      BY <2>2, <3>5, <3>6 DEF ProxyPassesTrusted, c
  <2>3. QED
    BY <1>7, <2>1, <2>2 DEF ProxyEnforces
<1>8. QED
  BY <1>5, <1>6, <1>7 DEF RequireProxy

LEMMA PresetStep ==
    ASSUME Authorities, At("platform"), PresetIdentity, PlatformTakesPreset
    PROVE  Authorities'
<1>1. Carried(hdrs, ctx) /\ (OverHTTP <=> ~ctx.payload)
  BY Routing
<1>2. ctx.id # None /\ ctx.id.role # None
  BY DEF PresetIdentity
<1>3. "platform" \in Clearers /\ "platform" \notin Gates
  BY DEF Clearers, Gates
<1>4. CASE ctx.surface /\ (ctx.proxied \/ ctx.payload)
  <2> DEFINE c == ActivatePendingDelegation(ctx)
             h == Stripped
  <2>1. Forward(h, c)
    BY <1>4 DEF PlatformTakesPreset, Stripped
  <2>2. IsHeaders(hdrs) /\ IsContext(ctx)
    BY <1>1 DEF Carried, CarriesHeaders, CarriesIdentity
  <2>3. /\ IsHeaders(h) /\ h.deleg = None /\ h.inv = None
        /\ h.cred = hdrs.cred /\ HeaderIdentity(h) = HeaderIdentity(hdrs)
    BY <2>2, StripFields DEF Stripped
  <2>4. /\ IsContext(c) /\ SameMarks(ctx, c) /\ c.active = ctx.pending /\ c.pending = None
        /\ c.id = ctx.id /\ c.typed = ctx.typed /\ c.schema = ctx.schema
    BY <1>4, <2>2, ActivateFields
  <2> HIDE DEF c, h
  <2>5. CarriesHeaders(h, c)
    BY <1>1, <1>2, <2>3, <2>4 DEF Carried, CarriesHeaders
  <2>6. CarriesIdentity(c)
    BY <1>1, <2>4 DEF Carried, CarriesIdentity, SameMarks
  <2>7. CarriesDelegation(c)
    BY <1>1, <1>2, <1>4, <2>4 DEF Carried, CarriesDelegation, SameMarks
  <2>8. Carried(h, c) /\ Cleared(h, c)
    BY <2>3, <2>4, <2>5, <2>6, <2>7 DEF Carried, Cleared
  <2>9. QED
    BY <1>3, <2>1, <2>8, ForwardStep
<1>5. CASE ~(ctx.surface /\ (ctx.proxied \/ ctx.payload))
  <2>1. Forward(Stripped, WithoutDelegation(ctx))
    BY <1>5 DEF PlatformTakesPreset, Stripped
  <2>2. QED
    BY <1>1, <1>2, <1>3, <2>1, PassBare, ForwardStep
<1>6. QED
  BY <1>4, <1>5

(* Over HTTP, behind a matching secret, the identity comes from the        *)
(* carrier as a whole.                                                     *)
LEMMA ForwardedStep ==
    ASSUME Authorities, At("platform"), SecretMatches, Consumes(FALSE),
           Configured \/ env.lambda, PlatformTakesForwarded
    PROVE  Authorities'
<1> DEFINE g == ConsumedHeaders
           k == ConsumedContext
           id == IF TypedArrived(hdrs) THEN k.id ELSE HeaderIdentity(g)
           d == ActivatePendingDelegation(WithPending([k EXCEPT !.id = id], g.deleg))
           h == StripDelegation(g)
<1>1. /\ status = "routing" /\ Carried(hdrs, ctx)
      /\ OverHTTP => req.wire \in Headers /\ ~env.lambda
  BY Routing
<1>2. CASE Deny("401")
  BY <1>1, <1>2, DenyStep
<1>3. CASE Forward(h, d) /\ id.user # None /\ id.app # None /\ id.role # None
  <2>1. OverHTTP
    <3>1. SUFFICES ASSUME ~OverHTTP PROVE FALSE
      OBVIOUS
    <3>2. hdrs.inv = None /\ HeaderIdentity(hdrs) = Nobody
      BY <1>1, <3>1 DEF Carried, CarriesHeaders
    <3>3. id = Nobody
      BY <3>2 DEF TypedArrived, ConsumedHeaders
    <3>4. QED
      BY <1>3, <3>3 DEF Nobody, Identity
  <2>2. Configured /\ CredentialWasCurrent /\ req.wire \in Headers
    BY <1>1, <2>1, Matched
  <2>3. /\ IsHeaders(g) /\ IsContext(k) /\ SameMarks(ctx, k)
        /\ g.inv = None /\ g.cred = hdrs.cred
        /\ \/ /\ TypedArrived(hdrs) /\ hdrs.inv = req.wire.inv /\ req.wire.inv # None
              /\ HeaderIdentity(g) = Nobody /\ g.deleg = None
              /\ k.id = CarrierIdentity /\ k.id # None
              /\ k.typed = req.wire.inv /\ k.schema = req.wire.inv.app
              /\ k.active = None /\ k.pending = CarrierDelegation
           \/ ~TypedArrived(hdrs) /\ hdrs.inv = None /\ g = hdrs /\ k = ctx
    BY <1>1, <2>1, <2>2, Consumed
  <2>4. /\ IsHeaders(h) /\ h.deleg = None /\ h.inv = None
        /\ h.cred = hdrs.cred /\ HeaderIdentity(h) = HeaderIdentity(g)
    BY <2>3, StripDelegationFields
  <2>5. /\ IsContext(d) /\ SameMarks(k, d) /\ d.pending = None
        /\ d.active = IF ~k.surface THEN None
                      ELSE IF g.deleg = None THEN k.pending ELSE g.deleg
        /\ d.id = id /\ d.typed = k.typed /\ d.schema = k.schema
    <3> DEFINE a == [k EXCEPT !.id = id]
               b == WithPending(a, g.deleg)
    <3> HIDE DEF g, k, id
    <3>1. /\ IsContext(a) /\ SameMarks(k, a) /\ a.pending = k.pending
          /\ a.id = id /\ a.typed = k.typed /\ a.schema = k.schema
      BY <2>3, IdFields
    <3> HIDE DEF a
    <3>2. /\ IsContext(b) /\ SameMarks(a, b)
          /\ b.pending = IF g.deleg = None THEN a.pending ELSE g.deleg
          /\ b.id = a.id /\ b.typed = a.typed /\ b.schema = a.schema
      BY <3>1, WithPendingFields
    <3> HIDE DEF b
    <3> DEFINE e == ActivatePendingDelegation(b)
    <3>3. /\ IsContext(e) /\ SameMarks(b, e) /\ e.pending = None
          /\ e.active = IF b.surface THEN b.pending ELSE None
          /\ e.id = b.id /\ e.typed = b.typed /\ e.schema = b.schema
      BY <3>2, ActivateFields
    <3>4. e = d
      BY DEF e, b, a
    <3> HIDE DEF d, e
    <3>5. QED
      BY <3>1, <3>2, <3>3, <3>4 DEF SameMarks
  <2>6. d.id = CarrierIdentity /\ d.id.role # None
    <3>1. CASE TypedArrived(hdrs)
      BY <1>3, <2>3, <2>5, <3>1
    <3>2. CASE ~TypedArrived(hdrs)
      <4>1. id = HeaderIdentity(hdrs) /\ hdrs.user # None /\ hdrs.inv = None
        BY <1>3, <2>3, <3>2 DEF HeaderIdentity, Identity
      <4>2. req.wire.inv = None
        BY <1>1, <2>1, <2>2, <4>1
        DEF Carried, CarriesHeaders, HeaderIdentity, Nobody, Identity
      <4>3. QED
        BY <1>1, <1>3, <2>1, <2>5, <4>1, <4>2 DEF Carried, CarriesHeaders, CarrierIdentity
    <3>3. QED
      BY <3>1, <3>2
  <2>7. /\ req.wire.inv # None => /\ d.id # None /\ HeaderIdentity(h) = Nobody
                                  /\ d.typed = req.wire.inv /\ d.schema = req.wire.inv.app
        /\ req.wire.inv = None => /\ HeaderIdentity(h) = HeaderIdentity(req.wire)
                                  /\ d.typed = None /\ d.schema \in {None, req.wire.app}
    <3>1. CASE TypedArrived(hdrs)
      BY <2>3, <2>4, <2>5, <3>1
    <3>2. CASE ~TypedArrived(hdrs)
      <4>1. g = hdrs /\ k = ctx /\ hdrs.inv = None /\ hdrs.user # None
        BY <1>3, <2>3, <3>2 DEF HeaderIdentity, Identity
      <4>2. req.wire.inv = None
        BY <1>1, <2>1, <2>2, <4>1
        DEF Carried, CarriesHeaders, HeaderIdentity, Nobody, Identity
      <4>3. HeaderIdentity(h) = HeaderIdentity(req.wire)
        BY <1>1, <2>1, <2>4, <4>1, <4>2 DEF Carried, CarriesHeaders
      <4>4. d.typed = ctx.typed /\ d.schema = ctx.schema
        BY <2>5, <4>1
      <4>5. QED
        BY <1>1, <2>1, <2>2, <4>2, <4>3, <4>4 DEF Carried, CarriesIdentity
    <3>3. QED
      BY <3>1, <3>2
  <2>8. d.active # None => d.active = CarrierDelegation /\ d.surface
    <3>1. CASE TypedArrived(hdrs)
      BY <2>3, <2>5, <3>1 DEF SameMarks
    <3>2. CASE ~TypedArrived(hdrs)
      <4>1. g = hdrs /\ k = ctx /\ hdrs.inv = None
        BY <2>3, <3>2
      <4>2. hdrs.deleg # None => hdrs.deleg = CarrierDelegation
        BY <1>1, <2>1, <4>1 DEF Carried, CarriesHeaders, CarrierDelegation
      <4>3. ctx.pending # None => ctx.pending = CarrierDelegation
        BY <1>1 DEF Carried, CarriesDelegation
      <4>4. d.active # None => ctx.surface /\ d.active \in {ctx.pending, hdrs.deleg}
        BY <2>5, <4>1
      <4>5. d.surface = ctx.surface
        BY <2>5, <4>1 DEF SameMarks
      <4>6. QED
        BY <4>2, <4>3, <4>4, <4>5
    <3>3. QED
      BY <3>1, <3>2
  <2> HIDE DEF g, k, id, d, h
  <2>9. CarriesHeaders(h, d)
    BY <1>1, <2>1, <2>4, <2>7 DEF Carried, CarriesHeaders
  <2>10. CarriesIdentity(d)
    BY <1>1, <2>1, <2>2, <2>3, <2>5, <2>6, <2>7 DEF Carried, CarriesIdentity, SameMarks
  <2>11. CarriesDelegation(d)
    BY <1>1, <2>2, <2>3, <2>5, <2>6, <2>8 DEF Carried, CarriesDelegation, SameMarks
  <2>12. Carried(h, d) /\ Cleared(h, d) /\ Forward(h, d)
    BY <1>3, <2>4, <2>5, <2>9, <2>10, <2>11 DEF Carried, Cleared
  <2>13. QED
    BY <2>2, <2>12, ForwardStep
<1>4. QED
  BY <1>2, <1>3 DEF PlatformTakesForwarded

LEMMA PlatformStep == Authorities /\ PlatformAuth => Authorities'
<1> SUFFICES ASSUME Authorities, PlatformAuth PROVE Authorities'
  OBVIOUS
<1>1. At("platform")
  BY DEF PlatformAuth
<1>2. status = "routing" /\ Carried(hdrs, ctx)
  BY <1>1, Routing
<1>3. CASE PresetIdentity /\ PlatformTakesPreset
  BY <1>1, <1>3, PresetStep
<1>4. CASE ~Configured /\ Forward(StripInvocation(StripDelegation(hdrs)),
                                  [WithoutDelegation(ctx) EXCEPT !.id = SyntheticIdentity])
  <2> DEFINE b == WithoutDelegation(ctx)
             c == [b EXCEPT !.id = SyntheticIdentity]
             h == Stripped
  <2>1. Carried(h, b) /\ Cleared(h, b)
    BY <1>2, <1>4, PassBare
  <2>2. b.active = None
    BY <1>2, WithoutDelegationFields DEF Carried, CarriesIdentity
  <2> HIDE DEF b
  <2>3. /\ IsContext(c) /\ SameMarks(b, c) /\ c.active = None /\ c.pending = None
        /\ c.id = SyntheticIdentity /\ c.typed = b.typed /\ c.schema = b.schema
    BY <2>1, <2>2, IdFields DEF Carried, CarriesIdentity, Cleared
  <2> HIDE DEF c, h
  <2>4. CarriesHeaders(h, c) /\ CarriesIdentity(c) /\ CarriesDelegation(c)
    BY <1>4, <2>1, <2>3
    DEF Carried, CarriesHeaders, CarriesIdentity, CarriesDelegation, SameMarks
  <2>5. Carried(h, c) /\ Cleared(h, c)
    BY <2>1, <2>3, <2>4 DEF Carried, Cleared
  <2>6. Forward(h, c)
    BY <1>4 DEF h, c, b, Stripped
  <2>7. QED
    BY <1>1, <1>4, <2>5, <2>6, ForwardStep
<1>5. CASE (Configured \/ env.lambda) /\ PlatformEnforces
  <2>1. CASE Deny("503") \/ Deny("401") \/ Deny("400")
    BY <1>2, <2>1, DenyStep
  <2>2. CASE SecretMatches /\ Consumes(FALSE) /\ PlatformTakesForwarded
    BY <1>1, <1>5, <2>2, ForwardedStep
  <2>3. QED
    BY <1>5, <2>1, <2>2 DEF PlatformEnforces
<1>6. QED
  BY <1>3, <1>4, <1>5 DEF PlatformAuth

LEMMA InternalStep == Authorities /\ InternalAuth => Authorities'
<1> SUFFICES ASSUME Authorities, InternalAuth PROVE Authorities'
  OBVIOUS
<1>1. At("internal")
  BY DEF InternalAuth
<1>2. /\ status = "routing" /\ Carried(hdrs, ctx)
      /\ OverHTTP <=> ~ctx.payload
      /\ OverHTTP => req.wire \in Headers /\ ~env.lambda
  BY <1>1, Routing
<1>3. CASE (ctx.payload \/ ~Configured) /\ InternalForwards
  <2>1. Forward(Stripped, WithoutDelegation(ctx))
    BY <1>3 DEF InternalForwards, Stripped
  <2>2. QED
    BY <1>1, <1>2, <1>3, <2>1, PassBare, ForwardStep
<1>4. CASE Deny("503")
  BY <1>2, <1>4, DenyStep
<1>5. CASE ~ctx.payload /\ token # None /\ InternalEnforces
  <2>1. CASE Deny("401") \/ Deny("400")
    BY <1>2, <2>1, DenyStep
  <2>2. CASE SecretMatches /\ Consumes(ctx.bound)
             /\ Forward(StripDelegation(ConsumedHeaders),
                        PromoteForwarderIdentity(ConsumedHeaders,
                                                 WithoutDelegation(ConsumedContext)))
    <3> DEFINE g == ConsumedHeaders
               c == WithoutDelegation(ConsumedContext)
               d == PromoteForwarderIdentity(g, c)
               h == StripDelegation(g)
    <3>1. OverHTTP /\ CredentialWasCurrent /\ Configured /\ req.wire \in Headers
      BY <1>1, <1>2, <1>5, <2>2, Matched
    <3>2. IsContext(ConsumedContext)
      BY <1>2, <2>2, <3>1, Consumed
    <3>3. /\ IsContext(c) /\ SameMarks(ConsumedContext, c) /\ c.active = None /\ c.pending = None
          /\ c.id = ConsumedContext.id /\ c.typed = ConsumedContext.typed
          /\ c.schema = ConsumedContext.schema
      BY <3>2, WithoutDelegationFields
    <3> HIDE DEF c
    <3>4. Carried(h, d) /\ h.deleg = None /\ h.inv = None /\ d.pending = c.pending
      BY <1>2, <2>2, <3>1, <3>3, PassPromoted
    <3>5. Cleared(h, d) /\ Forward(h, d)
      BY <2>2, <3>3, <3>4 DEF Cleared, c
    <3>6. QED
      BY <1>1, <3>1, <3>4, <3>5, ForwardStep
  <2>3. QED
    BY <1>5, <2>1, <2>2 DEF InternalEnforces
<1>6. QED
  BY <1>3, <1>4, <1>5 DEF InternalAuth

LEMMA RolesStep == Authorities /\ RequireRoles => Authorities'
<1> SUFFICES ASSUME Authorities, RequireRoles PROVE Authorities'
  OBVIOUS
<1>1. At("roles")
  BY DEF RequireRoles
<1>2. status = "routing" /\ Carried(hdrs, ctx)
  BY <1>1, Routing
<1>3. CASE Deny("401") \/ Deny("403")
  BY <1>2, <1>3, DenyStep
<1>4. CASE Forward(hdrs, ctx)
  <2>1. "roles" \notin Gates /\ "roles" \notin Clearers
    BY DEF Gates, Clearers
  <2>2. QED
    BY <1>1, <1>2, <1>4, <2>1, ForwardStep
<1>5. QED
  BY <1>3, <1>4 DEF RequireRoles

-----------------------------------------------------------------------------
(* Arrivals, rotations and the ends of requests.                           *)

LEMMA ChainShape ==
    ASSUME NEW scope \in Scopes, NEW extra \in Seq(Middleware)
    PROVE  LET q == ScopeChain(scope) \o extra
           IN  /\ q \in Seq(Middleware \cup {"surface"})
               /\ \A i \in 1..Len(q) : q[i] = "surface" => scope = "platform"
               /\ scope # "bare" => \E i \in 1..Len(q) : q[i] \in Gates
               /\ scope = "platform" => \E i \in 1..Len(q) : q[i] = "platform"
<1> DEFINE s == ScopeChain(scope)
           q == s \o extra
<1>1. /\ s \in Seq(Middleware \cup {"surface"})
      /\ \A i \in 1..Len(s) : s[i] = "surface" => scope = "platform"
      /\ scope # "bare" => \E i \in 1..Len(s) : s[i] \in Gates
      /\ scope = "platform" => \E i \in 1..Len(s) : s[i] = "platform"
  <2>1. CASE scope = "platform"
    <3>1. s = <<"surface", "proxy", "platform">>
      BY <2>1 DEF ScopeChain
    <3> HIDE DEF s
    <3>2. s \in Seq(Middleware \cup {"surface"})
      BY <3>1 DEF Middleware
    <3>3. Len(s) = 3 /\ s[1] = "surface" /\ s[2] = "proxy" /\ s[3] = "platform"
      BY <3>1
    <3>4. QED
      BY <2>1, <3>2, <3>3 DEF Gates
  <2>2. CASE scope = "public"
    <3>1. s = <<"proxy">>
      BY <2>2 DEF ScopeChain
    <3> HIDE DEF s
    <3>2. s \in Seq(Middleware \cup {"surface"})
      BY <3>1 DEF Middleware
    <3>3. Len(s) = 1 /\ s[1] = "proxy"
      BY <3>1
    <3>4. QED
      BY <2>2, <3>2, <3>3 DEF Gates
  <2>3. CASE scope = "internal"
    <3>1. s = <<"internal">>
      BY <2>3 DEF ScopeChain
    <3> HIDE DEF s
    <3>2. s \in Seq(Middleware \cup {"surface"})
      BY <3>1 DEF Middleware
    <3>3. Len(s) = 1 /\ s[1] = "internal"
      BY <3>1
    <3>4. QED
      BY <2>3, <3>2, <3>3 DEF Gates
  <2>4. CASE scope = "bare"
    <3>1. s = <<>>
      BY <2>4 DEF ScopeChain
    <3> HIDE DEF s
    <3>2. s \in Seq(Middleware \cup {"surface"})
      BY <3>1 DEF Middleware
    <3>3. Len(s) = 0
      BY <3>1
    <3>4. QED
      BY <2>4, <3>2, <3>3 DEF Gates
  <2>5. QED
    BY <2>1, <2>2, <2>3, <2>4 DEF Scopes
<1> HIDE DEF s
<1>2. q \in Seq(Middleware \cup {"surface"}) /\ Len(q) = Len(s) + Len(extra)
  BY <1>1
<1>3. /\ \A i \in 1..Len(s) : i \in 1..Len(q) /\ q[i] = s[i]
      /\ \A i \in 1..Len(q) : i \notin 1..Len(s) => q[i] \in Middleware
  <2>1. Len(s) \in Nat /\ Len(extra) \in Nat
    BY <1>1
  <2>2. \A i \in 1..Len(q) : q[i] = IF i \leq Len(s) THEN s[i] ELSE extra[i - Len(s)]
    BY <1>1, <1>2
  <2>3. \A i \in 1..Len(q) : i \notin 1..Len(s) => i - Len(s) \in 1..Len(extra)
    BY <1>2, <2>1
  <2>4. QED
    BY <1>2, <2>1, <2>2, <2>3
<1>4. "surface" \notin Middleware
  BY DEF Middleware
<1>5. QED
  BY <1>1, <1>2, <1>3, <1>4 DEF s

LEMMA EnterStep ==
    ASSUME Authorities, NEW origin \in {"http", "lambda", "shim"}, NEW route \in Routes,
           NEW wire, NEW STATE h, NEW STATE c, Enter(origin, route, wire, h, c),
           origin = "http" => wire \in Headers /\ ~env.lambda,
           Carried(hdrs, ctx)'
    PROVE  Authorities'
<1>1. /\ status' = "routing" /\ req'.origin = origin /\ req'.scope = route.scope
      /\ req'.wire = wire
      /\ chain' = ScopeChain(route.scope) \o route.extra /\ live' = {token} \ {None}
      /\ UNCHANGED <<env, token>>
  BY DEF Enter
<1>2. route.scope \in Scopes /\ route.extra \in Seq(Middleware)
  BY RequestsAssumption
<1>3. Handled'
  BY <1>1 DEF Handled
<1>4. SecretKnown'
  BY <1>1 DEF Authorities, SecretKnown, Configured
<1>5. Arrived'
  BY <1>1, <1>2, <1>3, ChainShape DEF Arrived, Ahead, OverHTTP
<1>6. Admitting'
  BY <1>1, <1>2, ChainShape DEF Admitting, Ahead
<1>7. Clearing'
  BY <1>1, <1>2, ChainShape DEF Clearing, Ahead, Clearers, Gates
<1>8. Carries'
  BY DEF Carries
<1>9. Unattended'
  BY <1>1, <1>3 DEF Unattended
<1>10. QED
  BY <1>4, <1>5, <1>6, <1>7, <1>8, <1>9 DEF Authorities

LEMMA AnswerStep ==
    ASSUME Authorities, NEW origin, NEW route, NEW wire, NEW code,
           Answer(origin, route, wire, code), code \notin {"idle", "routing", "served"}
    PROVE  Authorities'
<1>1. ~Handled'
  BY DEF Answer, Handled
<1>2. UNCHANGED <<env, token>> /\ status' = code
  BY DEF Answer
<1>3. QED
  BY <1>1, <1>2 DEF Authorities, SecretKnown, Configured, Arrived, Admitting, Clearing, Carries,
     Unattended

LEMMA HTTPStep == Authorities /\ ArriveHTTP => Authorities'
<1> SUFFICES ASSUME Authorities, ArriveHTTP PROVE Authorities'
  OBVIOUS
<1>1. PICK h \in Headers, route \in Routes :
         \/ Enter("http", route, h, h,
                  IF env.dev THEN [EmptyContext EXCEPT !.schema = h.app] ELSE EmptyContext)
         \/ Answer("http", route, h, "500")
  BY DEF ArriveHTTP
<1>2. CASE Answer("http", route, h, "500")
  BY <1>2, AnswerStep
<1>3. CASE Enter("http", route, h, h,
                 IF env.dev THEN [EmptyContext EXCEPT !.schema = h.app] ELSE EmptyContext)
  <2> DEFINE c == IF env.dev THEN [EmptyContext EXCEPT !.schema = h.app] ELSE EmptyContext
  <2>1. /\ IsContext(c) /\ c.id = None /\ c.active = None /\ c.pending = None
        /\ c.typed = None /\ c.schema \in {None, h.app} /\ ~c.surface /\ ~c.proxied
        /\ c.payload = FALSE
    BY DEF EmptyContext, IsContext, ContextFields
  <2> HIDE DEF c
  <2>2. /\ hdrs' = h /\ ctx' = [c EXCEPT !.bound = route.scope # "bare"]
        /\ req'.origin = "http" /\ req'.wire = h /\ UNCHANGED env
    BY <1>3 DEF Enter, c
  <2>3. /\ IsContext(ctx') /\ ctx'.id = None /\ ctx'.active = None /\ ctx'.pending = None
        /\ ctx'.typed = None /\ ctx'.schema \in {None, h.app} /\ ~ctx'.surface
        /\ ~ctx'.proxied /\ ctx'.payload = FALSE
    BY <2>1, <2>2 DEF IsContext, ContextFields
  <2>4. IsHeaders(h)
    BY RequestsAssumption DEF AllHeaders
  <2>5. CarriesHeaders(hdrs, ctx)' /\ CarriesIdentity(ctx)' /\ CarriesDelegation(ctx)'
    BY <2>2, <2>3, <2>4 DEF CarriesHeaders, CarriesIdentity, CarriesDelegation, OverHTTP
  <2>6. Carried(hdrs, ctx)'
    BY <2>5 DEF Carried
  <2>7. ~env.lambda
    BY DEF ArriveHTTP
  <2>8. QED
    BY <1>3, <2>6, <2>7, EnterStep DEF c
<1>4. QED
  BY <1>1, <1>2, <1>3

(* Behind the Lambda handler only the payload has said who calls.          *)
LEMMA PayloadCarried ==
    ASSUME NEW c, IsContext(c), c.payload = TRUE, ~c.surface, ~c.proxied, c.active = None,
           hdrs' = OnlyCredentials(req'.wire.hdr), IsHeaders(req'.wire.hdr),
           ctx' = [c EXCEPT !.bound = ctx'.bound], ~OverHTTP',
           c.typed # None => c.schema = c.typed.app,
           c.id # None => c.id = CarrierIdentity',
           c.pending # None => c.pending = CarrierDelegation'
    PROVE  Carried(hdrs, ctx)'
<1>1. /\ IsHeaders(hdrs') /\ hdrs'.deleg = None /\ hdrs'.inv = None
      /\ HeaderIdentity(hdrs') = Nobody
  BY StripTypedFields DEF OnlyCredentials, Nobody
<1>2. /\ IsContext(ctx') /\ ctx'.id = c.id /\ ctx'.active = c.active
      /\ ctx'.pending = c.pending /\ ctx'.typed = c.typed /\ ctx'.schema = c.schema
      /\ ~ctx'.surface /\ ~ctx'.proxied /\ ctx'.payload = TRUE
  BY DEF IsContext, ContextFields
<1>3. CarriesHeaders(hdrs, ctx)'
  BY <1>1 DEF CarriesHeaders
<1>4. CarriesIdentity(ctx)'
  BY <1>2 DEF CarriesIdentity
<1>5. CarriesDelegation(ctx)'
  BY <1>2 DEF CarriesDelegation
<1>6. QED
  BY <1>3, <1>4, <1>5 DEF Carried

LEMMA EmptyFields ==
    /\ IsContext(EmptyContext) /\ EmptyContext.id = None /\ EmptyContext.active = None
    /\ EmptyContext.pending = None /\ EmptyContext.typed = None
    /\ ~EmptyContext.surface /\ ~EmptyContext.proxied
BY DEF EmptyContext, IsContext, ContextFields

LEMMA LambdaStep ==
    ASSUME Authorities, NEW origin \in {"lambda", "shim"}, NEW route \in Routes,
           NEW e \in Envelopes, NEW bound, LambdaHandler(origin, route, e, bound)
    PROVE  Authorities'
<1>1. CASE Answer(origin, route, e, "400")
  BY <1>1, AnswerStep
<1>2. ASSUME NEW STATE c, Enter(origin, route, e, OnlyCredentials(e.hdr), c), IsContext(c),
             c.payload = TRUE, ~c.surface, ~c.proxied, c.active = None,
             c.typed # None => c.schema = c.typed.app,
             c.id # None => c.id = IF e.inv # None THEN InvocationIdentity(e.inv)
                                   ELSE Identity(e.top.user, e.top.app, e.top.role),
             c.pending # None => c.pending = IF e.inv # None THEN e.inv.deleg ELSE e.top.deleg
      PROVE  Authorities'
  <2>1. /\ req'.origin = origin /\ req'.wire = e /\ hdrs' = OnlyCredentials(e.hdr)
        /\ ctx' = [c EXCEPT !.bound = route.scope # "bare"]
    BY <1>2 DEF Enter
  <2>2. ~OverHTTP'
    BY <2>1 DEF OverHTTP
  <2>3. IsHeaders(e.hdr)
    BY RequestsAssumption DEF AllHeaders
  <2>4. ctx'.bound = (route.scope # "bare")
    BY <1>2, <2>1 DEF IsContext, ContextFields
  <2>5. /\ c.id # None => c.id = CarrierIdentity'
        /\ c.pending # None => c.pending = CarrierDelegation'
    BY <1>2, <2>1, <2>2 DEF CarrierIdentity, CarrierDelegation
  <2>6. Carried(hdrs, ctx)'
    BY <1>2, <2>1, <2>2, <2>3, <2>4, <2>5, PayloadCarried
  <2>7. QED
    BY <1>2, <2>6, EnterStep
<1>3. CASE e.inv # None /\ Enter(origin, route, e, OnlyCredentials(e.hdr), InjectTyped(e.inv))
  <2> DEFINE v == e.inv
  <2> HIDE DEF v
  <2> DEFINE a == ApplyInvocation(v, EmptyContext)
             c == InjectTyped(v)
  <2>1. /\ IsContext(a) /\ SameMarks(EmptyContext, a) /\ a.active = None
        /\ a.pending = v.deleg
        /\ a.id = InvocationIdentity(v) /\ a.typed = v /\ a.schema = v.app
    <3>0. IsContext(EmptyContext)
      BY EmptyFields
    <3>1. LET d == ApplyInvocation(v, EmptyContext)
          IN  /\ IsContext(d) /\ SameMarks(EmptyContext, d) /\ d.active = None
              /\ d.pending = v.deleg
              /\ d.id = InvocationIdentity(v) /\ d.typed = v /\ d.schema = v.app
      BY <3>0, ApplyFields
    <3>2. QED
      BY <3>1
  <2>2. c = [a EXCEPT !.payload = TRUE]
    BY DEF InjectTyped
  <2> HIDE DEF a, c
  <2>3. /\ IsContext(c) /\ c.payload = TRUE /\ ~c.surface /\ ~c.proxied /\ c.active = None
        /\ c.pending = v.deleg
        /\ c.id = InvocationIdentity(v) /\ c.typed = v /\ c.schema = v.app
    BY <2>1, <2>2, EmptyFields DEF IsContext, ContextFields, SameMarks
  <2>4. v = e.inv /\ e.inv # None
    BY <1>3 DEF v
  <2>5. Enter(origin, route, e, OnlyCredentials(e.hdr), c)
    BY <1>3 DEF c, v
  <2>6. QED
    BY <1>2, <2>3, <2>4, <2>5
<1>4. CASE e.inv = None /\ Enter(origin, route, e, OnlyCredentials(e.hdr), InjectLegacy(e.top))
  <2> DEFINE id == Identity(e.top.user, e.top.app, e.top.role)
             i == IF id = Identity(None, None, None) THEN None ELSE id
             a == [EmptyContext EXCEPT !.schema = e.top.schema, !.payload = TRUE, !.id = i]
             c == InjectLegacy(e.top)
  <2>1. /\ IsContext(a) /\ a.payload = TRUE /\ ~a.surface /\ ~a.proxied /\ a.active = None
        /\ a.pending = None /\ a.typed = None /\ a.id = i
    <3> HIDE DEF i
    <3>1. QED
      BY DEF EmptyContext, IsContext, ContextFields
  <2>2. c = WithPending(a, e.top.deleg)
    BY DEF InjectLegacy
  <2> HIDE DEF a, c
  <2>3. /\ IsContext(c) /\ c.payload = TRUE /\ ~c.surface /\ ~c.proxied /\ c.active = None
        /\ c.pending \in {None, e.top.deleg} /\ c.typed = None /\ c.id = i
    BY <2>1, <2>2, WithPendingFields DEF SameMarks
  <2>4. QED
    BY <1>2, <1>4, <2>3 DEF c
<1>5. QED
  BY <1>1, <1>3, <1>4 DEF LambdaHandler

LEMMA ArriveStep == Authorities /\ Arrive => Authorities'
<1> SUFFICES ASSUME Authorities, Arrive PROVE Authorities'
  OBVIOUS
<1>1. CASE ArriveHTTP
  BY <1>1, HTTPStep
<1>2. CASE ArriveLambda
  BY <1>2, LambdaStep DEF ArriveLambda
<1>3. CASE ArriveShim
  <2>1. PICK e \in Envelopes, route \in Routes :
           \/ Answer("shim", route, e, "400")
           \/ Answer("shim", route, e, "401")
           \/ Answer("shim", route, e, "503")
           \/ LambdaHandler("shim", route, e, FALSE)
    BY <1>3 DEF ArriveShim
  <2>2. QED
    BY <2>1, AnswerStep, LambdaStep
<1>4. QED
  BY <1>1, <1>2, <1>3 DEF Arrive

LEMMA RotateStep == Authorities /\ RotateToken => Authorities'
<1> SUFFICES ASSUME Authorities, RotateToken PROVE Authorities'
  OBVIOUS
<1> USE DEF Authorities
<1>1. /\ env.source = "file" /\ live' = live \cup ({token'} \ {None})
      /\ UNCHANGED <<env, req, hdrs, ctx, chain, status>>
  BY DEF RotateToken
<1>2. SecretKnown' /\ Arrived' /\ Unattended'
  BY <1>1 DEF SecretKnown, Configured, Arrived, Handled, Ahead, OverHTTP, Unattended, Cleared
<1>3. Admitting'
  BY <1>1 DEF Admitting, Handled, Ahead, OverHTTP, Configured, CredentialWasCurrent, SecretHeader
<1>4. Clearing'
  BY <1>1 DEF Clearing, Handled, Ahead, Cleared, Clearers
<1>5. Carries'
  BY <1>1, CarriedStays DEF Carries, Handled, Carried
<1>6. QED
  BY <1>2, <1>3, <1>4, <1>5

LEMMA FinishStep == Authorities /\ Finish => Authorities'
BY DEF Authorities, Finish, SecretKnown, Configured, Arrived, Admitting, Clearing, Carries, Handled,
   Unattended

LEMMA TaskStep == Authorities /\ StartTask => Authorities'
<1> SUFFICES ASSUME Authorities, StartTask PROVE Authorities'
  OBVIOUS
<1>1. /\ status = "idle" /\ status' = "served" /\ req'.origin = "task"
      /\ UNCHANGED <<env, token, hdrs, chain, live>>
      /\ ctx' = [EmptyContext EXCEPT !.id = Identity(None, "app", None),
                                     !.schema = "app", !.payload = TRUE]
  BY DEF StartTask
<1>2. ~Handled'
  BY <1>1 DEF Handled
<1>3. hdrs = NoHeaders /\ chain = <<>>
  BY <1>1 DEF Authorities, Unattended
<1>4. ctx'.pending = None /\ ctx'.active = None
  BY <1>1 DEF EmptyContext
<1>5. Unattended'
  BY <1>1, <1>2, <1>3, <1>4 DEF Unattended, Cleared, NoHeaders
<1>6. QED
  BY <1>1, <1>2, <1>3, <1>5
  DEF Authorities, SecretKnown, Configured, Arrived, Admitting, Clearing, Carries

LEMMA StillStep == Authorities /\ UNCHANGED inVars => Authorities'
BY DEF inVars, Authorities, SecretKnown, Configured, Arrived, Admitting, Clearing, Carries, Handled,
   Unattended, Ahead, OverHTTP, CredentialWasCurrent, SecretHeader, Clearers, Cleared, Carried,
   CarriesHeaders, CarriesIdentity, CarriesDelegation, CarrierIdentity, CarrierDelegation

LEMMA AuthoritiesStep == Authorities /\ [Next]_vars => Authorities'
<1> SUFFICES ASSUME Authorities, [Next]_vars PROVE Authorities'
  OBVIOUS
<1>1. CASE Inbound
  BY <1>1, ArriveStep, SurfaceStep, ProxyStep, PlatformStep, InternalStep, RolesStep, ServeStep,
     RotateStep
  DEF Inbound, Route
<1>2. CASE Reset
  BY <1>2, FinishStep DEF Reset
<1>3. CASE StartTask
  BY <1>3, TaskStep
<1>4. CASE Outbound /\ ~StartTask
  <2>1. UNCHANGED inVars
    BY <1>4 DEF Outbound, CapabilityChanges, Call, CallDependency, Publish, Mint, Start, Routed,
       NotRouted, Published, Granted, Return, FallBack, DirectAnswer, End
  <2>2. QED
    BY <2>1, StillStep
<1>5. CASE UNCHANGED vars
  BY <1>5, StillStep DEF vars
<1>6. QED
  BY <1>1, <1>2, <1>3, <1>4, <1>5 DEF Next, Outbound

LEMMA AuthoritiesInit == Init => Authorities
BY DEF Init, InboundInit, Authorities, SecretKnown, Configured, Arrived, Admitting, Clearing, Carries,
   Handled, Unattended

-----------------------------------------------------------------------------
(* What goes out.                                                          *)

(* Nothing has been sent: an arrival, a middleware or the end of a request. *)
LEMMA QuietStep ==
    ASSUME Sending, out = <<>>, UNCHANGED <<call, out, runs>>
    PROVE  Sending'
<1>1. out' = <<>> /\ out' \in Seq(Posts')
  OBVIOUS
<1>2. Len(out') = 0
  BY <1>1
<1>3. QED
  BY <1>1, <1>2 DEF Sending

(* An operation that goes on without another request.                      *)
LEMMA GoOn ==
    ASSUME Sending, UNCHANGED <<inVars, out>>, out # <<>>, status = "served", IsCall(call'),
           call'.path = call.path, runs' \in 0..1,
           \/ call'.stage \in {"sent", "direct"} \/ (call'.stage = "answered" /\ RouteMiss')
              => runs' = 0
    PROVE  Sending'
<1>1. Posts' = Posts /\ status' = status
  BY DEF Posts, inVars
<1>2. QED
  BY <1>1 DEF Sending

LEMMA PostStep ==
    ASSUME Sending, NEW op, NEW path, NEW ttl, status = "served", out = <<>>,
           call' \in NewCalls(op, path, ttl),
           out' = <<Request("dispatch", path, ServiceSecret)>>, UNCHANGED <<inVars, runs>>
    PROVE  Sending'
<1>1. Posts' = Posts /\ status' = "served"
  BY DEF Posts, inVars
<1>2. Request("dispatch", path, ServiceSecret) \in Posts
  BY DEF Request, Posts, Delegation, ServiceSecret
<1>3. IsCall(call') /\ call'.path = path /\ call'.stage = "sent"
  BY DEF NewCalls, IsCall
<1>4. out' \in Seq(Posts) /\ out' # <<>> /\ Len(out') = 1
      /\ out'[1] = Request("dispatch", path, ServiceSecret)
  BY <1>2
<1>5. \A i \in 1..Len(out') : out'[i].deleg # None => call'.path = "platform"
  BY <1>3, <1>4 DEF Request, Delegation
<1>6. runs' = 0
  BY DEF Sending
<1>7. QED
  BY <1>1, <1>3, <1>4, <1>5, <1>6 DEF Sending

LEMMA SendingStep == CallsInv /\ [Next]_vars => Sending'
<1> SUFFICES ASSUME CallsInv, [Next]_vars PROVE Sending'
  OBVIOUS
<1>0. Sending
  BY DEF CallsInv
<1>1. CASE Inbound
  <2>1. UNCHANGED <<call, out, runs>>
    BY <1>1 DEF Inbound, outVars
  <2>2. CASE RotateToken
    <3>1. UNCHANGED <<ctx, status>>
      BY <2>2 DEF RotateToken
    <3>2. Posts' = Posts
      BY <3>1 DEF Posts
    <3>3. QED
      BY <1>0, <2>1, <3>1, <3>2 DEF Sending, RouteMiss
  <2>3. CASE Arrive \/ Route
    <3>1. status # "served"
      BY <2>3 DEF Arrive, Route, ArriveHTTP, ArriveLambda, ArriveShim, PlatformActorSurface,
         RequireProxy, PlatformAuth, InternalAuth, RequireRoles, At, Serve
    <3>2. QED
      BY <1>0, <2>1, <3>1, QuietStep DEF Sending
  <2>4. QED
    BY <1>1, <2>2, <2>3 DEF Inbound
<1>2. CASE Reset
  <2>1. call' = None /\ out' = <<>> /\ runs' = 0 /\ out' \in Seq(Posts')
    BY <1>2 DEF Reset
  <2>2. Len(out') = 0
    BY <2>1
  <2>3. QED
    BY <2>1, <2>2 DEF Sending
<1>3. CASE StartTask
  <2>1. status = "idle" /\ UNCHANGED <<call, out, runs>>
    BY <1>3 DEF StartTask
  <2>2. QED
    BY <1>0, <2>1, QuietStep DEF Sending
<1>4. CASE CapabilityChanges
  <2>1. UNCHANGED <<inVars, call, out, runs>>
    BY <1>4 DEF CapabilityChanges
  <2>2. Posts' = Posts /\ status' = status
    BY <2>1 DEF Posts, inVars
  <2>3. QED
    BY <1>0, <2>1, <2>2 DEF Sending, RouteMiss
<1>5. CASE Call \/ CallDependency \/ Publish \/ Mint
  <2>1. /\ status = "served" /\ out = <<>> /\ UNCHANGED <<inVars, runs>>
        /\ \E op, path, ttl : /\ call' \in NewCalls(op, path, ttl)
                              /\ out' = <<Request("dispatch", path, ServiceSecret)>>
    BY <1>5 DEF Call, CallDependency, Publish, Mint, Idle, Start
  <2>2. QED
    BY <1>0, <2>1, PostStep
<1>6. ASSUME status = "served", out # <<>>, Routed \/ NotRouted \/ Published \/ Granted \/ Return
      PROVE  Sending'
  <2>1. IsCall(call) /\ runs \in 0..1
    BY <1>0, <1>6 DEF Sending
  <2>2. CASE Routed
    <3>1. PICK answer \in {"ok", "error", "lost", "misstext"} :
             call' = [call EXCEPT !.stage = "answered", !.answer = answer,
                                  !.marked = answer # "lost"]
      BY <2>2 DEF Routed
    <3>2. /\ IsCall(call') /\ call'.path = call.path /\ call'.stage = "answered"
          /\ call'.answer = answer /\ call'.marked = (answer # "lost")
      BY <2>1, <3>1 DEF IsCall
    <3>3. ~RouteMiss'
      BY <3>2 DEF RouteMiss
    <3>4. runs = 0 /\ runs' = runs + 1 /\ UNCHANGED <<inVars, out>>
      BY <1>0, <1>6, <2>2 DEF Routed, Sent, Sending
    <3>5. QED
      BY <1>0, <1>6, <3>2, <3>3, <3>4, GoOn
  <2>3. CASE NotRouted
    <3>1. PICK answer : call' = [call EXCEPT !.stage = "answered", !.answer = answer]
      BY <2>3 DEF NotRouted
    <3>2. IsCall(call') /\ call'.path = call.path
      BY <2>1, <3>1 DEF IsCall
    <3>3. runs = 0 /\ UNCHANGED <<inVars, out, runs>>
      BY <1>0, <1>6, <2>3 DEF NotRouted, Sent, Sending
    <3>4. QED
      BY <1>0, <1>6, <3>2, <3>3, GoOn
  <2>4. CASE Published \/ Granted \/ Return
    <3>1. \E stage \in {"ok", "error"} : call' = [call EXCEPT !.stage = stage]
      BY <2>4 DEF Published, Granted, Return, End
    <3>2. IsCall(call') /\ call'.path = call.path /\ call'.stage \in {"ok", "error"}
      BY <2>1, <3>1 DEF IsCall
    <3>3. UNCHANGED <<inVars, out, runs>>
      BY <2>4 DEF Published, Granted, Return, End
    <3>4. QED
      BY <1>0, <1>6, <2>1, <3>2, <3>3, GoOn
  <2>5. QED
    BY <1>6, <2>2, <2>3, <2>4
<1>7. ASSUME status = "served", out # <<>>, FallBack PROVE Sending'
  <2>1. /\ call.stage = "answered" /\ RouteMiss /\ IsCall(call) /\ runs = 0
    BY <1>0, <1>7 DEF FallBack, Answered, MayFallBack, Sending
  <2>2. CASE End("error")
    <3>1. IsCall(call') /\ call'.path = call.path /\ call'.stage = "error"
      BY <2>1, <2>2 DEF End, IsCall
    <3>2. QED
      BY <1>0, <1>7, <2>1, <2>2, <3>1, GoOn DEF End
  <2>3. CASE /\ call' = [call EXCEPT !.stage = "direct"]
             /\ out' = Append(out, Request("direct", call.path, "producer"))
             /\ UNCHANGED <<inVars, cap, runs, minted>>
    <3>1. IsCall(call') /\ call'.path = call.path /\ call'.stage = "direct"
      BY <2>1, <2>3 DEF IsCall
    <3>2. Posts' = Posts /\ status' = "served"
      BY <1>7, <2>3 DEF Posts, inVars
    <3>3. Request("direct", call.path, "producer") \in Posts
      BY DEF Request, Posts, Delegation
    <3>4. out \in Seq(Posts)
      BY <1>0 DEF Sending
    <3>5. /\ out' \in Seq(Posts) /\ out' # <<>> /\ Len(out') = Len(out) + 1
          /\ \A i \in 1..Len(out) : out'[i] = out[i]
          /\ out'[Len(out) + 1] = Request("direct", call.path, "producer")
      BY <2>3, <3>3, <3>4
    <3>6. \A i \in 1..Len(out') : out'[i].deleg # None => call'.path = "platform"
      <4>1. TAKE i \in 1..Len(out')
      <4>2. CASE i \in 1..Len(out)
        BY <1>0, <3>1, <3>5, <4>2 DEF Sending
      <4>3. CASE i \notin 1..Len(out)
        <5>1. i = Len(out) + 1
          BY <3>4, <3>5, <4>3
        <5>2. QED
          BY <3>1, <3>5, <5>1 DEF Request, Delegation
      <4>4. QED
        BY <4>2, <4>3
    <3>7. QED
      BY <2>1, <2>3, <3>1, <3>2, <3>5, <3>6 DEF Sending
  <2>4. QED
    BY <1>7, <2>2, <2>3 DEF FallBack
<1>8. ASSUME status = "served", out # <<>>, DirectAnswer PROVE Sending'
  <2>1. IsCall(call) /\ runs = 0
    BY <1>0, <1>8 DEF DirectAnswer, Sending
  <2>2. /\ call' = [call EXCEPT !.stage = IF runs' > runs THEN "ok" ELSE "error"]
        /\ runs' \in {runs, runs + 1} /\ UNCHANGED <<inVars, out>>
    BY <1>8 DEF DirectAnswer
  <2>3. IsCall(call') /\ call'.path = call.path /\ call'.stage \in {"ok", "error"}
    BY <2>1, <2>2 DEF IsCall
  <2>4. QED
    BY <1>0, <1>8, <2>1, <2>2, <2>3, GoOn
<1>9. CASE UNCHANGED vars
  <2>1. Posts' = Posts /\ UNCHANGED <<status, call, out, runs>>
    BY <1>9 DEF Posts, vars, inVars, outVars
  <2>2. QED
    BY <1>0, <2>1 DEF Sending, RouteMiss
<1>10. call # None => status = "served" /\ out # <<>>
  BY <1>0 DEF Sending
<1>11. CASE Routed \/ NotRouted \/ Published \/ Granted \/ Return \/ FallBack \/ DirectAnswer
  <2>1. call # None
    BY <1>11 DEF Routed, NotRouted, Published, Granted, Return, FallBack, DirectAnswer, Sent,
       Answered
  <2>2. QED
    BY <1>6, <1>7, <1>8, <1>10, <1>11, <2>1
<1>12. QED
  BY <1>1, <1>2, <1>3, <1>4, <1>5, <1>9, <1>11 DEF Next, Outbound

LEMMA SendingInit == Init => Sending
<1>1. <<>> \in Seq(Posts) /\ Len(<<>>) = 0
  OBVIOUS
<1>2. QED
  BY <1>1 DEF Init, InboundInit, Sending

-----------------------------------------------------------------------------
(* The invariant holds, for any requests, routes, secrets and interleaving *)
(* of the token file's rotations with the middleware.                      *)
THEOREM AuthorityInvariant == Spec => []CallsInv
<1>1. Init => CallsInv
  BY AuthoritiesInit, SendingInit DEF CallsInv
<1>2. CallsInv /\ [Next]_vars => CallsInv'
  BY AuthoritiesStep, SendingStep DEF CallsInv
<1>3. QED
  BY <1>1, <1>2, PTL DEF Spec

(* RequireProxy and InternalAuth fail closed whatever happens to the token *)
(* file between the middlewares (auth/middleware.go).                      *)
THEOREM FailsClosed == Spec => []AdmittedByLiveSecret
<1>1. CallsInv => AdmittedByLiveSecret
  <2> SUFFICES ASSUME CallsInv, Served, OverHTTP, Configured, req.scope # "bare"
               PROVE  CredentialWasCurrent
    BY DEF AdmittedByLiveSecret, CredentialWasCurrent
  <2>1. Handled /\ chain = <<>>
    BY DEF CallsInv, Authorities, Arrived, Handled, Served, OverHTTP
  <2>2. ~Ahead(Gates)
    BY <2>1 DEF Ahead
  <2>3. QED
    BY <2>1, <2>2 DEF CallsInv, Authorities, Admitting
<1>2. QED
  BY <1>1, AuthorityInvariant, PTL

(* A handler sees the identity one carrier names, as a whole.              *)
THEOREM IdentityIsWhole == Spec => []IdentityIsTheCarriers
<1>1. CallsInv => IdentityIsTheCarriers
  <2> SUFFICES ASSUME CallsInv, Served, ctx.id # None, req.origin # "task"
               PROVE  /\ (ctx.id = SyntheticIdentity /\ ~Configured) \/ ctx.id = CarrierIdentity
                      /\ ctx.typed # None => ctx.schema = ctx.typed.app
                      /\ OverHTTP /\ Configured /\ ctx.schema # None => ctx.schema = ctx.id.app
    BY DEF IdentityIsTheCarriers
  <2>1. CarriesIdentity(ctx)
    BY DEF CallsInv, Authorities, Carries, Carried, Handled, Served
  <2>2. (ctx.id = SyntheticIdentity /\ ~Configured) \/ ctx.id = CarrierIdentity
    BY <2>1 DEF CarriesIdentity
  <2>3. OverHTTP /\ Configured /\ ctx.schema # None => ctx.schema = ctx.id.app
    <3> SUFFICES ASSUME OverHTTP, Configured, ctx.schema # None PROVE ctx.schema = ctx.id.app
      OBVIOUS
    <3>1. ctx.id = CarrierIdentity
      BY <2>1 DEF CarriesIdentity
    <3>2. CASE req.wire.inv # None
      BY <2>1, <3>1, <3>2
      DEF CarriesIdentity, CarrierIdentity, InvocationIdentity, Identity
    <3>3. CASE req.wire.inv = None
      BY <2>1, <3>1, <3>3 DEF CarriesIdentity, CarrierIdentity, HeaderIdentity, Identity
    <3>4. QED
      BY <3>2, <3>3
  <2>4. QED
    BY <2>1, <2>2, <2>3 DEF CarriesIdentity
<1>2. QED
  BY <1>1, AuthorityInvariant, PTL

(* A delegation speaks for an authenticated handler of the platform scope, *)
(* toward platform paths, and nothing of it is left for anyone else        *)
(* (internal/actor, auth/middleware.go, internal/core/call.go).            *)
THEOREM DelegationStays == Spec => []DelegationConfined
<1>1. CallsInv => DelegationConfined
  <2> SUFFICES ASSUME CallsInv, Served PROVE DelegationConfined
    BY DEF DelegationConfined
  <2>1. chain = <<>> /\ status = "served"
    BY DEF CallsInv, Authorities, Arrived, Served
  <2>2. req.scope # "bare" => Cleared(hdrs, ctx)
    <3>1. ~Ahead(Clearers)
      BY <2>1 DEF Ahead
    <3>2. QED
      BY <2>1, <3>1 DEF CallsInv, Authorities, Clearing, Unattended
  <2>3. ctx.active # None => /\ req.scope = "platform" /\ ctx.id.role # None
                             /\ ctx.active = CarrierDelegation /\ ctx.id = CarrierIdentity
                             /\ OverHTTP => CredentialWasCurrent
    <3> SUFFICES ASSUME ctx.active # None PROVE CarriesDelegation(ctx)
      BY DEF CarriesDelegation
    <3>1. Handled
      BY <2>1 DEF CallsInv, Authorities, Unattended
    <3>2. QED
      BY <3>1 DEF CallsInv, Authorities, Carries, Carried
  <2>4. \A i \in 1..Len(out) : out[i].deleg # None =>
           call.path = "platform" /\ out[i].deleg = CarrierDelegation
    <3>1. TAKE i \in 1..Len(out)
    <3>2. out[i] \in Posts /\ (out[i].deleg # None => call.path = "platform")
      BY DEF CallsInv, Sending
    <3>3. out[i].deleg \in {None, ctx.active}
      BY <3>2 DEF Posts
    <3>4. QED
      BY <2>3, <3>2, <3>3
  <2>5. QED
    BY <2>2, <2>3, <2>4 DEF DelegationConfined, Cleared, CredentialWasCurrent
<1>2. QED
  BY <1>1, AuthorityInvariant, PTL

(* CallDependency's development fallback repeats nothing that was executed *)
(* (internal/core/call.go).                                                *)
THEOREM RunsOnce == Spec => []ProducerRunsOnce
<1>1. CallsInv => ProducerRunsOnce
  BY DEF CallsInv, Sending, ProducerRunsOnce
<1>2. QED
  BY <1>1, AuthorityInvariant, PTL

=============================================================================
