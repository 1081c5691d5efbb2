----------------------------- MODULE Authority -----------------------------
(***************************************************************************)
(* How one request gains authority in a module: the transports that bring *)
(* it in (HTTP, the Lambda runtime, the development shim in front of the   *)
(* Lambda handler), the middleware chain of the scope it is routed to      *)
(* (auth/middleware.go), and what the handler behind the chain then sees.  *)
(*                                                                         *)
(* A request is followed from its arrival to the handler one middleware at *)
(* a time, because the platform secret is read again by each of them and   *)
(* the token file may be rotated, emptied or removed between two reads.    *)
(*                                                                         *)
(* Header values, identities and typed invocation contexts are drawn from  *)
(* small sets.  Malformed stands for a value that fails the checks on its  *)
(* own shape: a repeated header, an unsafe delegation, a typed context     *)
(* that is not canonical or fails invocationwire.Validate.                 *)
(***************************************************************************)
EXTENDS Naturals, Sequences

CONSTANTS Tokens,       \* values the platform secret can take
          Headers,      \* header maps an HTTP caller may send
          Envelopes,    \* Lambda envelopes
          Routes,       \* [scope, extra]: a scope and the route's middleware
          ShimSecrets,  \* values of MS_LAMBDA_INTERNAL_SECRET, None if unset
          ValidRoles,   \* runtime.validRoles
          RouteRoles,   \* the roles RequirePermission admits
          SyntheticRole,\* auth.RoleAdmin
          None, Malformed

VARIABLES
    env,       \* what the process captured at start: mode, secret source, ...
    token,     \* the secret the source holds now, None if unusable
    req,       \* the request as it arrived, None between requests
    hdrs,      \* the request's headers as the next middleware sees them
    ctx,       \* the request's context.Context
    chain,     \* the middleware still to run
    status,    \* "idle", "routing", "served" or a status code
    live       \* the secrets the source has held since the request arrived

inVars == <<env, token, req, hdrs, ctx, chain, status, live>>

-----------------------------------------------------------------------------
(* Identities, contexts and headers.                                       *)

Identity(user, app, role) == [user |-> user, app |-> app, role |-> role]

SyntheticIdentity == Identity("local-dev-user", "local-dev-app", SyntheticRole)

EmptyContext ==
    [id |-> None, active |-> None, pending |-> None, typed |-> None,
     schema |-> None, surface |-> FALSE, proxied |-> FALSE,
     payload |-> FALSE, bound |-> FALSE]

HeaderIdentity(h) == Identity(h.user, h.app, h.role)

StripDelegation(h) == [h EXCEPT !.deleg = None]

StripInvocation(h) == [h EXCEPT !.inv = None]

StripTyped(h) == [h EXCEPT !.inv = None, !.user = None, !.app = None,
                           !.role = None, !.deleg = None]

OnlyCredentials(h) == StripTyped(h)

(* internal/actor: the delegation a request may speak with, and the one    *)
(* that waits for the platform surface.                                    *)

WithoutDelegation(c) == [c EXCEPT !.active = None, !.pending = None]

WithPending(c, d) == IF d = None THEN c ELSE [c EXCEPT !.pending = d]

ActivateAnywhere(c) == [c EXCEPT !.active = c.pending, !.pending = None]

ActivatePendingDelegation(c) ==
    IF c.surface
    THEN [c EXCEPT !.active = c.pending, !.pending = None]
    ELSE WithoutDelegation(c)

-----------------------------------------------------------------------------
(* The platform secret.  A configured file that cannot be read, or is      *)
(* blank, is configured with nothing to compare against.                   *)

Configured == env.source # "none"

SecretHeader == IF env.source \in {"file", "platform"} THEN "platform" ELSE "internal"

Presented == hdrs.cred[SecretHeader]

SecretMatches == token # None /\ Presented = token

-----------------------------------------------------------------------------
(* The typed invocation context (invocationwire, auth/invocation.go).      *)

ValidIdentity(v) ==
    IF v.user = None
    THEN v.kind = None /\ v.role = None /\ v.deleg = None
    ELSE /\ v.kind \in {"member", "platform"}
         /\ v.kind = "member" => v.role = None /\ v.deleg = None
         /\ v.kind = "platform" => v.role # None
         /\ v.deleg # None => v.role # None

WellFormed(v) == v # Malformed

Parses(v) == WellFormed(v) /\ ValidIdentity(v)

LegacyAgrees(v, h) ==
    \A n \in {"user", "app", "role", "deleg"} : h[n] \in {None, v[n]}

InvocationHolds(v, h, bound) ==
    /\ Parses(v)
    /\ v.binds
    /\ bound => v.module = "self"
    /\ v.deleg # Malformed
    /\ LegacyAgrees(v, h)

InvocationIdentity(v) == Identity(v.user, v.app, v.role)

-----------------------------------------------------------------------------
(* What may arrive.  A caller writes what it likes into the fields, but    *)
(* there is one value of each header, and an identity is never absent once *)
(* it has been parsed.  Routes nest exported middleware; the surface       *)
(* marker is Module.Platform's own.                                        *)

HeaderNames == {"cred", "user", "app", "role", "deleg", "inv"}

IsHeaders(h) == h = [n \in HeaderNames |-> h[n]]

AllHeaders == Headers \cup {e.hdr : e \in Envelopes}

Invocations == ({h.inv : h \in Headers} \cup {e.inv : e \in Envelopes}) \ {None, Malformed}

Scopes == {"platform", "public", "internal", "bare"}

Middleware == {"proxy", "platform", "internal", "roles"}

ASSUME RequestsAssumption ==
    /\ \A h \in AllHeaders : IsHeaders(h)
    /\ \A v \in Invocations : InvocationIdentity(v) # None
    /\ Routes \subseteq [scope : Scopes, extra : Seq(Middleware)]

ApplyInvocationOnly(v, c) ==
    WithPending([WithoutDelegation(c) EXCEPT !.typed = v,
                                             !.id = InvocationIdentity(v)], v.deleg)

ApplyInvocation(v, c) ==
    WithPending([WithoutDelegation(c) EXCEPT !.typed = v, !.schema = v.app,
                                             !.id = InvocationIdentity(v)], v.deleg)

TypedArrived(h) == h.inv # None

PromoteForwarderIdentity(h, c) ==
    IF c.id # None \/ HeaderIdentity(h) = Identity(None, None, None)
    THEN c
    ELSE [c EXCEPT !.id = HeaderIdentity(h)]

-----------------------------------------------------------------------------
(* One step of the chain: the next handler is called with a request, or    *)
(* the response is written.                                                *)

At(middleware) ==
    /\ status = "routing"
    /\ chain # <<>>
    /\ Head(chain) = middleware

Forward(h, c) ==
    /\ hdrs' = h
    /\ ctx' = c
    /\ chain' = Tail(chain)
    /\ UNCHANGED <<env, token, req, status, live>>

Deny(code) ==
    /\ status' = code
    /\ UNCHANGED <<env, token, req, hdrs, ctx, chain, live>>

(* consumeTrustedInvocation once the secret has been validated: a typed    *)
(* context, if there is one, replaces everything an earlier layer put in   *)
(* the request.                                                            *)
Consumes(bound) == TypedArrived(hdrs) => InvocationHolds(hdrs.inv, hdrs, bound)

ConsumedHeaders == IF TypedArrived(hdrs) THEN StripTyped(hdrs) ELSE hdrs

ConsumedContext == IF TypedArrived(hdrs) THEN ApplyInvocation(hdrs.inv, ctx) ELSE ctx

-----------------------------------------------------------------------------
(* Module.Platform's surface marker.                                       *)
PlatformActorSurface ==
    /\ At("surface")
    /\ Forward(hdrs, [ctx EXCEPT !.surface = TRUE])

ProxyPassesInert ==
    IF ctx.surface
    THEN Forward(StripInvocation(StripDelegation(hdrs)), ctx)
    ELSE Forward(StripInvocation(StripDelegation(hdrs)), WithoutDelegation(ctx))

ProxyPassesTrusted ==
    LET h == ConsumedHeaders
        c == IF ctx.surface THEN WithPending(ConsumedContext, h.deleg)
                            ELSE WithoutDelegation(ConsumedContext)
    IN  IF ctx.surface /\ h.deleg = Malformed
        THEN Deny("401")
        ELSE Forward(StripDelegation(h),
                     [PromoteForwarderIdentity(h, c) EXCEPT !.proxied = TRUE])

ProxyEnforces ==
    \/ ~SecretMatches /\ Deny("403")
    \/ SecretMatches /\ ~Consumes(ctx.bound) /\ Deny("400")
    \/ SecretMatches /\ Consumes(ctx.bound) /\ ProxyPassesTrusted

ProxyInertWhenUnreadable ==
    /\ At("proxy")
    /\ \/ (env.lambda \/ ctx.payload \/ token = None) /\ ProxyPassesInert
       \/ ~(env.lambda \/ ctx.payload \/ token = None) /\ ProxyEnforces

(* RequireProxy.  In Lambda, or behind the shim, the payload is the trust  *)
(* boundary; with no secret source at all the guard is inert.              *)
RequireProxy ==
    /\ At("proxy")
    /\ \/ /\ env.lambda \/ ctx.payload
          /\ ProxyPassesInert
       \/ /\ ~env.lambda /\ ~ctx.payload /\ ~Configured
          /\ Forward(StripInvocation(StripDelegation(hdrs)), WithoutDelegation(ctx))
       \/ /\ ~env.lambda /\ ~ctx.payload /\ Configured
          /\ ProxyEnforces

PresetIdentity == ctx.id # None /\ ctx.id.role # None

(* An identity with a role is already in the context.  The delegation that *)
(* came with it may speak only on the platform surface, and only if a      *)
(* trusted transport brought it.                                           *)
PlatformTakesPreset ==
    LET c == IF ctx.surface /\ (ctx.proxied \/ ctx.payload)
             THEN ActivatePendingDelegation(ctx)
             ELSE WithoutDelegation(ctx)
    IN  Forward(StripInvocation(StripDelegation(hdrs)), c)

(* Stricter than the proxy's promotion: user, app and role, or nothing.    *)
PlatformTakesForwarded ==
    LET h == ConsumedHeaders
        id == IF TypedArrived(hdrs) THEN ConsumedContext.id ELSE HeaderIdentity(h)
    IN  IF \/ id.user = None \/ id.app = None \/ id.role = None
           \/ ctx.surface /\ h.deleg = Malformed
        THEN Deny("401")
        ELSE Forward(StripDelegation(h),
                     ActivatePendingDelegation(
                         WithPending([ConsumedContext EXCEPT !.id = id], h.deleg)))

PlatformEnforces ==
    \/ token = None /\ Deny("503")
    \/ token # None /\ ~SecretMatches /\ Deny("401")
    \/ SecretMatches /\ ~Consumes(FALSE) /\ Deny("400")
    \/ SecretMatches /\ Consumes(FALSE) /\ PlatformTakesForwarded

PlatformAuth ==
    /\ At("platform")
    /\ \/ PresetIdentity /\ PlatformTakesPreset
       \/ /\ ~PresetIdentity /\ ~Configured /\ ~env.lambda
          /\ Forward(StripInvocation(StripDelegation(hdrs)),
                     [WithoutDelegation(ctx) EXCEPT !.id = SyntheticIdentity])
       \/ ~PresetIdentity /\ (Configured \/ env.lambda) /\ PlatformEnforces

InternalForwards ==
    Forward(StripInvocation(StripDelegation(hdrs)), WithoutDelegation(ctx))

InternalEnforces ==
    \/ ~SecretMatches /\ Deny("401")
    \/ SecretMatches /\ ~Consumes(ctx.bound) /\ Deny("400")
    \/ /\ SecretMatches /\ Consumes(ctx.bound)
       /\ Forward(StripDelegation(ConsumedHeaders),
                  PromoteForwarderIdentity(ConsumedHeaders,
                                           WithoutDelegation(ConsumedContext)))

InternalAuth ==
    /\ At("internal")
    /\ \/ ctx.payload /\ InternalForwards
       \/ /\ ~ctx.payload /\ token = None
          /\ IF env.lambda \/ Configured THEN Deny("503") ELSE InternalForwards
       \/ ~ctx.payload /\ token # None /\ InternalEnforces

(* RequirePermission on one route.                                         *)
RequireRoles ==
    /\ At("roles")
    /\ \/ ~PresetIdentity /\ Deny("401")
       \/ PresetIdentity /\ ctx.id.role \notin RouteRoles /\ Deny("403")
       \/ PresetIdentity /\ ctx.id.role \in RouteRoles /\ Forward(hdrs, ctx)

-----------------------------------------------------------------------------
(* The chain each scope mounts.  "bare" is a route mounted on Router()     *)
(* directly, outside every scope: no middleware of the module, no binding. *)
ScopeChain(scope) ==
    [platform |-> <<"surface", "proxy", "platform">>,
     public   |-> <<"proxy">>,
     internal |-> <<"internal">>,
     bare     |-> <<>>][scope]

Enter(origin, route, wire, h, c) ==
    /\ status' = "routing"
    /\ req' = [origin |-> origin, scope |-> route.scope, extra |-> route.extra,
               wire |-> wire]
    /\ hdrs' = h
    /\ ctx' = [c EXCEPT !.bound = route.scope # "bare"]
    /\ chain' = ScopeChain(route.scope) \o route.extra
    /\ live' = {token} \ {None}
    /\ UNCHANGED <<env, token>>

(* The response is written before the chain is entered.                    *)
Answer(origin, route, wire, code) ==
    /\ status' = code
    /\ req' = [origin |-> origin, scope |-> route.scope, extra |-> route.extra,
               wire |-> wire]
    /\ chain' = <<>>
    /\ live' = {token} \ {None}
    /\ UNCHANGED <<env, token, hdrs, ctx>>

(* A request over HTTP.  In development the schema is taken from the app   *)
(* header, and provisioned, before anything has been authenticated.        *)
ArriveHTTP ==
    /\ status = "idle" /\ ~env.lambda
    /\ \E h \in Headers, route \in Routes :
          \/ Enter("http", route, h, h,
                   IF env.dev THEN [EmptyContext EXCEPT !.schema = h.app] ELSE EmptyContext)
          \/ env.dev /\ h.app # None /\ Answer("http", route, h, "500")

TopLevelAgrees(e, v) ==
    /\ \A n \in {"user", "app", "role", "deleg"} : e.top[n] \in {None, v[n]}
    /\ e.top.schema \in {None, v.app}

LambdaInvocationHolds(e, bound) ==
    /\ e.hdr.inv = None
    /\ InvocationHolds(e.inv, e.hdr, bound)
    /\ TopLevelAgrees(e, e.inv)

(* InjectResources on the parameters of either generation of the envelope. *)
InjectableRole(role) == role = None \/ role \in ValidRoles

LegacyInjects(t) ==
    /\ t.schema # Malformed
    /\ InjectableRole(t.role)
    /\ t.deleg # Malformed

InjectLegacy(t) ==
    LET c == [EmptyContext EXCEPT !.schema = t.schema, !.payload = TRUE,
                 !.id = IF Identity(t.user, t.app, t.role) = Identity(None, None, None)
                        THEN None ELSE Identity(t.user, t.app, t.role)]
    IN  WithPending(c, t.deleg)

InjectTyped(v) == [ApplyInvocation(v, EmptyContext) EXCEPT !.payload = TRUE]

(* NewLambdaHandler on an HTTP envelope: the X-MS-* headers other than the *)
(* two secrets never reach the router, the payload's identity does.        *)
LambdaHandler(origin, route, e, bound) ==
    \/ /\ e.inv # None
       /\ IF LambdaInvocationHolds(e, bound) /\ InjectableRole(e.inv.role)
          THEN Enter(origin, route, e, OnlyCredentials(e.hdr), InjectTyped(e.inv))
          ELSE Answer(origin, route, e, "400")
    \/ /\ e.inv = None
       /\ IF LegacyInjects(e.top)
          THEN Enter(origin, route, e, OnlyCredentials(e.hdr), InjectLegacy(e.top))
          ELSE Answer(origin, route, e, "400")

ArriveLambda ==
    /\ status = "idle" /\ env.lambda
    /\ \E e \in Envelopes, route \in Routes : LambdaHandler("lambda", route, e, TRUE)

(* lambdaInvokeShim: the gate in front of the Lambda handler on the        *)
(* development HTTP port.  The handler behind it has no module binding.    *)
ShimRefuses(e) ==
    IF env.shim # None THEN e.hdr.cred.internal # env.shim ELSE Configured

ArriveShim ==
    /\ status = "idle" /\ ~env.lambda
    /\ \E e \in Envelopes, route \in Routes :
          IF e.self
          THEN Answer("shim", route, e, "400")
          ELSE IF ShimRefuses(e)
          THEN Answer("shim", route, e, IF env.shim # None THEN "401" ELSE "503")
          ELSE LambdaHandler("shim", route, e, FALSE)

(* The handler behind the chain runs.                                      *)
Serve ==
    /\ status = "routing" /\ chain = <<>>
    /\ status' = "served"
    /\ UNCHANGED <<env, token, req, hdrs, ctx, chain, live>>

(* The token file is rotated, removed or emptied at any moment.            *)
RotateToken ==
    /\ env.source = "file"
    /\ token' \in (Tokens \cup {None}) \ {token}
    /\ live' = live \cup ({token'} \ {None})
    /\ UNCHANGED <<env, req, hdrs, ctx, chain, status>>

NoHeaders == [cred |-> [platform |-> None, internal |-> None], user |-> None,
              app |-> None, role |-> None, deleg |-> None, inv |-> None]

Finish ==
    /\ status \notin {"idle", "routing"}
    /\ status' = "idle"
    /\ req' = None /\ hdrs' = NoHeaders /\ ctx' = EmptyContext /\ chain' = <<>>
    /\ live' = {}
    /\ UNCHANGED <<env, token>>

-----------------------------------------------------------------------------
(* Module.Start refuses to serve Lambda with no secret source.             *)
InboundInit ==
    /\ env \in [lambda : BOOLEAN, dev : BOOLEAN, shim : ShimSecrets,
                source : {"file", "platform", "internal", "none"}]
    /\ env.lambda => env.source # "none" /\ ~env.dev /\ env.shim = None
    /\ token \in IF env.source = "none" THEN {None}
                 ELSE IF env.source = "file" THEN Tokens \cup {None} ELSE Tokens
    /\ req = None /\ hdrs = NoHeaders /\ ctx = EmptyContext /\ chain = <<>>
    /\ status = "idle" /\ live = {}

Route ==
    \/ PlatformActorSurface \/ RequireProxy \/ PlatformAuth
    \/ InternalAuth \/ RequireRoles \/ Serve

Arrive == ArriveHTTP \/ ArriveLambda \/ ArriveShim
=============================================================================
