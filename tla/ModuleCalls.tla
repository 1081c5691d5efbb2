---------------------------- MODULE ModuleCalls ----------------------------
(***************************************************************************)
(* What a handler may send out with the authority Authority gave it:       *)
(* calls to other modules, with the development fallback of CallDependency *)
(* to a producer running beside this one, events and notifications, and    *)
(* the mints of member assertions and delivery tickets.                    *)
(*                                                                         *)
(* Dispatch, the platform's ingress, is external.  It routes a call to its *)
(* producer and marks the producer's answer, or answers itself; an         *)
(* installation that predates the dependency ingress answers with the      *)
(* router's own 404 page.                                                  *)
(***************************************************************************)
EXTENDS Authority, Integers

CONSTANTS Width,        \* bits of time.Duration, scaled
          Second,       \* time.Second in that scale
          MaxLifetime,  \* maxAssertionLifetime in that scale
          Grants,       \* lifetimes in seconds a mint response may carry
          TTLs          \* lifetimes a caller may propose

VARIABLES
    cap,       \* the task's module-call capability, "none" outside a task
    call,      \* the outbound operation under way, None if none
    out,       \* the requests sent for it, in order
    runs,      \* how often the producer has executed it
    minted     \* the last credential a mint returned, None if none

outVars == <<cap, call, out, runs, minted>>
vars == <<inVars, outVars>>

-----------------------------------------------------------------------------
(* outboundServiceSecret: a task speaks only with its own capability.      *)

CapabilityUsable == cap \in {"none", "live"}

ServiceSecret == IF cap = "none" THEN "session" ELSE "capability"

Delegation(path) == IF path = "platform" THEN ctx.active ELSE None

Request(to, path, cred) ==
    [to |-> to, cred |-> cred, deleg |-> Delegation(path),
     app |-> IF ctx.id = None THEN None ELSE ctx.id.app]

AppScoped == ctx.id # None /\ ctx.id.app # None

(* time.Duration(seconds) * time.Second in a word of Width bits.           *)
Duration(seconds) ==
    LET d == (seconds * Second) % (2 ^ Width)
    IN  IF d >= 2 ^ (Width - 1) THEN d - 2 ^ Width ELSE d

(* dispatchTTLSeconds: unset for 0, rounded up otherwise.                  *)
DispatchTTLSeconds(ttl) == IF ttl = 0 THEN None ELSE (ttl + Second - 1) \div Second

-----------------------------------------------------------------------------
Idle == status = "served" /\ call = None /\ out = <<>>

(* ingress: whether this installation of dispatch has the dependency       *)
(* ingress.                                                                *)
NewCalls(op, path, ttl) ==
    [op : {op}, path : {path}, ttl : {ttl}, stage : {"sent"}, answer : {None},
     marked : {FALSE}, ingress : IF op = "dependency" THEN BOOLEAN ELSE {TRUE}]

Start(op, path) ==
    /\ call' \in NewCalls(op, path, None)
    /\ out' = <<Request("dispatch", path, ServiceSecret)>>
    /\ UNCHANGED <<inVars, cap, runs, minted>>

End(result) ==
    /\ call' = [call EXCEPT !.stage = result]
    /\ UNCHANGED <<inVars, cap, out, runs, minted>>

(* Call and CallWithOptions, to a path of any surface.                     *)
Call ==
    /\ Idle /\ CapabilityUsable
    /\ \E path \in {"platform", "internal", "other"} : Start("call", path)

(* CallDependency, of a declared producer: in development an undeclared    *)
(* one is refused before anything is sent.                                 *)
CallDependency ==
    /\ Idle /\ CapabilityUsable /\ AppScoped
    /\ Start("dependency", "internal")

(* Emit and Notify: one POST to the app's bus, answered or not.            *)
Publish ==
    /\ Idle /\ CapabilityUsable /\ AppScoped
    /\ Start("publish", "other")

Mint ==
    /\ Idle /\ CapabilityUsable /\ AppScoped
    /\ \E op \in {"assertion", "delivery"}, ttl \in TTLs :
          /\ ttl >= 0
          /\ call' \in NewCalls(op, "other", DispatchTTLSeconds(ttl))
          /\ out' = <<Request("dispatch", "other", ServiceSecret)>>
    /\ UNCHANGED <<inVars, cap, runs, minted>>

Sent == call # None /\ call.stage = "sent"

(* The producer executed the call, and its answer comes back marked.       *)
(* Whatever it answers, even the text of the router's 404, is final.       *)
Routed ==
    /\ Sent /\ call.op \in {"call", "dependency"}
    /\ call.ingress
    /\ runs' = runs + 1
    /\ \E answer \in {"ok", "error", "lost", "misstext"} :
          call' = [call EXCEPT !.stage = "answered", !.answer = answer,
                               !.marked = answer # "lost"]
    /\ UNCHANGED <<inVars, cap, out, minted>>

(* Dispatch refuses, or is not reached; the default router's 404 only ever *)
(* comes from an installation without the ingress.                         *)
NotRouted ==
    /\ Sent
    /\ \E answer \in {"error", "lost"} \cup (IF call.ingress THEN {} ELSE {"misstext"}) :
          call' = [call EXCEPT !.stage = "answered", !.answer = answer]
    /\ UNCHANGED <<inVars, cap, out, runs, minted>>

Published ==
    /\ Sent /\ call.op = "publish"
    /\ End("ok")

(* newMemberAssertion and newDeliveryTicket on the response's lifetime.    *)
LifetimeAccepted(op, granted) ==
    /\ granted > 0
    /\ op = "assertion" => Duration(granted) > 0 /\ Duration(granted) <= MaxLifetime

Granted ==
    /\ Sent /\ call.op \in {"assertion", "delivery"}
    /\ \E granted \in Grants, usable \in BOOLEAN :
          IF usable /\ LifetimeAccepted(call.op, granted)
          THEN /\ minted' = [op |-> call.op, granted |-> granted,
                             lifetime |-> Duration(granted)]
               /\ call' = [call EXCEPT !.stage = "ok"]
          ELSE /\ call' = [call EXCEPT !.stage = "error"]
               /\ UNCHANGED minted
    /\ UNCHANGED <<inVars, cap, out, runs>>

-----------------------------------------------------------------------------
RouteMissByText == call.answer = "misstext"

(* isLegacyDependencyIngressRouteMiss                                      *)
RouteMiss == call.answer = "misstext" /\ ~call.marked

Answered == call # None /\ call.stage = "answered"

MayFallBack == call.op = "dependency" /\ env.dev /\ RouteMiss

Return ==
    /\ Answered /\ ~MayFallBack
    /\ End(IF call.answer = "ok" THEN "ok" ELSE "error")

(* resolveDevDependencyCall: the directory, and the producer's own token.  *)
FallBack ==
    /\ Answered /\ MayFallBack
    /\ \/ /\ call' = [call EXCEPT !.stage = "direct"]
          /\ out' = Append(out, Request("direct", call.path, "producer"))
          /\ UNCHANGED <<inVars, cap, runs, minted>>
       \/ End("error")    \* lookup failed, entry invalid, or token unreadable

DirectAnswer ==
    /\ call # None /\ call.stage = "direct"
    /\ runs' \in {runs, runs + 1}
    /\ call' = [call EXCEPT !.stage = IF runs' > runs THEN "ok" ELSE "error"]
    /\ UNCHANGED <<inVars, cap, out, minted>>

(* A one-shot task's handler runs with the app it was claimed for.         *)
StartTask ==
    /\ status = "idle" /\ ~env.dev
    /\ status' = "served"
    /\ req' = [origin |-> "task", scope |-> None, extra |-> <<>>, wire |-> None]
    /\ ctx' = [EmptyContext EXCEPT !.id = Identity(None, "app", None),
                                   !.schema = "app", !.payload = TRUE]
    /\ cap' = "live"
    /\ UNCHANGED <<env, token, hdrs, chain, live, call, out, runs, minted>>

(* The capability lapses, or its refresh fails or succeeds.                *)
CapabilityChanges ==
    /\ cap # "none" /\ call = None
    /\ cap' \in {"live", "expired", "unavailable"} \ {cap}
    /\ UNCHANGED <<inVars, call, out, runs, minted>>

-----------------------------------------------------------------------------
Init ==
    /\ InboundInit
    /\ cap = "none" /\ call = None /\ out = <<>> /\ runs = 0 /\ minted = None

Inbound == (Arrive \/ Route \/ RotateToken) /\ UNCHANGED outVars

Reset ==
    /\ call # None => call.stage \in {"ok", "error"}
    /\ Finish
    /\ cap' = "none" /\ call' = None /\ out' = <<>> /\ runs' = 0 /\ minted' = None

Outbound ==
    \/ StartTask \/ CapabilityChanges
    \/ Call \/ CallDependency \/ Publish \/ Mint
    \/ Routed \/ NotRouted \/ Published \/ Granted
    \/ Return \/ FallBack \/ DirectAnswer

Next == Inbound \/ Outbound \/ Reset

Spec == Init /\ [][Next]_vars

-----------------------------------------------------------------------------
Served == status = "served"

OverHTTP == req.origin = "http"

(***************************************************************************)
(* Fail closed: with a secret source configured, a handler behind a scope  *)
(* is reached over HTTP only with a credential that was the secret at some *)
(* moment since the request arrived, whatever rotations, removals or       *)
(* emptyings of the token file fell between the middlewares.               *)
(***************************************************************************)
AdmittedByLiveSecret ==
    Served /\ OverHTTP /\ Configured /\ req.scope # "bare"
        => req.wire.cred[SecretHeader] \in live

(* The identity a request's own carrier names: its typed context if it has *)
(* one, else its headers or the envelope's fields.                         *)
CarrierIdentity ==
    IF req.wire.inv # None THEN InvocationIdentity(req.wire.inv)
    ELSE IF OverHTTP THEN HeaderIdentity(req.wire)
    ELSE Identity(req.wire.top.user, req.wire.top.app, req.wire.top.role)

CarrierDelegation ==
    IF req.wire.inv # None THEN req.wire.inv.deleg
    ELSE IF OverHTTP THEN req.wire.deleg ELSE req.wire.top.deleg

(***************************************************************************)
(* No mixing and no minting: the identity a handler sees is exactly the    *)
(* one the request's carrier names, never one of its fields from a header  *)
(* and another from the typed context; the synthetic administrator appears *)
(* only in a local process with no secret source; and the schema of a      *)
(* typed context is the schema of its own app, whatever the development    *)
(* middleware took from a header before authentication.                    *)
(***************************************************************************)
IdentityIsTheCarriers ==
    Served /\ ctx.id # None /\ req.origin # "task" =>
        /\ (ctx.id = SyntheticIdentity /\ ~Configured) \/ ctx.id = CarrierIdentity
        /\ ctx.typed # None => ctx.schema = ctx.typed.app
        /\ OverHTTP /\ Configured /\ ctx.schema # None => ctx.schema = ctx.id.app

(***************************************************************************)
(* A delegation speaks only for a handler of the platform scope whose      *)
(* request was authenticated, it is the one that came with the identity,   *)
(* and nothing is left behind, in the context or on the wire, that         *)
(* middleware nested in any other handler could still activate.  Outbound  *)
(* it goes toward platform paths only.                                     *)
(***************************************************************************)
DelegationConfined ==
    Served =>
        /\ ctx.active # None =>
              /\ req.scope = "platform" /\ ctx.id.role # None
              /\ ctx.active = CarrierDelegation /\ ctx.id = CarrierIdentity
              /\ OverHTTP => req.wire.cred[SecretHeader] \in live
        /\ req.scope \notin {"bare"} => ctx.pending = None
        /\ req.scope # "bare" => hdrs.deleg = None /\ hdrs.inv = None
        /\ \A i \in 1..Len(out) : out[i].deleg # None =>
              call.path = "platform" /\ out[i].deleg = CarrierDelegation

(***************************************************************************)
(* A dependency call runs at its producer at most once: the development    *)
(* fallback never repeats a call that dispatch routed, even when the       *)
(* producer answers with the very text of the router's 404.                *)
(***************************************************************************)
ProducerRunsOnce == runs <= 1

=============================================================================
