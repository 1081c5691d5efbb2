--------------------------- MODULE MCModuleCalls ---------------------------
(* Instances of ModuleCalls: representative headers, typed contexts and    *)
(* envelopes, one for each way a check can come out.                       *)
EXTENDS ModuleCalls, TLC

Ids == {Identity(None, None, None), Identity("u1", "a1", "admin"),
        Identity("u1", "a1", None), Identity(None, None, "admin")}

V(kind, id, deleg, module, binds) ==
    [kind |-> kind, user |-> id.user, app |-> id.app, role |-> id.role,
     deleg |-> deleg, module |-> module, binds |-> binds]

Member == Identity("u1", "a1", None)
Admin == Identity("u1", "a1", "admin")

Contexts ==
    {None, Malformed,
     V("platform", Admin, "d1", "self", TRUE),
     V("platform", Admin, None, "self", FALSE),
     V("platform", Admin, "d1", "other", TRUE),
     V("platform", Admin, Malformed, "self", TRUE),
     V("member", Member, None, "self", TRUE),
     V("member", Member, "d1", "self", TRUE),
     V(None, Identity(None, "a1", None), None, "self", TRUE)}

Cred(p, i) == [platform |-> p, internal |-> i]

H(cred, id, deleg, inv) ==
    [cred |-> cred, user |-> id.user, app |-> id.app, role |-> id.role,
     deleg |-> deleg, inv |-> inv]

Nobody == Identity(None, None, None)

MCHeaders ==
    {H(c, id, d, None) : c \in {Cred(None, None), Cred("t1", None), Cred("t2", "t1")},
                         id \in Ids, d \in {None, "d1", Malformed}}
    \cup {H(Cred("t1", "t1"), id, d, v) :
             id \in {Nobody, Admin, Identity("u2", "a2", "guest")},
             d \in {None, "d2"}, v \in Contexts \ {None}}
    \cup {H(Cred("t1", "t1"), Identity("u2", "a2", "guest"), d, None) : d \in {None, "d1"}}
    \cup {H(Cred(None, None), Nobody, None, v) : v \in Contexts}

MCForwarded == {H(Cred("t1", "t1"), Admin, "d1", None)}

E(cred, id, schema, deleg, inv, hid, hinv, self) ==
    [top |-> [user |-> id.user, app |-> id.app, role |-> id.role,
              schema |-> schema, deleg |-> deleg],
     inv |-> inv, hdr |-> H(cred, hid, None, hinv), self |-> self]

MCEnvelopes ==
    {E(c, id, s, d, None, hid, None, FALSE) :
        c \in {Cred(None, None), Cred("t1", "shim")}, id \in Ids,
        s \in {None, "a1"}, d \in {"d1"}, hid \in {Nobody, Admin}}
    \cup {E(Cred(None, "shim"), Admin, s, d, None, Nobody, None, FALSE) :
             s \in {"a1", Malformed}, d \in {None, Malformed}}
    \cup {E(Cred(None, "shim"), id, None, None, v, hid, None, FALSE) :
             id \in {Nobody, Admin}, v \in Contexts, hid \in {Nobody, Admin}}
    \cup {E(Cred(None, "shim"), Nobody, None, None, v, Nobody, hv, self) :
             v \in Contexts, hv \in {None, Malformed}, self \in BOOLEAN}

MCTTLs == {-1, 0, 25}

R(scope, extra) == [scope |-> scope, extra |-> extra]

MCRoutes ==
    {R("platform", <<>>), R("platform", <<"roles">>), R("platform", <<"internal", "platform">>),
     R("public", <<>>), R("public", <<"platform">>), R("public", <<"roles">>),
     R("internal", <<>>), R("internal", <<"platform">>),
     R("bare", <<"platform">>)}
=============================================================================
