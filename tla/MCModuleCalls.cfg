CONSTANTS
    None = None
    Malformed = Malformed
    Tokens = {"t1", "t2"}
    Headers <- MCHeaders
    Envelopes <- MCEnvelopes
    Routes <- MCRoutes
    ShimSecrets = {None, "shim"}
    ValidRoles = {"admin", "member", "viewer"}
    RouteRoles = {"admin"}
    SyntheticRole = "admin"
    Width = 8
    Second = 10
    MaxLifetime = 100
    Grants = {0, 3, 11}
    TTLs <- MCTTLs
SPECIFICATION Spec
INVARIANTS
    AdmittedByLiveSecret
    IdentityIsTheCarriers
    DelegationConfined
    ProducerRunsOnce

