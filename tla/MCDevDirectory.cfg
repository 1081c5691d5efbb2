CONSTANTS
    Producers = {p1}
    slug = slug
    Refs = {slug}
    Slug <- OneSlug
    Readers = {c1}
    HB = 2
    TTL = 7
    CacheTTL = 1
    MaxPublish = 1
    MaxLookup = 1
    Nobody = Nobody
SPECIFICATION FairSpec
INVARIANTS MemoWrongOnlyBriefly  WithdrawnForGood
PROPERTY FoundWhileServing
