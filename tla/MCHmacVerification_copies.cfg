\* Copies of messages of three policies race on two replicas; store calls may throw.
SPECIFICATION Spec
CONSTANTS
    m1 = m1  m2 = m2  m3 = m3  r1 = r1  r2 = r2  q1 = q1  q2 = q2
    Messages = {m1, m2, m3}
    Requests = {q1, q2}
    Replicas = {r1, r2}
    Redis = Redis
    DistributedCache = "RedisCache"
    Policies <- MCPolicies
    PolicyOf <- OneOfEach
    CacheType <- MCCacheType
    MaxAge <- MCMaxAge
    CacheMaxAge = 2
    ClockSkew = 0
    MaxLag = 1
    StoreMayFail = TRUE
    MaxTime = 3
SYMMETRY Symmetric
INVARIANTS TypeOK LateDuplicateRefused RefusalJustified NonceKeptForWindow TimelyRequestDecided
PROPERTIES LiveEntryKept
CHECK_DEADLOCK FALSE
