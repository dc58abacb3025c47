\* Default stores, inside the process: windows shorter and longer than the entries; every call ends.
SPECIFICATION FairSpec
CONSTANTS
    m1 = m1  m2 = m2  m3 = m3  r1 = r1  r2 = r2  q1 = q1  q2 = q2
    Messages = {m1, m2}
    Requests = {q1, q2}
    Replicas = {r1}
    Redis = Redis
    DistributedCache = "MemoryDistributedCache"
    Policies <- MCPolicies
    PolicyOf <- SharedAndLong
    CacheType <- MCCacheType
    MaxAge <- MCMaxAge
    CacheMaxAge = 2
    ClockSkew = 0
    MaxLag = 1
    StoreMayFail = TRUE
    MaxTime = 3
PROPERTIES DetectsReplays RequestAnswered
CHECK_DEADLOCK FALSE
