\* Two copies of one message at the same time, the window as long as the entries.
SPECIFICATION Spec
CONSTANTS
    m1 = m1  m2 = m2  m3 = m3  r1 = r1  r2 = r2  q1 = q1  q2 = q2
    Messages = {m1}
    Requests = {q1, q2}
    Replicas = {r1, r2}
    Redis = Redis
    DistributedCache = "MemoryDistributedCache"
    Policies <- MCPolicies
    PolicyOf <- OneExact
    CacheType <- MCCacheType
    MaxAge <- MCMaxAge
    CacheMaxAge = 2
    ClockSkew = 0
    MaxLag = 0
    StoreMayFail = FALSE
    MaxTime = 3
SYMMETRY Symmetric
INVARIANTS AcceptedOnce
CHECK_DEADLOCK FALSE
