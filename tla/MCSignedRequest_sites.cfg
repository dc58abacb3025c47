\* Every kind of site and of body, hops that alter anything, retries of both kinds.
SPECIFICATION Spec
CONSTANTS
    h1 = h1  h2 = h2  path = path  a = a
    Sites <- MCSites
    Words <- MCWords
    Comma = Comma
    Target <- MCTarget  Targets <- MCTargets
    Headers = {h1, h2}
    Lines <- MCLines
    Key = Key
    Shapes = {"none", "empty", "oneChunk", "manyChunks", "notText"}
    Lowercases = TRUE
    Resigns = TRUE
    MaxAge = 1
    MaxAttempts = 2
    MaxTime = 1
INVARIANTS
    TypeOK  OneNoncePerCall UntouchedAccepted HeadersOfOneSigning
CHECK_DEADLOCK FALSE
