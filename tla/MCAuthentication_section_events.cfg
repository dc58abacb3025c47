\* Events given to AddHmac with a configuration section.
SPECIFICATION Spec
CONSTANTS
    q1 = q1  p1 = p1  p2 = p2  s1 = s1  s2 = s2
    NoPolicy = NoPolicy  NoScheme = NoScheme  EmptyScheme = EmptyScheme
    HeaderClaims <- MCHeaderClaims  EventClaims <- MCEventClaims
    Requests = {q1}
    Policies = {p1}
    Schemes = {s1}
    Registration = "sectionWithEvents"
    MaxKeys = 1
INVARIANTS
    GrantedKeysApproved
CHECK_DEADLOCK FALSE
