\* Policies come and go, with and without a scheme and with other keys.
SPECIFICATION Spec
CONSTANTS
    q1 = q1  p1 = p1  p2 = p2  s1 = s1  s2 = s2
    NoPolicy = NoPolicy  NoScheme = NoScheme  EmptyScheme = EmptyScheme
    HeaderClaims <- MCHeaderClaims  EventClaims <- MCEventClaims
    Requests = {q1}
    Policies = {p1, p2}
    Schemes = {s1, s2}
    Registration = "action"
    MaxKeys = 2
SYMMETRY Interchangeable
INVARIANTS
    TypeOK GrantedKeysApproved GatesAgree RequiredSchemeVerified
CHECK_DEADLOCK FALSE
