CONSTANTS
    r1 = r1
    h1 = h1
    v1 = v1
    Requests <- TheRequests
    Headers <- TheHeaders
    Values <- TheValues
    Names <- TheNames
    Null = Null
    MaxKey = 3
    Factories <- TheFactories
    Unsendable <- TheUnsendable
    Undecodable <- TheUndecodable
    MaxCalls = 2
    MaxManagers = 2
    MaxValues = 2
SPECIFICATION FairSpec
INVARIANTS TypeOK ManagerAsAsked KeysOfOneVersion ContentOfItsCall HeadersWhole SentVerifies
PROPERTIES SignsAtomically SignEnds
CHECK_DEADLOCK FALSE
