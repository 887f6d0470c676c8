SPECIFICATION FairSpec
CONSTANTS
    Url <- MCUrl
    Refused <- MCRefused
    Method <- MCMethod
    MaxBytes = 1
    MaxPostBytes = 1
    MaxRedirects = 2
    CurlMaxCalls = 2
INVARIANTS
    TypeOK
    EveryRequestValidated
    RequestsFollowTheCall
    ValueEndsTheChain
PROPERTIES
    EveryCallEnds
CHECK_DEADLOCK FALSE
