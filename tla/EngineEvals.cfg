SPECIFICATION FairSpec
CONSTANTS
    r1 = r1
    r2 = r2
    a = a
    b = b
    v = v
    w = w
    say = say
    None = None
    Request <- TwoRequests
    Name <- OneName
    Value <- OneValue
    Builtin <- Say
    Limit <- SayLimit
    MaxChanges = 5
    Unsafe <- NothingSpecial
    TooLarge <- NothingSpecial
    Automatic <- NothingSpecial
    Broken <- NothingSpecial
    Shadowed <- NothingSpecial
    OutsideEdits <- NoOutsideEdits
    MaxEdits = 2
    MaxReloads = 0
INVARIANTS
    TypeOK
    BuiltinQuota
PROPERTIES
    OkMeansSaved
    EverySubmittedEvalEnds
