SPECIFICATION Spec
CONSTANTS
    r1 = r1
    r2 = r2
    a = a
    b = b
    v = v
    w = w
    say = say
    None = None
    Request <- OneRequest
    Name <- TwoNames
    Value <- TwoValues
    Builtin <- NoBuiltins
    Limit <- NoLimits
    MaxChanges = 1
    Unsafe <- OnlyB
    TooLarge <- OnlyW
    Automatic <- NothingSpecial
    Broken <- OnlyW
    Shadowed <- OnlyB
    OutsideEdits <- OutsideWrite
    MaxEdits = 2
    MaxReloads = 1

    
PROPERTIES
    OnlyOwnChangesReachDisk
