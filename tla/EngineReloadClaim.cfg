SPECIFICATION Spec
CONSTANTS
    r1 = r1
    r2 = r2
    a = a
    b = b
    v = v
    w = w
    say = say
    None = None
    Request <- OneRequest
    Name <- OneName
    Value <- OneValue
    Builtin <- NoBuiltins
    Limit <- NoLimits
    MaxChanges = 5
    Unsafe <- NothingSpecial
    TooLarge <- NothingSpecial
    Automatic <- NothingSpecial
    Broken <- NothingSpecial
    Shadowed <- NothingSpecial
    OutsideEdits <- NoOutsideEdits
    MaxEdits = 1
    MaxReloads = 1
INVARIANTS
    DiskIsAuthoritative
