SPECIFICATION Spec
CONSTANTS
    c1 = c1
    c2 = c2
    p = p
    q = q
    body = body
    None = None
    NoObject = NoObject
    NoETag = NoETag
    Name <- MCName
    Value <- MCValue
    Edits <- MCEdits
    Digest <- MCDigest
    Container <- MCContainer
    Backups <- MCBackups
    PutAttempts = 3
    ConditionalWrites = TRUE
    MaxOrphans = 1
SYMMETRY Symmetry
INVARIANTS
    TypeOK
    CacheMatchesETag
    GiveUpMeansContention
PROPERTIES
    MergedNotClobbered
    ImplementsLibrary
