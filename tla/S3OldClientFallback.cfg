SPECIFICATION Spec
CONSTANTS
    c1 = c1
    c2 = c2
    p = p
    q = q
    body = body
    None = None
    NoObject = NoObject
    NoETag = NoETag
    Name <- MCName
    Value <- MCValue
    Edits <- OldClientEdits
    Digest <- MCDigest
    Container <- OneContainer
    Backups <- NoBackups
    PutAttempts = 2
    ConditionalWrites = FALSE
    MaxOrphans = 0
INVARIANTS
    FallbackIsTaken
