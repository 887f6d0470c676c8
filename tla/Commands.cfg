SPECIFICATION FairSpec
CONSTANTS
    none = none
    Pid = {"p1", "p2"}
    MaxStarts = 3
    MaxHups = 3
    MaxVersions = 2
    Name <- MCName
    Value <- MCValue
    None = none
    Broken <- MCBroken
    Aliases <- MCAliases
    Existing <- MCExisting
    Dead <- MCDead
    Refs <- MCRefs
    Required <- MCRequired
    Runs <- MCRuns
    Redefines <- MCRedefines
    Orders <- MCOrders
    Libraries <- MCLibraries
CHECK_DEADLOCK FALSE
INVARIANTS
    TypeOK
    PidFileNamesTheBot
    AuditAgreesWithBoot
    
    
PROPERTIES
    HupKillsNoBot
    EveryHupReloads
