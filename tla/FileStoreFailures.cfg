SPECIFICATION Spec
CONSTANTS
    bot = bot
    repl = repl
    a = a
    b = b
    v = v
    w = w
    None = None
    Absent = Absent
    Empty = Empty
    Torn = Torn
    Process <- MCProcess
    Name <- MCName
    Value <- MCValue
    Edits <- MCEdits
SYMMETRY Symmetry
INVARIANTS
    TypeOK
    SavesSurvive
    DamageStaysVisible
PROPERTIES
    LoadReturnsSaved
