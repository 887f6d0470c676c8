SPECIFICATION FairSpec
CONSTANTS
    eval = eval
    t1 = t1
    t2 = t2
    bot = bot
    nl = nl
    Message <- MCMessage
    Code <- MCCode
    Mentioning <- MCMentioning
    Ignored <- MCIgnored
    Results <- MCResults
    MaxChars = 2
    MaxMessages = 2
    MaxChunks = 5
    Newline = nl
    Character <- MCCharacter
    Outputs <- MCOutputs
    Warnings <- MCWarnings
    MaxLines = 1
    PostAttempts = 2
    MaxSays = 1
    MaxFailures = 2
CHECK_DEADLOCK FALSE
INVARIANTS
    TypeOK
    ReplyWithoutHoles
    RepeatedOnlyInDoubt
    EveryLineOnce
    ReplyKeepsText
    ReplyFitsSlack
PROPERTIES
    SettledNamesStay
    EveryEvalIsAnswered
