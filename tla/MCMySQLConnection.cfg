SPECIFICATION MySQLFairSpec
CONSTANTS
    Cursors <- BothCursors
    Unbuffered <- OneSSCursor
    Answers <- SampleAnswers
    SeqMod = 3
    Autocommit = TRUE
    InitCommand = TRUE
    FinishesResults = TRUE
    MaxCalls = 4
    MaxFaults = 1
CHECK_DEADLOCK FALSE
INVARIANTS
    MySQLTypeOK
    RepliesMatch
    RowsAreOwn
    NoWaitForNothing
    AutocommitRestored
PROPERTY CallsReturn
