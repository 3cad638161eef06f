SPECIFICATION MySQLSpec
CONSTANTS
    Cursors <- BothCursors
    Unbuffered <- OneSSCursor
    Answers <- RowAnswers
    SeqMod = 8
    Autocommit = TRUE
    InitCommand = FALSE
    FinishesResults = FALSE
    MaxCalls = 4
    MaxFaults = 0
CHECK_DEADLOCK FALSE
INVARIANT NoWaitForNothing
