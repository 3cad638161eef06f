SPECIFICATION DataSpec
CONSTANTS
    TextArgs <- SampleTexts
    TimeArgs <- SampleTimes
    Columns = 2
    MaxPacket = 24
    SeqMod = 4
    ByteMax = 3
    ShortMax = 4
    Int24Max = 5
    MaxStmt = 20
    Prefix = 1
    Postfix = 1
    Micro = 100
    Fsp = 1
    MaxFaults = 1
CHECK_DEADLOCK FALSE
INVARIANTS
    DataTypeOK
    StatementsFit
    NoFalseAlarm
    RowsComeBack
    NobodyWaits
PROPERTIES
    ImplementsLoop
