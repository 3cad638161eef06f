SPECIFICATION LoginFairSpec
CONSTANTS
    Passwords <- TwoPasswords
    Defaults <- SampleDefaults
    Plugins <- PluginNames
    MaxAttempts = 2
    MaxChanges = 1
CHECK_DEADLOCK FALSE
INVARIANTS
    LoginTypeOK
    LoginAgrees
    RightPasswordLogsIn
    OnlyUnsupportedRaises
    FastPathWhenCached
PROPERTY LoginEnds
