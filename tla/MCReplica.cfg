SPECIFICATION ReplicaFairSpec
CONSTANTS
    e1 = e1
    e2 = e2
    Executions <- TwoExecutions
    PollInterval = 15
    MaxWait = 60
    LambdaTimeout = 90
    MaxLag = 30
    MaxDisturbances = 2
    MaxFaults = 1
CHECK_DEADLOCK FALSE
INVARIANTS
    ReplicaTypeOK
    AvailableMeansPromoted
    UndisturbedPolling
PROPERTY ReadyDatabaseIsReported
