SPECIFICATION ReplicaSpec
CONSTANTS
    e1 = e1
    e2 = e2
    Executions = {e1}
    PollInterval = 15
    MaxWait = 900
    LambdaTimeout = 300
    MaxLag = 30
    MaxDisturbances = 1
    MaxFaults = 0
CHECK_DEADLOCK FALSE
INVARIANT PollingMeansPromotion
