SPECIFICATION FairSpec
CONSTANTS
    e1 = e1
    e2 = e2
    Executions <- TwoExecutions
    PollInterval = 15
    MaxWait = 135
    LambdaTimeout = 45
    MaxLag = 30
    DesiredCount = 1
    TerraformDesired = 0
    EcsPollInterval = 15
    EcsMaxWait = 45
    EcsLambdaTimeout = 15
    MaxApplies = 0
    MaxDisturbances = 0
    MaxFaults = 1
CHECK_DEADLOCK FALSE
PROPERTIES
    ExecutionsEnd
    RerunCompletes
