SPECIFICATION Spec
CONSTANTS
    e1 = e1
    e2 = e2
    Executions = {e1}
    PollInterval = 15
    MaxWait = 135
    LambdaTimeout = 45
    MaxLag = 30
    DesiredCount = 2
    TerraformDesired = 0
    EcsPollInterval = 15
    EcsMaxWait = 135
    EcsLambdaTimeout = 45
    MaxApplies = 0
    MaxDisturbances = 0
    MaxFaults = 0
CHECK_DEADLOCK FALSE
INVARIANT CompletedOnDrAnswer
