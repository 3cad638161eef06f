SPECIFICATION RecoveryFairSpec
CONSTANTS
    e1 = e1
    e2 = e2
    Executions <- TwoExecutions
    DesiredCount = 2
    TerraformDesired = 0
    EcsPollInterval = 15
    EcsMaxWait = 45
    EcsLambdaTimeout = 60
    MaxApplies = 1
    MaxDisturbances = 1
    MaxFaults = 1
CHECK_DEADLOCK FALSE
INVARIANTS
    RecoveryTypeOK
    HealthyMeansCapacity
PROPERTY ScalingTakesEffect
