SPECIFICATION Spec
CONSTANTS
    e1 = e1
    e2 = e2
    Executions <- TwoExecutions
    PollInterval = 15
    MaxWait = 135
    LambdaTimeout = 45
    MaxLag = 30
    DesiredCount = 1
    TerraformDesired = 0
    EcsPollInterval = 15
    EcsMaxWait = 45
    EcsLambdaTimeout = 15
    MaxApplies = 1
    MaxDisturbances = 1
    MaxFaults = 1
CHECK_DEADLOCK FALSE
SYMMETRY ExecutionSymmetry
INVARIANTS
    TypeOK
    NoTaskOnUnusableDatabase
    WritableMeansCommittedRow
    WritableMeansUsable
PROPERTY ImplementsProtocol
