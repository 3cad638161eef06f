SPECIFICATION DeploymentSpec
CONSTANTS
    Stacks <- StackVars
    InputsOf <- RemoteState
    MediaStacks <- MediaBuckets
    Regions <- ImageRegions
    DeploySteps <- DeploySequence
    DestroySteps <- DestroySequence
    HelperInPlace = TRUE
    MaxFaults = 2
    MaxJobs = 3
CHECK_DEADLOCK FALSE
INVARIANTS
    DeploymentTypeOK
    OnlyFaultsStopJobs
    InputsOutlive
    CompleteDeployment
    SecretsOpenDatabase
    CompleteTeardown
