SPECIFICATION DeploymentSpec
CONSTANTS
    Stacks <- StackVars
    InputsOf <- RemoteState
    MediaStacks <- MediaBuckets
    Regions <- ImageRegions
    DeploySteps <- DeploySequence
    DestroySteps <- DestroySequence
    HelperInPlace = FALSE
    MaxFaults = 0
    MaxJobs = 1
CHECK_DEADLOCK FALSE
INVARIANT OnlyFaultsStopJobs
