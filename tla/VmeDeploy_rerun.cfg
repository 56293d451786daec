CONSTANTS
    MaxRuns = 2
    Leftovers = 2
SPECIFICATION FairSpec
INVARIANT TypeOK
INVARIANT ReplacesWhatItFinds
INVARIANT DoneMeansDeployed
PROPERTY FailsBeforeItCreates
PROPERTY DeploymentEnds
CHECK_DEADLOCK FALSE
