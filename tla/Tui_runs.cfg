CONSTANTS
    NFields = 5
    NProfiles = 2
    Targets = {t1}
    NoTarget = none
    MaxRuns = 3
    Visited <- DiagnosticsOnly
    PatientUser = FALSE
    Filters <- NoFilters
    MaxMatches = 0
    Stalling <- FirstProfile
SPECIFICATION FairSpec
INVARIANT PendingHasRun
PROPERTY PendingEnds
CHECK_DEADLOCK FALSE
