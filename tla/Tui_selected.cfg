CONSTANTS
    NFields = 5
    NProfiles = 2
    Targets = {t1}
    NoTarget = none
    MaxRuns = 1
    Visited <- DiagnosticsOnly
    PatientUser = FALSE
    Filters <- SomeFilters
    MaxMatches = 1
    Stalling <- Nowhere
SPECIFICATION Spec
INVARIANT SelectedIsProfile
CHECK_DEADLOCK FALSE
