CONSTANTS
    NFields = 5
    NProfiles = 2
    Targets = {t1}
    NoTarget = none
    MaxRuns = 2
    Visited <- Everywhere
    PatientUser = TRUE
    Filters <- NoFilters
    MaxMatches = 0
    Stalling <- Nowhere
SPECIFICATION Spec
INVARIANT TypeOK
INVARIANT FocusMatchesPane
INVARIANT QuestionHasFocus
INVARIANT FieldCursor
INVARIANT LatestShown
PROPERTY KeepsPowerPromise
CHECK_DEADLOCK FALSE
