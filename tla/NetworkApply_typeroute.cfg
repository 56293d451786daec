CONSTANTS
    Cmds = {c1, c2}
    Main = main
    Orphans = {o1, o2}
    Faults <- RouteFault
    PatientUser = TRUE
SPECIFICATION Spec
INVARIANT NeverNamesOtherScheme

