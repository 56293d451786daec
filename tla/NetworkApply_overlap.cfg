CONSTANTS
    Cmds = {c1, c2}
    Main = main
    Orphans = {o1, o2}
    Faults <- NoFaults
    PatientUser = FALSE
SPECIFICATION Spec
INVARIANT NeverNamesOtherScheme

