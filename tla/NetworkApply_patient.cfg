CONSTANTS
    Cmds = {c1, c2}
    Main = main
    Orphans = {o1, o2}
    Faults <- AllFaults
    PatientUser = TRUE
SPECIFICATION Spec
INVARIANT AppliedMeansConfigured
INVARIANT OneScheme
INVARIANT AddressTypeTruthful
