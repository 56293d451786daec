CONSTANTS
    Cmds = {c1, c2}
    Main = main
    Orphans = {o1}
    Faults <- AllButLink
    PatientUser = FALSE
SPECIFICATION FairSpec
INVARIANT TypeOK
INVARIANT ButtonTruthful
INVARIANT AtMostOneClient
INVARIANT RequestingIsUnderWay
PROPERTY NoBackgroundChange
PROPERTY RestartIsDHCP
PROPERTY RequestEnds
PROPERTY TuiComesBack
PROPERTY KeepsButtonPromise
