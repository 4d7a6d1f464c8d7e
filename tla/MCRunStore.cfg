CONSTANTS
    NTargets = 2
    NCommands = 2
    DirOf <- OwnDirs
    Failures <- MCFailures
    MaxFaults = 1
SPECIFICATION FairSpec
INVARIANTS
    TypeOK
    EvidenceIsBacked
    HistoryIsVerifiable
    ClosedRunIsSettled
    BeginIsAllOrNothing
    CompleteIsTraceable
    CompletedIsNotRelabelled
PROPERTIES
    BundleIsFrozen
    OutcomesStay
    EveryRunCloses
