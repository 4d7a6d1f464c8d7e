CONSTANTS
    NTargets = 4
    Concurrency = 2
    Failures <- MCFailures
    InFlight <- MCInFlight
SPECIFICATION FairSpec
INVARIANTS
    StrictConcurrencyBound
    CancelStopsContact
    StatusReflectsOutcomes
    ReaderIsTold
PROPERTIES
    DecidedIsQuiet
    ImplementsDeviceRun
