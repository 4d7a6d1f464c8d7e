CONSTANTS
    NTargets = 3
    Concurrency = 2
    Failures <- MCFailures
    InFlight <- MCInFlight
SPECIFICATION Spec
INVARIANTS
    CancelledTargetsAreAnnounced
