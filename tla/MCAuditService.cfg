CONSTANTS
    NTargets = 2
    Concurrency = 2
    Failures <- MCFailures
    InFlight <- InFlightStatuses
    NCommands = 2
SPECIFICATION FairAuditSpec
INVARIANTS
    EvidenceBeforeJudgement
    EvidenceIsOfFullCollection
    AtMostOneMoreCommand
PROPERTIES
    ImplementsOrchestrator
