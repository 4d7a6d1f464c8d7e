CONSTANTS
    NTargets = 2
    NCommands = 2
    DirOf <- OwnDirs
    Failures <- MCFailures
    MaxFaults = 0
SPECIFICATION Spec
INVARIANTS
    ActiveRunIsKept
