CONSTANTS
    d1 = d1
    d2 = d2
    Devices <- MCDevices
    FilesPerDevice = 1
    MaxRuns = 2
SPECIFICATION Spec
INVARIANTS
    CardShowsCurrentRun
