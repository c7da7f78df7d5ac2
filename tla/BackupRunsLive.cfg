SPECIFICATION LiveSpec
CONSTANTS
    Worker = {w1}
    MaxRuns = 2
    MaxFaults = 1
    FlushLimit = 1
    BackupResult = {"failed", "complete"}
    Readback = {TRUE}
PROPERTIES
    EventuallyReported
    EventuallyReleased
    ImplementsLedger
