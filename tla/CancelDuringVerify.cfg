SPECIFICATION Spec
CONSTANTS
    Worker = {w1, w2}
    MaxRuns = 2
    MaxFaults = 0
    FlushLimit = 2
    BackupResult = {"failed", "complete"}
    Readback = {TRUE}
SYMMETRY WorkerSymmetry
INVARIANT CancelledIsNotUnverified
