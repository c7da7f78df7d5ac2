\* Two goroutines, two attempts, one fault, everything restic may answer.
SPECIFICATION Spec
CONSTANTS
    Worker = {w1, w2}
    MaxRuns = 2
    MaxFaults = 1
    FlushLimit = 2
    BackupResult = {"scratch", "failed", "incomplete", "complete", "fellback"}
    Readback = {TRUE, FALSE}
SYMMETRY WorkerSymmetry
INVARIANTS
    TypeOK
    SingleFlight
    CancelReachesTheRun
    OpenRowsAreOwned
    OneRowPerAttempt
    HeardIsFinal
    ReportedWasHeard
