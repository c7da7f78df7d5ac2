\* A foreground backup that updates, and nothing that fails.
SPECIFICATION Spec
CONSTANTS
    Newest = 2
    Bad = {2}
    Actor = {"run"}
    ProbationStarts = 3
    MaxRefused = 1
    MaxReboots = 0
    MaxFailures = 0
INVARIANT BelievedVersionsWork
