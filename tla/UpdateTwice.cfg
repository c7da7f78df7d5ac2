\* The status page installs two releases, and nobody restarts in between.
SPECIFICATION Spec
CONSTANTS
    Newest = 3
    Bad = {2}
    Actor = {"page"}
    ProbationStarts = 3
    MaxRefused = 1
    MaxReboots = 0
    MaxFailures = 0
INVARIANT WayBack
