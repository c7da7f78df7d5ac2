\* A good release between two bad ones, installed by foreground runs while the daemon
\* goes back from one and starts with the other; two interruptions.
SPECIFICATION MCSpec
CONSTANTS
    Newest = 4
    Bad = {2, 4}
    Actor = {"run"}
    ProbationStarts = 3
    MaxRefused = 1
    MaxReboots = 2
    MaxFailures = 0
INVARIANT FairTrial
