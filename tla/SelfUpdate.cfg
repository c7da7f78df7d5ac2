\* One who updates at a time; two bad versions and a good one; four
\* interruptions, two failures.
SPECIFICATION MCSpec
CONSTANTS
    Newest = 4
    Bad = {2, 3}
    Actor = {"daemon", "run"}
    ProbationStarts = 3
    MaxRefused = 1
    MaxReboots = 4
    MaxFailures = 2
INVARIANTS
    TypeOK
    DaemonHasAWayBack
    HasABinary
    DaemonTriesTheBadOnce
    DaemonTriesFairly
PROPERTIES
    DaemonLeavesTheBad
    DaemonKeepsUp
