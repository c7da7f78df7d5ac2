\* The timer of one update fires half-way through the swap of the next, whose second
\* rename fails.
SPECIFICATION MCSpec
CONSTANTS
    Newest = 3
    Bad = {}
    Actor = {"daemon"}
    ProbationStarts = 3
    MaxRefused = 1
    MaxReboots = 0
    MaxFailures = 1
INVARIANT PutBack
