\* The power fails while the second start of a bad version is being counted: its
\* probation file is empty, and the next start removes the way back.
SPECIFICATION MCSpec
CONSTANTS
    Newest = 2
    Bad = {2}
    Actor = {"daemon"}
    ProbationStarts = 3
    MaxRefused = 1
    MaxReboots = 1
    MaxFailures = 0
PROPERTY BadDoesNotStayForgotten
