\* A backup is still in preparation when another serves its slot: it runs as well.
\* Two slots a day, the second of which the hash may move past midnight; a floor
\* longer than the distance between two slots; one clock set back by half a day.
SPECIFICATION Spec
CONSTANTS
    DayLength = 4
    NumDays = 2
    Times = {0, 3}
    Jitter = 1
    MinInterval = 3
    LookBackDays = 3
    StepBack = 2
    MaxStepsBack = 1
    MaxAttempts = 2
    None = None
PROPERTY SlotsRunOnce
