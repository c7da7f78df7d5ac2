\* The daemon and a foreground run, two buckets, and three things that go wrong.
SPECIFICATION Spec
CONSTANTS
    Proc = {"daemon", "foreground"}
    Repository = {"old", "new"}
    Home = "old"
    MaxFaults = 3
    Daemon = "daemon"
    None = None
INVARIANTS
    LockIsNotDamage
PROPERTIES
    RotIsFound
    FalseAlarmPasses
