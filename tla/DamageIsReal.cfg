\* The daemon and a foreground run, two buckets, and one thing that goes wrong.
SPECIFICATION Spec
CONSTANTS
    Proc = {"daemon", "foreground"}
    Repository = {"old", "new"}
    Home = "old"
    MaxFaults = 1
    Daemon = "daemon"
    None = None
INVARIANTS
    DamageIsReal
