\* Two offers at a time, and the older of them accepted last.
SPECIFICATION Spec
CONSTANTS
    Bucket = {"home", "second", "third", "fourth"}
    Home = "home"
    Adopted = {"second", "third", "fourth"}
    Process = {"daemon"}
    Printer = {}
    MaxWaiting = 2
    MaxLost = 0
INVARIANTS
    NotHandedBack
