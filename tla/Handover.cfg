\* Three buckets, one on offer at a time: two moves, one after the other.
SPECIFICATION Spec
CONSTANTS
    Bucket = {"home", "fresh", "adopted"}
    Home = "home"
    Adopted = {"adopted"}
    Process = {"daemon"}
    Printer = {}
    MaxWaiting = 1
    MaxLost = 0
INVARIANTS
    NotHandedBack
    RequestsGetAnswered
PROPERTIES
    ImplementsHandover
