\* A first bucket and two that may be offered, one with history; one gets emptied.
SPECIFICATION Spec
CONSTANTS
    Bucket = {"home", "fresh", "adopted"}
    Home = "home"
    Adopted = {"adopted"}
    Process = {"daemon"}
    Printer = {}
    MaxWaiting = 2
    MaxLost = 1
INVARIANTS
    Protected
    NothingMovesUnasked
PROPERTIES
    CreatedOnlyWhereSent
