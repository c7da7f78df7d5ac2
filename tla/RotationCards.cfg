\* Two buckets, every way to record a card, a move that completes, and what it promises.
SPECIFICATION Spec
CONSTANTS
    Bucket = {"home", "fresh"}
    Home = "home"
    Adopted = {}
    Process = {"daemon"}
    Printer = {"page", "--printed"}
    MaxWaiting = 1
    MaxLost = 0
INVARIANTS
    IssuedIsOnPaper
PROPERTIES
    MoveCompletes
    ImplementsHandover
