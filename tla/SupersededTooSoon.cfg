\* Two moves in a row, the owner's page printed after the first.
SPECIFICATION Spec
CONSTANTS
    Bucket = {"home", "second", "third"}
    Home = "home"
    Adopted = {"second", "third"}
    Process = {"daemon"}
    Printer = {"page"}
    MaxWaiting = 1
    MaxLost = 0
INVARIANTS
    SupersededPaperIsDead
