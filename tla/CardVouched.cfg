\* A card, a move, and a card recorded without saying for which bucket.
SPECIFICATION Spec
CONSTANTS
    Bucket = {"home", "fresh"}
    Home = "home"
    Adopted = {}
    Process = {"daemon"}
    Printer = {"page", "--printed"}
    MaxWaiting = 2
    MaxLost = 0
INVARIANTS
    CardNamesItsBucket
