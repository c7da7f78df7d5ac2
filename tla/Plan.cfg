\* Two buckets, one list of folders beside the empty one, one request of the page
\* at a time beside a run and an enrol command.
SPECIFICATION Spec
CONSTANTS
    Repository = {"first", "second"}
    Home = "first"
    Folders = {"home"}
    NoFolders = "nothing"
    Request = {r1}
    Config <- SomeConfig
    Script <- SomeScript
    None = None
INVARIANTS
    EditsKept
    GateHolds
PROPERTIES
    EnrolledHasAPlan
