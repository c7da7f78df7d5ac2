\* A machine that was enrolled without a config.toml, on which adopt-enroll is run.
SPECIFICATION Spec
CONSTANTS
    Repository = {"first"}
    Home = "first"
    Folders = {"home"}
    NoFolders = "nothing"
    Request = {r1}
    Config <- NoFile
    Script <- SomeScript
    None = None
PROPERTY ScriptIsNotPutOverAChoice
