\* Nobody need open a page, run a command or fail again: all five may stop.
SPECIFICATION Spec
CONSTANTS
  Process = {daemon, command}
  MaxReports = 3
  Keep = 1
  MaxFaults = 1
  Reader = {r1, r2}
  Body = {a, b}
  MaxCount = 3
  Limit = 2
  MaxTampers = 1
  MaxReads = 2
  NumPlaces = 2
  Legacy = legacy
  Beside = beside
  Fresh = fresh
  None = none
  MaxCodes = 2
  MaxMishaps = 1
  Tab = {t1, t2}
  Offered <- SomeOffer
  Custom = "custom"
  Patterns = {"junk"}
  Junk = {"junk"}
  Lists = {"mine"}
  NoList = "none"
  MaxSaves = 1
  Installer = {i1, i2}
  MaxFailures = 2
INVARIANTS NothingIsLost Vouched AlarmsHaveACause HistoryIsContinued CodesAreNotWasted StillPageIsRight ResticIsKept
PROPERTY Drains
CHECK_DEADLOCK FALSE
