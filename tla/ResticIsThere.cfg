SPECIFICATION InstallSpec
CONSTANTS
  Installer = {p1, p2}
  MaxFailures = 1
INVARIANT ResticIsThere
