SPECIFICATION AdoptSpec
CONSTANTS
  NumPlaces = 2
  Legacy = legacy
  Beside = beside
  Fresh = fresh
  None = none
  MaxCodes = 2
  MaxMishaps = 1
INVARIANT NeverCalledNew
