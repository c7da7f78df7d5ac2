\* Two pages open at once: the older answer is judged by the newer head.
SPECIFICATION DiscSpec
CONSTANTS
  Reader = {r1, r2}
  Body = {a, b}
  MaxCount = 3
  Limit = 2
  MaxTampers = 1
  MaxReads = 3
INVARIANT ShrunkIsEvidence
CHECK_DEADLOCK FALSE
