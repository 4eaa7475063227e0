SPECIFICATION ScanSpec
CONSTANTS
  Load = {0, 50, 89, 90}
  MaxSlaves = 3
INVARIANTS
  ScanCorrect
CHECK_DEADLOCK FALSE
