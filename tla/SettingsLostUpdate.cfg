\* A user who waits for every answer, beside another client and two overlapping reads.
SPECIFICATION Spec
CONSTANTS
  MaxEdits = 2
  MaxOthers = 1
  MaxCalls = 5
  MaxMishaps = 0
  Hasty = FALSE
PROPERTIES NoLostUpdate
CHECK_DEADLOCK FALSE
