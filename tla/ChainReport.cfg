\* A report that could not be written, the turn after it, and a restart.
SPECIFICATION Spec
CONSTANTS
  None = none
  Window = 3
  Keep = 1
  Mishaps = {"lost_report"}
  MaxNodes = 5
  MaxExtras = 3
INVARIANTS LostReportIsAllThatIsLost
CHECK_DEADLOCK FALSE
