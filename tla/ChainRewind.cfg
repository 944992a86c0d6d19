\* A rewind while a manual compaction waits for the model.
SPECIFICATION Spec
CONSTANTS
  None = none
  Window = 3
  Keep = 1
  Mishaps = {"overtaken"}
  MaxNodes = 5
  MaxExtras = 3
INVARIANTS RewindSticks
CHECK_DEADLOCK FALSE
