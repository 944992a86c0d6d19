\* Turns, compactions, rewinds and restarts, with a mishap of any kind.
SPECIFICATION Spec
CONSTANTS
  None = none
  Window = 3
  Keep = 1
  Mishaps = {"lost_report", "lost_write", "lost_root", "half_batch", "overtaken", "moved_call", "stale_aux"}
  MaxNodes = 6
  MaxExtras = 2
INVARIANTS TypeOK ReloadGivesTheSameChain AllAccounted NothingRevived WellPaired UsageMeasuresThisWindow SummariesUnzip
CHECK_DEADLOCK FALSE
