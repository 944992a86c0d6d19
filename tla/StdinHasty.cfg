\* A packet of the terminal follows an Esc key within its hold.
SPECIFICATION Spec
CONSTANTS
  MaxItems = 2
  BodyMax = 3
  Hasty = TRUE
INVARIANTS NothingLeaks
CHECK_DEADLOCK FALSE
