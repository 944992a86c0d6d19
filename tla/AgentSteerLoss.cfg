\* An input posted while an interrupt reaps the tools.
SPECIFICATION Spec
CONSTANTS
  Messages = {m1, m2}
  Media = {}
  Calls = {c1}
  Interrupters = {i1}
  Closer = closer
  Workers = {w1, w2}
  MaxCancels = 1
  MaxTurns = 1
  MaxRetries = 0
  MaxCrashes = 0
  NoTask = none
  Steer = TRUE
PROPERTIES LeftToSuccessor
CHECK_DEADLOCK FALSE
