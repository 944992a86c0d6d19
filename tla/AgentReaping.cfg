\* A tool that swallows its cancellation, while an interrupt reaps the round.
SPECIFICATION StubbornSpec
CONSTANTS
  Messages = {m1}
  Media = {}
  Calls = {c1, c2}
  Interrupters = {i1}
  Closer = closer
  Workers = {w1, w2}
  MaxCancels = 2
  MaxTurns = 1
  MaxRetries = 0
  MaxCrashes = 0
  NoTask = none
  Steer = TRUE
PROPERTIES ReapingEnds
CHECK_DEADLOCK FALSE
