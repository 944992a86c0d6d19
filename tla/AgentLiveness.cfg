\* A queued input is consumed, through an interrupt, a crash and a shutdown.
SPECIFICATION FairSpec
CONSTANTS
  Messages = {m1, m2}
  Media = {}
  Calls = {c1}
  Interrupters = {i1}
  Closer = closer
  Workers = {w1, w2, w3}
  MaxCancels = 1
  MaxTurns = 1
  MaxRetries = 0
  MaxCrashes = 1
  NoTask = none
  Steer = TRUE
PROPERTIES InputsAreConsumed
CHECK_DEADLOCK FALSE
