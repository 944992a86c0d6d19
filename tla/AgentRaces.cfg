\* Two interrupts, a shutdown and a crash race over one worker, which may retry.
SPECIFICATION Spec
CONSTANTS
  Messages = {m1}
  Media = {}
  Calls = {c1}
  Interrupters = {i1, i2}
  Closer = closer
  Workers = {w1, w2, w3, w4}
  MaxCancels = 2
  MaxTurns = 2
  MaxRetries = 1
  MaxCrashes = 1
  NoTask = none
  Steer = TRUE
SYMMETRY Symmetry
INVARIANTS OneConsumer NoZombie AsksAreAnswerable
PROPERTIES NoRevival DroppedOnEntry
CHECK_DEADLOCK FALSE
