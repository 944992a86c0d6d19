\* Three inputs, one with media, merged or steered into rounds of two tool calls; one
\* interrupt and a shutdown.
SPECIFICATION Spec
CONSTANTS
  Messages = {m1, m2, m3}
  Media = {m2}
  Calls = {c1, c2}
  Interrupters = {i1}
  Closer = closer
  Workers = {w1, w2}
  MaxCancels = 1
  MaxTurns = 2
  MaxRetries = 0
  MaxCrashes = 0
  NoTask = none
  Steer = TRUE
SYMMETRY TurnSymmetry
INVARIANTS TypeOK Paired OneHome Fifo
PROPERTIES KeepsPromise
CHECK_DEADLOCK FALSE
