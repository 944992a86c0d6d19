\* Two interrupts and a shutdown against a worker that does as it likes; two lines on
\* stdin; two prompts, a close or a cancel, over a stream that may end.
SPECIFICATION AnswersSpec
CONSTANTS
  Messages = {m1}
  Media = {}
  Calls = {}
  Interrupters = {i1, i2}
  Closer = closer
  Workers = {w1, w2, w3}
  MaxCancels = 2
  MaxTurns = 1
  MaxRetries = 0
  MaxCrashes = 0
  NoTask = none
  Steer = TRUE
PROPERTIES InterruptReturns EofEnds 
CHECK_DEADLOCK FALSE
