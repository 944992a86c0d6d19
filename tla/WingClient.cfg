\* Every part of the client by itself.
SPECIFICATION ClientSpec
CONSTANTS
  Prompts = {p1, p2}
  Loads = {l1}
  Closes = {c1}
  NoTask = none
  MaxEntries = 2
  MaxMishaps = 2
  EventBuffer = 6
  OutboundBuffer = 1
  WsMayDie = TRUE
  TailInTime = TRUE
  ClientOverlaps = FALSE
  MaxLines = 2
  StreamMayEnd = TRUE
  MaxTurns = 2
  MaxDeltas = 2
  MaxRounds = 2
  Sessions = {"A", "B"}
  Home = "A"
  MaxSends = 2
  MaxAsks = 1
  MaxSwitches = 1
  MaxTuiMishaps = 1
  MaxEdits = 2
  MaxOthers = 1
  MaxCalls = 3
  MaxSaveMishaps = 1
  MaxEvents = 3
  MaxCount = 3
  MaxChunks = 2
  Limit = 3
  MaxItems = 3
  BodyMax = 3
SYMMETRY Symmetry
INVARIANTS ClientTypeOK ReceiverHoldsGate RefusedIsUnsent  
  ForwardedInOrder  RequestsAnswered FramesNest OneResultPerTurn
  NeverSentTwice ShownOnce NothingOutlivesTheTurn  StreamIsWhole BytesAreSorted
PROPERTIES NothingArmedAfterClose ReasonTellsPhase NoUncrossedLoss
CHECK_DEADLOCK FALSE
