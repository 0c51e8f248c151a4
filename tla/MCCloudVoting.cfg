SPECIFICATION DetectionSpec
CONSTANTS
  Streams = {"k1"}
  Runs = {1}
  VotesK = 2
  VotesM = 2
  MaxLogs = 3
  MaxStarts = 1
  MaxSeconds = 1
  MaxBreaks = 0
CHECK_DEADLOCK FALSE
INVARIANTS HeldBackLacksWater
