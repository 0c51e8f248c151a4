SPECIFICATION SwapSpec
CONSTANTS
  Versions = {"m1"}
  Segmenting = {}
  Fetches = {1}
  NoVersion = "none"
  MaxAsked = 2
  MaxServerStarts = 1
CHECK_DEADLOCK FALSE
INVARIANTS ClassesTakeEffect
