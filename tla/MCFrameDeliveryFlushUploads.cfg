SPECIFICATION Spec
CONSTANTS
  Frames <- MCThreeFrames
  Cameras = {"c1", "c2"}
  CamOf <- MCCamOf
  Sig <- MCSig
  HasFallback = TRUE
  MaxRetries = 2
  Threshold = 2
  MaxPerMin = 1
  Max422 = 1
  Capacity = 1
  EvictBatch = 1
  MaxOutages = 1
  MaxFaults = 1
CHECK_DEADLOCK FALSE
INVARIANTS FlushUploads

