\* Liveness: without crash or database fault, two notifications, one device.
SPECIFICATION FairSpec
CONSTANTS
  Jobs = {j1, j2}
  NoJob = NoJob
  Tokens = {t1}
  Requests = {}
  BatchSize = 1
  ChunkSize = 1
  MaxTime = 1
  Faults = {"conn", "expo"}
PROPERTIES
  ScheduledIsSettled
  BadTokenIsSwitchedOff
CHECK_DEADLOCK FALSE
