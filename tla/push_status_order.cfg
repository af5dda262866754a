\* One notification, two goroutines, no fault at all.
SPECIFICATION Spec
CONSTANTS
  Jobs = {j1}
  NoJob = NoJob
  Tokens = {t1}
  Requests = {}
  BatchSize = 5
  ChunkSize = 100
  MaxTime = 0
  Faults = {}
PROPERTIES
  StatusFollowsTheList
CHECK_DEADLOCK FALSE
