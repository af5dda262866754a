\* Safety: one notification and three devices, posted in chunks of two.
SPECIFICATION Spec
CONSTANTS
  Jobs = {j1}
  NoJob = NoJob
  Tokens = {t1, t2, t3}
  Requests = {r1}
  BatchSize = 1
  ChunkSize = 2
  MaxTime = 0
  Faults = {"crash", "db", "expo"}
SYMMETRY Interchangeable
INVARIANTS
  CountIsHonest
  OnlyReportedTokensAreOff
CHECK_DEADLOCK FALSE
