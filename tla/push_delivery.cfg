\* Safety: two goroutines and a Send request over two notifications and one
\* device, with every kind of fault.
SPECIFICATION Spec
CONSTANTS
  Jobs = {j1, j2}
  NoJob = NoJob
  Tokens = {t1}
  Requests = {r1}
  BatchSize = 2
  ChunkSize = 1
  MaxTime = 1
  Faults = {"crash", "db", "conn", "expo", "cancel"}
INVARIANTS
  TypeOK
  NotBeforeDue
  AtMostOncePerSender
  DeliveredIsNeverPolled
  DirectSendStaysWithItsRequest
PROPERTIES
  ImplementsLedger
CHECK_DEADLOCK FALSE
