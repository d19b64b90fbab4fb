SPECIFICATION Spec
CONSTANTS
  t1 = t1  t2 = t2  p1 = p1  p2 = p2  b1 = b1  b2 = b2  b3 = b3
  Thread = {t1}
  Proc = {p1}
  ProcOf <- OneThread
  NoProc = NoProc
  Batch = {b1}
  NoBatch = NoBatch
  MaxEvents = 4
  MaxNow = 1
  MaxClockStep = 0
  StaleTimeout = 1
  MaxEventAge = 5
  MaxQueueRows = 2
  MaxEventPayload = 1
  MaxBatchPayload = 50
  BatchOverhead = 1
  BackoffTable <- OneDelay
  Level = {"debug", "info", "fault"}
  Size = {1}
  Limit <- TwoEvents
  HttpStatus = {400}
  Faults = {}
PROPERTIES EvictionSound RowLimitEnforced
