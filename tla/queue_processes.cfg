SPECIFICATION LiveSpec
CONSTANTS
  t1 = t1  t2 = t2  p1 = p1  p2 = p2  b1 = b1  b2 = b2  b3 = b3
  Thread = {t1, t2}
  Proc = {p1, p2}
  ProcOf <- TwoProcesses
  NoProc = NoProc
  Batch = {b1, b2}
  NoBatch = NoBatch
  MaxEvents = 1
  MaxNow = 2
  MaxClockStep = 0
  StaleTimeout = 1
  MaxEventAge = 1
  MaxQueueRows = 5
  MaxEventPayload = 1
  MaxBatchPayload = 50
  BatchOverhead = 1
  BackoffTable <- OneDelay
  Level = {"info"}
  Size = {1}
  Limit <- TwoEvents
  HttpStatus = {400, 503}
  Faults = {"alloc"}
INVARIANT AttemptsJustified
PROPERTY ClaimsEnd
