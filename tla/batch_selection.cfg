SPECIFICATION Spec
CONSTANTS
  MaxRows = 4
  Size = {2, 3, 6, 9}
  Parses = {TRUE, FALSE}
  EventLimit = {0, 1, 3, 5}
  ByteLimit = {0, 6, 8, 12}
  BatchOverhead = 2
CHECK_DEADLOCK FALSE
INVARIANTS ClaimedIsSent WithinLimits FirstInFirstOut ComputesClaim
