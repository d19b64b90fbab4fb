SPECIFICATION Spec
CONSTANTS
  BaseDelay = 10
  MaxDelay = 1000
  MinJitter = 3
  AttemptCount <- Attempts
CHECK_DEADLOCK FALSE
INVARIANTS TypeOK DoublesUpToMax ResultBounded
