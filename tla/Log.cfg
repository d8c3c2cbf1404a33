\* A buffer of five bytes; messages that fit, fill it, and are too long for it.
\* A closed handle is the end, as is a failed write.
CONSTANTS
  BufSize = 5
  Slack = 2
  Lengths = {1, 2, 4, 5}
  LevelArgs <- MCLevelArgs
  MaxBytes = 7
SPECIFICATION Spec
INVARIANTS BufferBounds FileIsLog NoJunk
PROPERTY InFlightUntouched
CHECK_DEADLOCK FALSE
