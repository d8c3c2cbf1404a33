\* Messages of other programs, well-formed or not, and texts at the limits (the
\* longest and one byte too long) on a 64-bit build.
CONSTANTS
  Procs = {p1, p2}
  SendTypes = {0, 1}
  RecvTypes = {0}
  TextLens = {7, 8}
  MaxMsgLen = 8
  LongSize = 8
  Word = 65536
  MsgMax = 26
  Capacity = 2
  Foreign <- RawMessages
  MaxSends = 1
  MaxForeign = 2
  MaxRemovals = 1
SPECIFICATION FairSpec
INVARIANT ReplyInside
PROPERTY NoWaitReturns
CHECK_DEADLOCK FALSE
