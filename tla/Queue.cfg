\* Three sends of two callers, one removal, no messages of others.  A caller may
\* wait for ever, so the system may stop.
CONSTANTS
  Procs = {p1, p2}
  SendTypes <- MCSendTypes
  RecvTypes <- MCRecvTypes
  TextLens = {1}
  MaxMsgLen = 8
  LongSize = 4
  Word = 65536
  MsgMax = 16
  Capacity = 2
  Foreign = {}
  MaxSends = 3
  MaxForeign = 0
  MaxRemovals = 1
SPECIFICATION Spec
INVARIANTS SentAccounted LossNeedsCreate
SYMMETRY Symmetry
CHECK_DEADLOCK FALSE
