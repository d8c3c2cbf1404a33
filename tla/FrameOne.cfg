\* The one thread of main(), under fairness.
CONSTANTS
  Workers = {w1}
  f1 = f1
  ScriptFields <- OneField
  Text = text
  Empty = Empty
  NoWorker = NoWorker
  MayRaise = FALSE
  MaxEdits = 2
  MaxFailures = 2
  MaxSeq = 9
SPECIFICATION FairSpec
PROPERTIES TermStops UpdateLoads
CHECK_DEADLOCK FALSE
