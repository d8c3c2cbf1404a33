\* Two scripts that call anything with any number; what they store is one text.
\* Lua may raise a memory error inside get_value's critical section; the mutex
\* it leaves locked then blocks every worker, so the system may stop.
CONSTANTS
  Workers = {w1, w2}
  Fields = {f1}
  Values = {}
  Empty = Empty
  NoWorker = NoWorker
  Modes = {"stack", "counter"}
  Disciplined = FALSE
  MayRaise = TRUE
  MaxSeq = 2
SPECIFICATION Spec
INVARIANT StackNeverEmpty
PROPERTY LeakFreezesStore
SYMMETRY Symmetry
CHECK_DEADLOCK FALSE
