\* Two threads, of whose calls of main() one may fail, between native calls or
\* inside get_value; the program may end, or hang on the mutex that is left locked.
CONSTANTS
  Workers = {w1, w2}
  f1 = f1
  ScriptFields <- OneField
  Text = text
  Empty = Empty
  NoWorker = NoWorker
  MayRaise = TRUE
  MaxEdits = 1
  MaxFailures = 1
  MaxSeq = 9
SPECIFICATION Spec
INVARIANTS NumbersBounded NodesBounded
PROPERTY ImplementsStore
SYMMETRY Symmetry
CHECK_DEADLOCK FALSE
