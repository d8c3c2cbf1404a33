\* Two scripts that keep to get_seqno("stack") and to their own numbers; no
\* symmetry, because of the liveness property.
CONSTANTS
  Workers = {w1, w2}
  Fields = {f1}
  Values = {v1}
  Empty = Empty
  NoWorker = NoWorker
  Modes = {"stack"}
  Disciplined = TRUE
  MayRaise = FALSE
  MaxSeq = 2
SPECIFICATION FairSpec
INVARIANTS NumbersDistinct SessionIsolation
PROPERTY LockIsFreed
