\* A pool of three, as the tid[1000] of main() leaves room for.
CONSTANTS
  Workers = {w1, w2, w3}
  MaxEdits = 2
SPECIFICATION Spec
INVARIANTS OneStatePerWorker TermHonoured
SYMMETRY Symmetry
CHECK_DEADLOCK FALSE
