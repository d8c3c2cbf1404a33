\* The collector: three heaps, and two operations of the program anywhere in and
\* between its steps.  Tables: five keys, some of which collide.  Calls: two
\* coroutines, and overflows of a C stack of four.  The loader: two names and
\* all that may be found for them (a file, a library, neither).
CONSTANTS
  A = A
  B = B
  Kt = Kt
  Ud = Ud
  Ud2 = Ud2
  S1 = S1
  S2 = S2
  F = F
  P = P
  X = X
  F2 = F2
  X2 = X2
  T = T
  C = C
  Nil = Nil
  Obj <- MCObj
  Tt <- MCTt
  MainThread = T
  GcMeta <- MCGcMeta
  Written <- MCWritten
  NodeKeys <- MCKeys
  Mode <- MCMode
  Hash <- MCHash
  Heaps <- MCHeaps
  MaxOps = 2
  MaxSteps = 100
  Main = Main
  Cos = {c1, c2}
  MaxC = 4
  Extra = 3
  MaxFrames = 3
  Ints = {1, 2, 3}
  Others <- MCOthers
  StringKeys <- MCStringKeys
  KeyHash <- MCKeyHash
  Sizes <- MCSizes
  Names = {"b", "b.c"}
  Worlds <- MCWorlds
  Root <- MCRoot
  MaxRun = 2
  MaxUdata = 2
SPECIFICATION MCSpec
INVARIANTS NoDangling TriColor TableIsMap TraversalComplete DepthCounted
  CoroutinesSound NoReentry UnloadedLast
PROPERTIES CollectIsComplete FinalizedOnce
CHECK_DEADLOCK FALSE
