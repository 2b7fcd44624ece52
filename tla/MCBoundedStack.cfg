CONSTANTS
  Threads = {t1, t2, t3}
  N = 2
  Values = {v1, v2}
SPECIFICATION Spec
INVARIANT StackInv
INVARIANT StuckOnlyAtLimit
PROPERTY ImplementsStack
