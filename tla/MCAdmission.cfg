CONSTANTS
  K_CARS = 3
  N_CAPACITY = 2
  TicksPerSec = 1
  WAIT_THRESHOLD = 1
  MaxClock = 1
SPECIFICATION Spec
INVARIANT IInv
PROPERTY BestFirst
PROPERTY PriorityFrozen
PROPERTY ImplementsInstitute
