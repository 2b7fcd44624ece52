CONSTANTS
  K_CARS = 1
  N_CAPACITY = 1
  TicksPerSec = 5
  WAIT_THRESHOLD = 2
  MaxClock = 5
SPECIFICATION Spec
PROPERTY PromotesTheOverdue
