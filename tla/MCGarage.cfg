CONSTANTS
  Vehicles = {1, 2, 3}
  K_CARS = 3
  N_CAPACITY = 2
  TicksPerSec = 1
  WAIT_THRESHOLD = 1
  MaxClock = 0
  MECHANIC = 2
  MechanicsStaffed = 1
  DIAGNOSTIC_TABLETS = 1
  TORQUE_WRENCH = 1
  POLLUTION_QUEUE = 1
  TESTER = 2
  TestersStaffed = 2
  POLLUTION_WORKERS = 2
  PAYMENT_BOX = 1
SPECIFICATION FairSpec
INVARIANT OnlyAdmittedInside
INVARIANT ClosesClean
INVARIANT NeverStuck
PROPERTY Closes
