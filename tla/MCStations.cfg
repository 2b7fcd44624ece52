CONSTANTS
  Vehicles = {c1, c2, c3, c4, c5}
  MECHANIC = 3
  MechanicsStaffed = 2
  DIAGNOSTIC_TABLETS = 2
  TORQUE_WRENCH = 2
  POLLUTION_QUEUE = 2
  TESTER = 2
  TestersStaffed = 1
  POLLUTION_WORKERS = 2
  PAYMENT_BOX = 1
SYMMETRY CarSymmetry
SPECIFICATION Spec
INVARIANT ResourcesConserved
INVARIANT OneStationAtATime
INVARIANT OnlyExcessUnserved
