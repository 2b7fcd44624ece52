CONSTANTS
  K_CARS = 4
  MaxTime = 1
SPECIFICATION Spec
INVARIANT ArrayInv
PROPERTY ComputesOperators
PROPERTY SortsStably
