CONSTANTS
  Cars = {c1, c2, c3, c4}
  Size = 3
  Staffed = 2
  Permits = 3
SPECIFICATION FairSpec
INVARIANT IInv
INVARIANT SlotsMatchOwners
PROPERTY ImplementsAssignment
PROPERTY SearchEnds
