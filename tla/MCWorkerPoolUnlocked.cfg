CONSTANTS
  Cars = {c1, c2}
  Size = 2
  Staffed = 2
  Permits = 2
SPECIFICATION Spec
PROPERTY WritesHoldMutex
