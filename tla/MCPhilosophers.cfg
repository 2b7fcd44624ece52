CONSTANTS
  N = 3
  Leftover = {1, 2}
SPECIFICATION FairSpec
INVARIANT TableInv
INVARIANT HungryForAReason
PROPERTY ImplementsTable
PROPERTY TableMoves
\* threads that share a seat may all wait for ever
CHECK_DEADLOCK FALSE
