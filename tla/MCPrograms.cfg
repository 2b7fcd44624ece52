CONSTANTS
  MaxPrinted = 9
  Size = 3
  MaxCount = 2
  N = 3
  M = 2
  Values = {0, 1}
  Terms = 10
  Depths = {0, 1, 2, 3, 4}
  MaxLevels = 4
  Source <- MCSource
  Sizes = {1, 2, 3, 7}
  Strings <- MCStrings
  MaxRuns = 2
  Candidates <- MCCandidates
  Passcode <- Cyber1234
  Examples <- MCExamples
  Vectors <- MCVectors
SPECIFICATION ProgramsSpec
INVARIANT TotalOfPrinted
INVARIANT PrintsDownwards
INVARIANT EndsBottomUp
INVARIANT CopyComplete
INVARIANT OpensToThePasscode
INVARIANT MatchesRFC8439
PROPERTY PrintsABCC
PROPERTY SnapshotsGrow
