CONSTANTS
  Lines <- MCLines
  Names <- MCNames
  Octal <- MCOctal
  Chunks <- MCChunks
  Contents <- MCContents
  Anything <- MCAnything
  FileSize = 5
  MaxLines = 5
SPECIFICATION FairSpec
INVARIANT OneInForeground
INVARIANT EffectAsNamed
PROPERTY EveryCommandReturns
