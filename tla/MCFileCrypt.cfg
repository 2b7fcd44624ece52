CONSTANTS
  Data <- MCData
  Plain <- MCPlain
  Passphrases <- MCPassphrases
  KEY_SIZE = 3
  MIN_KEY_CHARS = 2
  Nonces <- MCNonces
  NONCE_SIZE = 2
  CHACHA_BLOCK = 2
  BUFFER = 5
  CounterValues = 2
  MaxRuns = 4
SPECIFICATION Spec
INVARIANT Complete
INVARIANT RoundTrip
INVARIANT KeystreamUsedOnce
PROPERTY OldOutputKept
