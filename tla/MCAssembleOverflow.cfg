SPECIFICATION Spec
CONSTANTS
  Word = 64
  Jobs <- WrappingJobs
  Byte <- MCByte
  KnownChecksumTypes = {"SHA256"}
  Sum <- MCSum
  FetchConcurrency = 2
INVARIANTS
  NeverPanics
