SPECIFICATION FairSpec
CONSTANTS
  Word = 64
  Jobs <- MCJobs
  Byte <- MCByte
  KnownChecksumTypes = {"SHA256"}
  Sum <- MCSum
  FetchConcurrency = 2
INVARIANTS
  FetchBound
  NoWorkerOutlivesTheCall
  SplitReadsASettledResult
  PanicsOnlyOnOverflow
  OutIsAPrefixOfTheBody
  SuccessIsTheWholeBody
  IInv
PROPERTIES
  ImplementsVerifiedStream
  Termination
  HonestCallDelivers
