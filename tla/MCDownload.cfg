SPECIFICATION Spec
CONSTANTS
  Word = 64
  Paths <- MCPaths
  Commands <- RetryCommands
  InitialDisks <- RetryDisks
  ServerContents <- RetryServers
  Sum <- MCSum
  LeadPrefix = 3
  Faulty = TRUE
  MaxCommands = 3
  MaxRepublish = 1
  MaxKills = 1
INVARIANTS
  DiskHoldsVerifiedPrefixes
PROPERTIES
  OnlyOutIsLost
