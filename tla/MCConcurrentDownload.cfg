SPECIFICATION ConcurrentSpec
CONSTANTS
  Word = 64
  Paths <- MCPaths
  Commands <- WeakCommands
  InitialDisks <- WeakDisks
  ServerContents <- WeakServers
  Sum <- MCSum
  LeadPrefix = 3
  Faulty = TRUE
  MaxCommands = 1
  MaxRepublish = 1
  MaxKills = 1
  FetchConcurrency = 1
INVARIANTS
  SuccessIsTheWholeFile
PROPERTIES
  ImplementsDownload
  EveryCommandEnds
