SPECIFICATION Spec
CONSTANTS
  Word = 64
  Paths <- MCPaths
  Commands <- ResumeCommands
  InitialDisks <- EmptyDisk
  ServerContents <- QuietServers
  Sum <- MCSum
  LeadPrefix = 3
  Faulty = FALSE
  MaxCommands = 2
  MaxRepublish = 0
  MaxKills = 1
INVARIANTS
  LocalMeansPresent
