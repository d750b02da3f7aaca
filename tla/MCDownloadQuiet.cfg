SPECIFICATION Spec
CONSTANTS
  Word = 64
  Paths <- MCPaths
  Commands <- QuietCommands
  InitialDisks <- QuietDisks
  ServerContents <- QuietServers
  Sum <- MCSum
  LeadPrefix = 3
  Faulty = FALSE
  MaxCommands = 3
  MaxRepublish = 0
  MaxKills = 0
INVARIANTS
  QuietDownloadSucceeds
  ReportForetellsTheDownload
