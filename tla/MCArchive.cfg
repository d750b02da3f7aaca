SPECIFICATION Spec
CONSTANTS
  Inputs <- MCInputs
  Dicts <- MCDicts
  Malformed <- MCMalformed
  ChunkSizes = {1, 2, 3}
  Damage = {"body", "index"}
INVARIANTS
  IndexDescribesBody
  ExtractedIsAPrefix
  ExtractedIsAll
  OnlyChunksAreWritten
  IntactFilesAreRead
  DictionaryIsOfTheContent
PROPERTIES
  EveryCommandEnds
