SPECIFICATION Spec
CONSTANTS
  Corpora <- MCCorpora
  Targets = {0, 1, 4, 9}
  DmerLen = 2
  SegLen = 3
  Word = 4
INVARIANTS
  ScoreIsTheValue
  BestIsTheBest
  PicksGetWorse
  NothingOfValueIsLeft
PROPERTIES
  SelectionEnds
