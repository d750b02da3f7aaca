SPECIFICATION FeedSpec
CONSTANTS
  GroupBits = 2
  MaxCompressedIntLen = 4
INVARIANTS
  NoBitIsLost
  NothingElseIsRefused
  AppendedIsTheShortest
