SPECIFICATION Spec
CONSTANTS
  GroupBits = 2
  MaxCompressedIntLen = 4
  Files <- AllFiles
  DigestSize <- MCDigestSize
  Hash <- MCHash
INVARIANTS
  WrittenHeadersAreReadBack
  ChangedHeadersAreRefused
  NothingIsLostInReading
  ReadersAgree
