SPECIFICATION Spec
CONSTANTS
  GroupBits = 2
  MaxCompressedIntLen = 4
  Files <- ForeignFiles
  DigestSize <- MCDigestSize
  Hash <- MCHash
INVARIANTS
  DownloadedFilesExtract
