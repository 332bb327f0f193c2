SPECIFICATION FairSpec
CONSTANTS
  Channels = {"tcp"}
  Reads <- MCReads
  RowCount = 10
  RowSize = 2
  HeaderSize = 1
  RowsToPdu = 8
  MaxPduSize = 18
  CipherHeader = 1
  SizeBytes = 1
  MaxBlock = 3
INVARIANT ReadStaysInInterval
