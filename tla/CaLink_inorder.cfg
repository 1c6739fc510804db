CONSTANTS
  None = None  Torn = Torn
  MaxMessageSize = 64
  SeqMod = 8
  SeqLimit = 8
  NumChan = 2
  Large = {2}
  LargeSize = 40
  LargeDisc = TRUE
  MaxVersion = 1
  MaxStartup = 2
  NetCap = 1
  Window = 1
  MaxLoss = 1
  MaxDup = 0
  Chan <- MCChan
  Value <- MCValue
  InitValue <- MCInit
  Disc <- MCDisc
  Size <- MCSize
  Succ <- MCSucc
  Version <- MCVersion
SPECIFICATION FairSpec
INVARIANTS TypeOK
PROPERTIES Converges InOrderApplied
