CONSTANTS
  None = None  Torn = Torn
  MaxMessageSize = 64
  SeqMod = 16
  SeqLimit = 3
  NumChan = 1
  Large = {}
  LargeSize = 40
  LargeDisc = TRUE
  MaxVersion = 4
  MaxStartup = 2
  NetCap = 3
  Window = 2
  MaxLoss = 1
  MaxDup = 0
  Chan <- MCChan
  Value <- MCValue
  InitValue <- MCInit
  Disc <- MCDisc
  Size <- MCSize
  Succ <- MCSucc
  Version <- MCVersion
SPECIFICATION Spec
PROPERTIES NoStaleUpdate
