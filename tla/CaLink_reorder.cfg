CONSTANTS
  None = None  Torn = Torn
  MaxMessageSize = 64
  SeqMod = 16
  SeqLimit = 5
  NumChan = 1
  Large = {1}
  LargeSize = 60
  LargeDisc = FALSE
  MaxVersion = 3
  MaxStartup = 1
  NetCap = 2
  Window = 2
  MaxLoss = 1
  MaxDup = 1
  Chan <- MCChan
  Value <- MCValue
  InitValue <- MCInit
  Disc <- MCDisc
  Size <- MCSize
  Succ <- MCSucc
  Version <- MCVersion
SPECIFICATION Spec
INVARIANTS FragmentsIntact
