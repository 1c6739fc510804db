CONSTANTS
  t0 = t0  t1 = t1  t2 = t2
  Torn = Torn  NoType = NoType  NoValue = NoValue
  NotServed = NotServed  Closed = Closed
  Default = 0
  Type = {t0, t1}
  MaxMessageSize = 56
  SeqMod = 5
  FieldBytes = 6
  MaskBytes = 1
  NumChan = 2
  First = {0}
  Second = {}
  NumFields = 1
  AllMarked = TRUE
  HbIterations = 2
  NetCap = 1
  SeqLimit = 5
  Window = 1
  MaxEvents = 2
  FirstChanges = 1
  OtherChanges = 1
  MaxConnect = 1
  MaxStartup = 1
  Counted = FALSE
  MaxLoss = 1
  MaxDup = 0
  MaxSilence = 0
  Chan <- MCChan
  MaxChange <- MCMaxChange
  Field <- MCField
  Data <- MCData
  Builtin <- MCBuiltin
  TypesOf <- MCTypesOf
  FirstMarked <- MCFirstMarked
  TypeBytes <- MCTypeBytes
SPECIFICATION FairSpec
PROPERTIES Converges
CHECK_DEADLOCK FALSE
