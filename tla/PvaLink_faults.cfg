CONSTANTS
  t0 = t0  t1 = t1  t2 = t2
  Torn = Torn  NoType = NoType  NoValue = NoValue
  NotServed = NotServed  Closed = Closed
  Default = 0
  Type = {t0, t1}
  MaxMessageSize = 80
  SeqMod = 8
  FieldBytes = 4
  MaskBytes = 2
  NumChan = 1
  First = {0}
  Second = {}
  NumFields = 2
  AllMarked = TRUE
  HbIterations = 2
  NetCap = 2
  SeqLimit = 3
  Window = 2
  MaxEvents = 2
  FirstChanges = 2
  OtherChanges = 1
  MaxConnect = 2
  MaxStartup = 2
  Counted = TRUE
  MaxLoss = 1
  MaxDup = 1
  MaxSilence = 1
  Chan <- MCChan
  MaxChange <- MCMaxChange
  Field <- MCField
  Data <- MCData
  Builtin <- MCBuiltin
  TypesOf <- MCTypesOf
  FirstMarked <- MCFirstMarked
  TypeBytes <- MCTypeBytes
SPECIFICATION Spec
INVARIANTS NoLostChange QueueConsistent Coherent
CHECK_DEADLOCK FALSE
