CONSTANTS
  d1 = d1  d2 = d2  t1 = t1  t2 = t2  None = None
  MaxMessageSize = 64
  SeqMod = 2
  N = 2
  ParentIndex <- OneRecord
  Polled = {1}
  Data = {d1, d2}
  Types = {t1, t2}
  Counts = {1}
  DbrSize <- EightBytes
  HashOf <- Injective
  HbIterations = 2
  PfIterations = 2
  NetCap = 1
SPECIFICATION Spec
INVARIANTS TypeOK QueueConsistent NoLostUpdate WireDescribesValue
