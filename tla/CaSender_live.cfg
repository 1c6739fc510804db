CONSTANTS
  d1 = d1  d2 = d2  t1 = t1  t2 = t2  None = None
  MaxMessageSize = 64
  SeqMod = 2
  N = 2
  ParentIndex <- Single
  Polled = {}
  Data = {d1}
  Types = {t1}
  Counts = {1, 6}
  DbrSize <- EightBytes
  HashOf <- Injective
  HbIterations = 2
  PfIterations = 1
  NetCap = 1
SPECIFICATION FairSpec
INVARIANTS FragFront HeartbeatBound
PROPERTIES ImplementsSource QueueDrains
