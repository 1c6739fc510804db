CONSTANTS
  a = a  b = b  h = h
  Name = {a, b}
  FieldName = {h}
  OtherKey = "other"
  Number = {1, 4}
  Unit = 2
  AnyShape = FALSE
  MaxEvents = 17
  Length = {3, 4}
  MaxTime = 5
  MaxSends = 3
  MaxMessageSize = 72
  SeqMod = 16
  Elements = {1, 9}
  Gone = Gone
  CountMod = 64
  MetaBytes = 16
  MaxTable = 4
  Dest <- MCDest
SPECIFICATION Spec
INVARIANTS TypeOK ParsedAsDeclared CutFileDetected IndicesAgree ReadAsWritten RateKept
CHECK_DEADLOCK FALSE
