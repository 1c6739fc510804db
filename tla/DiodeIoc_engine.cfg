CONSTANTS
  A = A  AB = AB  hihi = hihi  prec = prec  d1 = d1  d2 = d2  bad = bad
  s1 = s1  s2 = s2  major = major
  None = None  NoAlarm = NoAlarm  Invalid = Invalid
  Record = {A, AB}
  RecordSeq <- Database
  Field = {hihi, prec}
  Present <- OnlyHihi
  Cix <- CixShort
  Config <- ShortFirst
  Begins <- BeginsWith
  LutSize = 4
  Data = {d1, d2, bad}
  Puttable <- NotBad
  Stamp = {s1, s2}
  AlarmsAt <- AlarmAt
  ManyAlarms = FALSE
SPECIFICATION Spec
INVARIANTS TypeOK FieldsWithRecord RecordFollows ClientsInformed
CHECK_DEADLOCK FALSE
