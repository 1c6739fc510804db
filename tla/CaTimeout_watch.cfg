CONSTANTS
  None = None  Torn = Torn  c1 = c1  c2 = c2  up = up  down = down
  MaxMessageSize = 64
  SeqMod = 5
  Chan = {c1, c2}
  Value = {up, down}
  Disc = {down}
  Fragmented = {c2}
  Hb = 2
  RecvTimeout = 1
  MaxPackets = 2
  Size <- MCSize
SPECIFICATION Spec
INVARIANTS ClockTypeOK TimeoutComplete
PROPERTIES TimeoutSound
