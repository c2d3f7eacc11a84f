SPECIFICATION Spec
CONSTANTS
  x = x
  sp = sp
  Literals <- SmallLiterals
  Space <- Spaces
  MaxText = 2
  MaxLong = 3
  RandMax = 1
  Rules = {"sums fit", "ranges fit", "disk has room", "only files"}
  Paths = {p}
  Contents <- SmallContents
  Nul = Nul
  NewLine = NewLine
  FirstCap = 2
  Missing = Missing
  Directory = Directory
  Unknown = Unknown
  Windows = {w1, w2}
  MaxQueue = 2
  None = None
  OneWindow = TRUE
INVARIANTS TextAsDocumented PromisesKept WindowSound
PROPERTY ClickIsSeen
CHECK_DEADLOCK FALSE
