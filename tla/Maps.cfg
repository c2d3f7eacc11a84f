SPECIFICATION Spec
CONSTANTS
  Vars = {v, w}
  Keys = {k1, k2, k3, k4}
  Values = {0, 1}
  Zero = 0
  Addrs = {a1, a2, a3}
  MaxEntries = 4
  Literals <- SmallLiterals
  NoMap = NoMap
  Free = Free
  Uninit = Uninit
  Discipline = "writes"
SYMMETRY Interchangeable
VIEW State
INVARIANTS TypeOK MemorySafe
PROPERTY ImplementsValueMaps
CHECK_DEADLOCK FALSE
