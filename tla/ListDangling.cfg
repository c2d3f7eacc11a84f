SPECIFICATION Spec
CONSTANTS
  Vars = {v, w}
  Cli = cli
  Iter = iter
  Values = {1, 2}
  LaunchArgs <- OneArg
  Addrs = {a1, a2, a3, a4}
  MaxLen = 2
  NoList = NoList
  Free = Free
  Uninit = Uninit
  Discipline = "none"
SYMMETRY Addresses
VIEW State
INVARIANT NeverUndefined
CHECK_DEADLOCK FALSE
