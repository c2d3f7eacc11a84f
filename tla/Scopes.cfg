SPECIFICATION Spec
CONSTANTS
  Names = {x, y, printf}
  Library = {printf}
  None = None
  MaxDecls = 4
  MaxDepth = 3
  Rules = {"library", "self", "parameter"}
SYMMETRY UserNames
INVARIANTS TypeOK SameBinding GccAccepts FixedKept
CHECK_DEADLOCK FALSE
