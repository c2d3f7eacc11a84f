SPECIFICATION Spec
CONSTANTS
  Structs <- MCStructs
  Enums <- MCEnums
  Functions <- MCFunctions
  MaxStack = 3
  Rules = {"remainder", "void"}
PROPERTY
  FloatArithmetic
CHECK_DEADLOCK FALSE
