SPECIFICATION Spec
CONSTANTS
  Structs <- MCStructs
  Enums <- MCEnums
  Functions <- MCFunctions
  MaxStack = 4
  Rules = {"fraction", "remainder", "void"}
INVARIANTS
  TypeOK
  AcceptedBuilds
  ValuesHaveTheirTypes
  NothingConverted
CHECK_DEADLOCK FALSE
