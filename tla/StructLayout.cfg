SPECIFICATION LayoutSpec
CONSTANTS
  Count = 3
  EnumCount = 3
  StructBase = 4
  ListStructBase = 7
  EnumBase = 10
  Programs <- SmallPrograms
INVARIANTS LayoutTypeOK DeclaredBeforeUse LeftOutOnlyInCycles
PROPERTIES ImplementsOrder Ends
CHECK_DEADLOCK FALSE
