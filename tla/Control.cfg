SPECIFICATION FairSpec
CONSTANTS
  Bodies <- SmallBodies
  MaxLen = 2
  Values = {0, 1}
  Rule = "returns"
INVARIANTS TypeOK SameEvents SemaSuffices
PROPERTY ForInEnds
CHECK_DEADLOCK FALSE
