SPECIFICATION Spec
CONSTANTS
  Names = {"x", "S", "E"}
  StructNames = {"S"}
  EnumNames = {"E"}
  Literals = {"1", "s"}
  Strings = {"s"}
  Tokens = {"x", "-", "*", "<", "?", ":", "(", ")", "[", "]", "{", "}", ".", ",", ";", "=", "+=", "++"}
  Starts <- SmallStarts
  MaxTokens = 7
INVARIANTS GroupsAsC StopsWhereItMust
CHECK_DEADLOCK FALSE
