SPECIFICATION Spec
CONSTANTS
  Invocations = {p, q}
  Sources <- TwoSources
  Here = here
  Scratch = {d1, d2}
  MaxEdits = 1
  Statuses <- ExitStatuses
  None = None
INVARIANTS TypeOK KeepsItsOwn NothingLeft
PROPERTY Finishes
CHECK_DEADLOCK FALSE
