SPECIFICATION Spec
CONSTANTS
  Capacity = 3
  EntrySize = 4
  FullMark = 8
  MaxExits = 4
  WordFlags <- SeparateFlags
  Forms <- IndirectForms
INVARIANTS
  FlagTellsKind
CHECK_DEADLOCK FALSE
