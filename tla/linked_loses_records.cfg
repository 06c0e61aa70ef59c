SPECIFICATION Spec
CONSTANTS
  Capacity = 3
  EntrySize = 4
  FullMark = 8
  MaxExits = 6
  WordFlags <- AdjacentFlags
  Forms <- CallRetForms
INVARIANTS
  Accounting
CHECK_DEADLOCK FALSE
