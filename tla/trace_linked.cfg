\* The flags adjacent, as gcc -O2 lays them out; branches of every class.
SPECIFICATION Spec
CONSTANTS
  Capacity = 3
  EntrySize = 4
  FullMark = 8
  MaxExits = 5
  WordFlags <- AdjacentFlags
  Forms <- BasicForms
INVARIANTS
  Counted
PROPERTIES
  LostOnlyByWideClear
  ImplementsChannel
CHECK_DEADLOCK FALSE
