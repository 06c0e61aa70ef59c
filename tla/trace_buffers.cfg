\* Flags in separate words; 2 records to a batch, room for 3 in a buffer.
SPECIFICATION FairSpec
CONSTANTS
  Capacity = 3
  EntrySize = 4
  FullMark = 8
  MaxExits = 7
  WordFlags <- SeparateFlags
  Forms <- CallRetForms
INVARIANTS
  TypeOK
  InBounds
  Exclusive
  BatchesWhole
  BatchOrder
  Accounting
PROPERTIES
  ClearedAfterSend
  ImplementsChannel
  FullBufferReleased
CHECK_DEADLOCK FALSE
