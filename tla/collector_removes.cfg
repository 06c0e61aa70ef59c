SPECIFICATION Spec
CONSTANTS
  NDatagrams = 2
  BatchSize = 2
  MaxChunks = 2
  MaxCopies = 1
  MaxFailures = 0
  MaxRestarts = 0
PROPERTIES
  RemovedWhenProcessed
CHECK_DEADLOCK FALSE
