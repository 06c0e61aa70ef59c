\* Five branches, batches of two, two datagrams of which each may arrive twice.
SPECIFICATION Spec
CONSTANTS
  MaxBranches = 5
  NDatagrams = 2
  BatchSize = 2
  MaxChunks = 1
  MaxCopies = 2
INVARIANTS
  ResultsInOrder
  EachBranchOnce
CHECK_DEADLOCK FALSE
