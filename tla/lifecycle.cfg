\* Two loads: the second meets what the first left in the processor.
SPECIFICATION Spec
CONSTANT MaxLoads = 2
INVARIANTS
  TypeOK
  ReportIsTrue
  LaunchedWithEverything
  TaskTracksThread
  SocketFollowsThread
  CheckedStepsSurvive
PROPERTIES
  BuffersOutliveGuest
CHECK_DEADLOCK FALSE
