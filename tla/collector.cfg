\* Two datagrams of two records; each may arrive twice, in either order, or not at all.
SPECIFICATION Spec
CONSTANTS
  NDatagrams = 2
  BatchSize = 2
  MaxChunks = 2
  MaxCopies = 2
  MaxFailures = 0
  MaxRestarts = 0
INVARIANTS
  TypeOK
  FilesHoldTheirDatagram
  LinesGenuine
PROPERTIES
  ClosedFilesDecoded
  ArrivalsFinish
  ImplementsArchive
CHECK_DEADLOCK FALSE
