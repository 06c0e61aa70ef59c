\* Two datagrams; one call of recvfrom may fail, and the server may be started
\* again once, at any moment.
SPECIFICATION Spec
CONSTANTS
  NDatagrams = 2
  BatchSize = 2
  MaxChunks = 2
  MaxCopies = 1
  MaxFailures = 1
  MaxRestarts = 1
INVARIANTS
  LinesGenuine
PROPERTIES
  FilesHandled
CHECK_DEADLOCK FALSE
