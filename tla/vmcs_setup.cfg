\* Every mix of seven kinds of selector in FS, GS and DS/ES, with and without an
\* LDT, on four processors.
SPECIFICATION Spec
CONSTANTS
  GDT <- MCGDT
  Loaded <- MCLoaded
  Capabilities <- MCCapabilities
INVARIANTS
  TypeOK
  LaunchesWhenRendered
  GuestKeepsSegments
CHECK_DEADLOCK FALSE
