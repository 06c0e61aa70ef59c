\* Three processes, the directory of one out of AttachProcess's reach; tracing
\* starts at the second exit, and the count wraps within the bound.
SPECIFICATION Spec
CONSTANTS
  Processes = {p1, p2, p3}
  High = {p3}
  UserSlots <- MCUserSlots
  KernelSlots <- MCKernelSlots
  Frames <- MCFrames
  KernelTable <- MCKernelTable
  Cr4Features <- MCCr4Features
  Cr4Reserved <- MCCr4Reserved
  TraceAt = 1
  CountMod = 3
  MaxExits = 3
SYMMETRY MCSymmetry
INVARIANTS
  TypeOK
  ReadsItsOwnSpace
PROPERTIES
  KernelHalfKept
  GuestGetsOn
  FatalCauses
CHECK_DEADLOCK FALSE
