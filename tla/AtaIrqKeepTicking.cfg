\* Reads and initialisation; the interrupt may come right after the command.
SPECIFICATION FairSpec
CONSTANTS
  LowSpan = 2
  Heads = 2
  Span48 = 6
  DiskSectors = 6
  IrqBeforeWriteData = TRUE
  Ops <- ReadOps
  StartLbas = {0, 1, 3, 5}
  Counts = {0, 1, 3}
  BufferSectors = 4
  DriveAtEntry = {"ready"}
  NienAtEntry = {FALSE}
PROPERTY
  KeepTickingEnds
CHECK_DEADLOCK FALSE
