\* Every operation on a drive that is present and may interrupt.
SPECIFICATION Spec
CONSTANTS
  LowSpan = 2
  Heads = 2
  Span48 = 6
  DiskSectors = 6
  IrqBeforeWriteData = TRUE
  Ops <- AllOps
  StartLbas = {0, 1, 3, 5}
  Counts = {0, 1, 3}
  BufferSectors = 4
  DriveAtEntry = {"ready"}
  NienAtEntry = {FALSE}
INVARIANT
  InitThenTransfer
CHECK_DEADLOCK FALSE
