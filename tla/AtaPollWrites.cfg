\* Writes of one sector, each wait one STATUS read, so that they give up soon.  A read
\* that gave up leaves the same demand behind; the data of the next write, which the
\* drive does not want, then goes nowhere.
SPECIFICATION Spec
CONSTANTS
  LowSpan = 4
  Heads = 2
  Span48 = 16
  DiskSectors = 4
  IrqBeforeWriteData = FALSE
  IdleReads = 1
  DrqReads = 1
  CallOps = {"WRITE_28", "WRITE_48"}
  StartLbas = {1, 2}
  Counts = {1}
  BufferSectors = 1
  DriveAtEntry = {"ready"}
  MaxCalls = 3
INVARIANT
  WritesItsSectors
CHECK_DEADLOCK FALSE
